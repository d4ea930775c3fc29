---------------------------- MODULE ComposeProofs ----------------------------
(***************************************************************************)
(* What Compose promises, for all compose files, stacks and labels.        *)
(***************************************************************************)
EXTENDS Compose, TLAPS, FiniteSetTheorems, SequenceTheorems, WellFoundedInduction

(***************************************************************************)
(* Definitions and dictionaries                                            *)
(***************************************************************************)
MainNames == {name \in Names : <<Main, name>> \in DOMAIN conf}
FilesOf == {n[1] : n \in DOMAIN conf}

\* a path that is written has been made absolute, against one of the files
Resolved(path, F) == path.by # None => path.against \in F
DictIn(d, F) == d \in Dict /\ Resolved(d.build, F) /\ Resolved(d.volumes, F)

ConfOK == conf \in Configurations

LEMMA ConfType ==
    ASSUME ConfOK
    PROVE  /\ DOMAIN conf \subseteq Nodes /\ IsFiniteSet(DOMAIN conf)
           /\ \E name \in Names : <<Main, name>> \in DOMAIN conf
           /\ \A n \in DOMAIN conf : conf[n] \in Definition
           /\ FilesOf \subseteq Files
<1>1. /\ DOMAIN conf \subseteq Nodes /\ IsFiniteSet(DOMAIN conf)
      /\ \E name \in Names : <<Main, name>> \in DOMAIN conf
      /\ \A n \in DOMAIN conf : conf[n] \in Definition
  BY ConfigurationsAssumption DEF ConfOK
<1>2. FilesOf \subseteq Files
  BY <1>1 DEF FilesOf, Nodes
<1> QED  BY <1>1, <1>2

LEMMA NoneIsNoNode == None \notin Nodes
BY DEF None, Nodes

LEMMA WrittenType ==
    ASSUME ConfOK, NEW n \in DOMAIN conf
    PROVE  /\ Written(n) \in Dict
           /\ Written(n).build.against = None /\ Written(n).volumes.against = None
<1>1. n \in Nodes /\ conf[n] \in Definition
  BY ConfType
<1>2. \A has \in BOOLEAN : (IF has THEN n ELSE None) \in Nodes \cup {None}
  BY <1>1
<1>3. \A has \in BOOLEAN : [by |-> IF has THEN n ELSE None, against |-> None] \in Path
  BY <1>1 DEF Path
<1>4. (IF conf[n].ports THEN <<n>> ELSE <<>>) \in Seq(Nodes)
  BY <1>1
<1> QED  BY <1>1, <1>2, <1>3, <1>4 DEF Written, Dict, Definition

LEMMA MergeType ==
    ASSUME NEW base \in Dict, NEW over \in Dict
    PROVE  merge_service_dicts(base, over) \in Dict
<1>1. base.ports \o over.ports \in Seq(Nodes)
  BY DEF Dict
<1>2. NoPath \in Path
  BY DEF NoPath, Path
<1> QED  BY <1>1, <1>2 DEF merge_service_dicts, Dict, Prefer

LEMMA EnvironmentType ==
    ASSUME NEW d \in Dict
    PROVE  /\ resolve_environment(d) \in Dict
           /\ resolve_environment(d).build = d.build
           /\ resolve_environment(d).volumes = d.volumes
           /\ resolve_environment(d).image = d.image
           /\ resolve_environment(d).ports = d.ports
           /\ resolve_environment(d).environment = Prefer(d.environment, d.env_file, None)
BY DEF Dict, resolve_environment, Prefer

LEMMA ProcessType ==
    ASSUME NEW d \in Dict, NEW file \in Files
    PROVE  LET Resolve(path) == IF path.by # None /\ path.against = None
                                THEN [path EXCEPT !.against = file] ELSE path
               e == process_container_options(d, file)
           IN /\ e \in Dict /\ e.image = d.image /\ e.ports = d.ports
              /\ e.environment = d.environment
              /\ e.build = Resolve(d.build) /\ e.volumes = Resolve(d.volumes)
<1> DEFINE Resolve(path) == IF path.by # None /\ path.against = None
                            THEN [path EXCEPT !.against = file] ELSE path
<1>1. \A path \in Path : Resolve(path) \in Path
  BY DEF Path
<1>2. PICK b \in Path, v \in Path : b = Resolve(d.build) /\ v = Resolve(d.volumes)
  BY <1>1 DEF Dict
<1>3. process_container_options(d, file) = [d EXCEPT !.build = b, !.volumes = v]
  BY <1>2 DEF process_container_options
<1> HIDE DEF Resolve
<1>4. LET e == process_container_options(d, file)
      IN /\ e \in Dict /\ e.image = d.image /\ e.ports = d.ports
         /\ e.environment = d.environment /\ e.build = b /\ e.volumes = v
  BY <1>3 DEF Dict
<1> QED  BY <1>2, <1>4 DEF Resolve

(***************************************************************************)
(* Sequences                                                               *)
(***************************************************************************)
LEMMA NotEmpty ==
    ASSUME NEW S, NEW s \in Seq(S), s # <<>>
    PROVE  /\ Len(s) \in Nat \ {0} /\ DOMAIN s = 1 .. Len(s)
           /\ \A i \in 1 .. Len(s) : s[i] \in S
OBVIOUS

\* All but the last of a sequence.
LEMMA AllButLast ==
    ASSUME NEW S, NEW s \in Seq(S), s # <<>>
    PROVE  LET t == SubSeq(s, 1, Len(s) - 1)
           IN /\ Len(s) \in Nat \ {0} /\ t \in Seq(S) /\ Len(t) = Len(s) - 1
              /\ \A i \in 1 .. Len(s) - 1 : t[i] = s[i]
<1>1. Len(s) \in Nat \ {0} /\ \A i \in 1 .. Len(s) : s[i] \in S
  OBVIOUS
<1> DEFINE t == SubSeq(s, 1, Len(s) - 1)
<1>2. t = [i \in 1 .. Len(s) - 1 |-> s[i]]
  BY <1>1
<1> HIDE DEF t
<1>3. t \in Seq(S) /\ Len(t) = Len(s) - 1 /\ \A i \in 1 .. Len(s) - 1 : t[i] = s[i]
  BY <1>1, <1>2
<1> QED  BY <1>1, <1>3 DEF t

(***************************************************************************)
(* The calls that wait                                                     *)
(***************************************************************************)
\* The calls of the loader start at a service of Main.
Calls(waiting) ==
    waiting \in Seq(DOMAIN conf) /\ waiting # <<>> /\ waiting[1][1] = Main

\* the override of a service, where the file has one
OverrideOf(name) == <<Override, name>>
HasOverride(name) == OverrideOf(name) \in DOMAIN conf

LEMMA CallsAre ==
    ASSUME ConfOK, NEW waiting, Calls(waiting)
    PROVE  /\ Len(waiting) \in Nat \ {0}
           /\ \A i \in 1 .. Len(waiting) : waiting[i] \in DOMAIN conf
           /\ waiting[1] = <<Main, waiting[1][2]>> /\ waiting[1][2] \in MainNames
<1>1. Len(waiting) \in Nat \ {0} /\ \A i \in 1 .. Len(waiting) : waiting[i] \in DOMAIN conf
  BY DEF Calls
<1>2. waiting[1] \in DOMAIN conf /\ waiting[1] \in Nodes
  BY <1>1, ConfType
<1>3. waiting[1][1] = Main
  BY DEF Calls
<1>4. waiting[1] = <<Main, waiting[1][2]>> /\ waiting[1][2] \in Names
  BY <1>2, <1>3 DEF Nodes
<1> QED  BY <1>1, <1>2, <1>4 DEF MainNames

LEMMA OverridesAre ==
    ASSUME ConfOK, NEW waiting, Calls(waiting)
    PROVE  Overrides(waiting) = IF Len(waiting) = 1 /\ HasOverride(waiting[1][2])
                                THEN {OverrideOf(waiting[1][2])} ELSE {}
BY DEF Overrides, HasOverride, OverrideOf

LEMMA ServiceDictIs ==
    ASSUME ConfOK, NEW waiting, Calls(waiting)
    PROVE  service_dict(waiting) =
             IF Len(waiting) = 1 /\ HasOverride(waiting[1][2])
             THEN merge_service_dicts(Written(waiting[1]),
                                      Written(OverrideOf(waiting[1][2])))
             ELSE Written(waiting[Len(waiting)])
<1>1. CASE Len(waiting) = 1 /\ HasOverride(waiting[1][2])
  <2>1. (CHOOSE o \in Overrides(waiting) : TRUE) = OverrideOf(waiting[1][2])
    BY <1>1, OverridesAre
  <2>2. Overrides(waiting) # {}
    BY <1>1, OverridesAre
  <2> QED  BY <1>1, <2>1, <2>2 DEF service_dict
<1>2. CASE ~(Len(waiting) = 1 /\ HasOverride(waiting[1][2]))
  <2>1. Overrides(waiting) = {}
    BY <1>2, OverridesAre
  <2> QED  BY <1>2, <2>1 DEF service_dict
<1> QED  BY <1>1, <1>2

\* What a definition and its override say, not resolved yet.
LEMMA ServiceDictType ==
    ASSUME ConfOK, NEW waiting, Calls(waiting)
    PROVE  /\ service_dict(waiting) \in Dict
           /\ service_dict(waiting).build.against = None
           /\ service_dict(waiting).volumes.against = None
<1>1. /\ Len(waiting) \in Nat \ {0} /\ waiting[1] \in DOMAIN conf
      /\ waiting[Len(waiting)] \in DOMAIN conf
  BY CallsAre
<1>2. CASE Len(waiting) = 1 /\ HasOverride(waiting[1][2])
  <2> DEFINE base == Written(waiting[1])
             over == Written(OverrideOf(waiting[1][2]))
  <2>1. /\ base \in Dict /\ base.build.against = None /\ base.volumes.against = None
        /\ over \in Dict /\ over.build.against = None /\ over.volumes.against = None
    BY <1>1, <1>2, WrittenType DEF HasOverride
  <2> HIDE DEF base, over
  <2>2. /\ merge_service_dicts(base, over) \in Dict
        /\ merge_service_dicts(base, over).build.against = None
        /\ merge_service_dicts(base, over).volumes.against = None
    <3>1. merge_service_dicts(base, over) \in Dict
      BY <2>1, MergeType
    <3> QED  BY <2>1, <3>1 DEF merge_service_dicts, Prefer, NoPath
  <2> QED  BY <1>2, <2>2, ServiceDictIs DEF base, over
<1>3. CASE ~(Len(waiting) = 1 /\ HasOverride(waiting[1][2]))
  BY <1>1, <1>3, WrittenType, ServiceDictIs
<1> QED  BY <1>2, <1>3

\* the definition the i-th of the calls extends
Extends(waiting, i) ==
    IF i = 1 THEN FirstExtends(waiting[1][2]) ELSE conf[waiting[i]].extends

LEMMA ExtendsOfIs ==
    ASSUME ConfOK, NEW waiting, Calls(waiting)
    PROVE  ExtendsOf(waiting) = Extends(waiting, Len(waiting))
<1> DEFINE name == waiting[1][2]
           overriding == {o \in Overrides(waiting) : conf[o].extends # None}
<1>1. Len(waiting) \in Nat \ {0} /\ waiting[1] = <<Main, name>>
  BY CallsAre
<1>2. CASE Len(waiting) = 1 /\ HasOverride(name) /\ conf[OverrideOf(name)].extends # None
  <2>1. overriding = {OverrideOf(name)}
    BY <1>2, OverridesAre
  <2>2. (CHOOSE o \in overriding : TRUE) = OverrideOf(name) /\ overriding # {}
    BY <2>1
  <2>3. ExtendsOf(waiting) = conf[OverrideOf(name)].extends
    BY <2>2 DEF ExtendsOf
  <2> QED  BY <1>2, <2>3 DEF Extends, FirstExtends, HasOverride, OverrideOf
<1>3. CASE ~(Len(waiting) = 1 /\ HasOverride(name) /\ conf[OverrideOf(name)].extends # None)
  <2>1. overriding = {}
    BY <1>3, OverridesAre
  <2>2. ExtendsOf(waiting) = conf[waiting[Len(waiting)]].extends
    BY <2>1 DEF ExtendsOf
  <2> QED  BY <1>1, <1>3, <2>2 DEF Extends, FirstExtends, HasOverride, OverrideOf
<1> QED  BY <1>2, <1>3

(***************************************************************************)
(* Types                                                                   *)
(***************************************************************************)
Failures == {"refused", "circular", "crashed"}

LoadOK ==
    /\ ConfOK
    /\ unloaded \subseteq MainNames
    /\ calls = <<>> \/ Calls(calls)
    /\ dict # None => DictIn(dict, FilesOf) /\ calls # <<>>
    /\ \A n \in DOMAIN loaded : n \in MainNames /\ DictIn(loaded[n], FilesOf)
    /\ stage = "load" =>
          MainNames = unloaded \cup DOMAIN loaded
                      \cup IF calls = <<>> THEN {} ELSE {calls[1][2]}
    /\ stage \notin Failures \cup {"load"} => MainNames = DOMAIN loaded

LEMMA LoadOKInit == Init => LoadOK
<1> SUFFICES ASSUME Init PROVE LoadOK
  OBVIOUS
<1> QED  BY DEF Init, LoadOK, ConfOK, MainNames, Failures

LEMMA ConfStays ==
    ASSUME ConfOK, UNCHANGED conf
    PROVE  ConfOK' /\ MainNames' = MainNames /\ FilesOf' = FilesOf
BY DEF ConfOK, MainNames, FilesOf

LEMMA LoadServiceOK == LoadOK /\ load_service => LoadOK'
<1> SUFFICES ASSUME LoadOK, load_service PROVE LoadOK'
  OBVIOUS
<1>1. UNCHANGED <<conf, dict, loaded>> /\ ConfOK' /\ MainNames' = MainNames /\ FilesOf' = FilesOf
  BY ConfStays DEF load_service, LoadOK
<1>2. CASE unloaded = {} /\ stage' = "sort" /\ UNCHANGED <<unloaded, calls>>
  <2>1. calls = <<>> /\ calls' = <<>> /\ stage = "load" /\ MainNames = DOMAIN loaded
    BY <1>2 DEF load_service, LoadOK
  <2>2. FilesOf' = FilesOf
    BY <1>1 DEF FilesOf
  <2>3. /\ unloaded' \subseteq MainNames' /\ MainNames' = DOMAIN loaded'
        /\ (dict' # None => DictIn(dict', FilesOf') /\ calls' # <<>>)
        /\ \A n \in DOMAIN loaded' : n \in MainNames' /\ DictIn(loaded'[n], FilesOf')
    BY <1>1, <1>2, <2>1, <2>2 DEF LoadOK
  <2> QED  BY <1>1, <1>2, <2>1, <2>3 DEF LoadOK
<1>3. ASSUME NEW name \in unloaded, calls' = <<<<Main, name>>>>,
             unloaded' = unloaded \ {name}, UNCHANGED stage
      PROVE  LoadOK'
  <2>1. Calls(calls)'
    BY <1>1, <1>3 DEF LoadOK, Calls, MainNames
  <2>2. calls' # <<>> /\ calls'[1][2] = name
    BY <1>3
  <2> QED  BY <1>1, <1>3, <2>1, <2>2 DEF LoadOK, load_service, Failures
<1> QED  BY <1>2, <1>3 DEF load_service

\* A file is refused, circular or too deep: nothing else changes.
LEMMA LoadEndsOK ==
    ASSUME LoadOK, UNCHANGED conf, NEW how \in Failures, LoadEnds(how)
    PROVE  LoadOK'
<1>1. ConfOK' /\ MainNames' = MainNames /\ FilesOf' = FilesOf
  BY ConfStays DEF LoadOK
<1>2. UNCHANGED <<unloaded, calls, dict, loaded>> /\ stage' = how
  BY DEF LoadEnds
<1>3. stage' # "load" /\ stage' \in Failures \cup {"load"}
  BY <1>2 DEF Failures
<1>4. (calls = <<>> \/ Calls(calls)) => (calls' = <<>> \/ Calls(calls)')
  BY <1>2 DEF Calls
<1>5. /\ ConfOK' /\ unloaded' \subseteq MainNames'
      /\ (dict' # None => DictIn(dict', FilesOf') /\ calls' # <<>>)
      /\ \A n \in DOMAIN loaded' : n \in MainNames' /\ DictIn(loaded'[n], FilesOf')
  BY <1>1, <1>2 DEF LoadOK
<1> QED  BY <1>3, <1>4, <1>5 DEF LoadOK

LEMMA ResolveExtendsOK == LoadOK /\ resolve_extends => LoadOK'
<1> SUFFICES ASSUME LoadOK, resolve_extends PROVE LoadOK'
  OBVIOUS
<1>1. UNCHANGED conf /\ ConfOK' /\ MainNames' = MainNames /\ FilesOf' = FilesOf
      /\ Calls(calls)
  BY ConfStays DEF resolve_extends, LoadOK
<1>2. \A how \in Failures : LoadEnds(how) => LoadOK'
  BY <1>1, LoadEndsOK
<1>3. ASSUME ExtendsOf(calls) \in DOMAIN conf, calls' = Append(calls, ExtendsOf(calls)),
             UNCHANGED <<stage, unloaded, dict, loaded>>
      PROVE  LoadOK'
  <2>1. Calls(calls)' /\ calls'[1] = calls[1] /\ calls' # <<>> /\ calls # <<>>
    BY <1>1, <1>3 DEF Calls
  <2> QED  BY <1>1, <1>3, <2>1 DEF LoadOK
<1> QED  BY <1>2, <1>3 DEF resolve_extends, IsWritten, Failures

\* A dictionary is resolved against the file of the call that made it.
LEMMA ProcessOK ==
    ASSUME ConfOK, NEW d \in Dict, NEW file \in FilesOf,
           d.build.against = None \/ Resolved(d.build, FilesOf),
           d.volumes.against = None \/ Resolved(d.volumes, FilesOf)
    PROVE  DictIn(process_container_options(d, file), FilesOf)
<1>1. file \in Files
  BY ConfType
<1> DEFINE e == process_container_options(d, file)
<1>2. /\ e \in Dict
      /\ e.build = IF d.build.by # None /\ d.build.against = None
                   THEN [d.build EXCEPT !.against = file] ELSE d.build
      /\ e.volumes = IF d.volumes.by # None /\ d.volumes.against = None
                     THEN [d.volumes EXCEPT !.against = file] ELSE d.volumes
  BY <1>1, ProcessType
<1>3. d.build \in Path /\ d.volumes \in Path
  BY DEF Dict
<1> HIDE DEF e
<1>4. \A path \in Path : [path EXCEPT !.against = file].against = file
  BY DEF Path
<1> QED  BY <1>2, <1>3, <1>4 DEF DictIn, Resolved, e

LEMMA MakeServiceDictOK == LoadOK /\ make_service_dict => LoadOK'
<1> SUFFICES ASSUME LoadOK, make_service_dict PROVE LoadOK'
  OBVIOUS
<1>1. /\ ConfOK' /\ MainNames' = MainNames /\ FilesOf' = FilesOf /\ Calls(calls)
      /\ UNCHANGED <<stage, conf, unloaded, calls, loaded>> /\ ConfOK
  BY ConfStays DEF make_service_dict, LoadOK
<1>2. Top \in DOMAIN conf /\ Top[1] \in FilesOf
  BY <1>1, CallsAre DEF Top, FilesOf
<1> DEFINE d == resolve_environment(service_dict(calls))
<1>3. d \in Dict /\ d.build.against = None /\ d.volumes.against = None
  BY <1>1, ServiceDictType, EnvironmentType
<1>4. DictIn(dict', FilesOf')
  <2> HIDE DEF d
  <2>1. dict' = process_container_options(d, Top[1])
    BY DEF d, make_service_dict
  <2> QED  BY <1>1, <1>2, <1>3, <2>1, ProcessOK
<1>5. Calls(calls)' /\ calls' # <<>>
  BY <1>1 DEF Calls
<1> QED  BY <1>1, <1>4, <1>5 DEF LoadOK

LEMMA ReturnDictOK == LoadOK /\ return_dict => LoadOK'
<1> SUFFICES ASSUME LoadOK, return_dict PROVE LoadOK'
  OBVIOUS
<1>1. /\ ConfOK' /\ MainNames' = MainNames /\ FilesOf' = FilesOf
      /\ UNCHANGED conf /\ ConfOK /\ Calls(calls) /\ stage = "load"
      /\ DictIn(dict, FilesOf)
  BY ConfStays DEF return_dict, LoadOK
<1>2. \A how \in Failures : LoadEnds(how) => LoadOK'
  BY <1>1, LoadEndsOK
<1>3. /\ Len(calls) \in Nat \ {0} /\ calls[1][2] \in MainNames
      /\ \A i \in 1 .. Len(calls) : calls[i] \in DOMAIN conf
  BY <1>1, CallsAre
<1>4. CASE /\ Len(calls) = 1
           /\ loaded' = [n \in DOMAIN loaded \cup {Top[2]} |->
                            IF n = Top[2] THEN dict ELSE loaded[n]]
           /\ calls' = <<>> /\ dict' = None
           /\ UNCHANGED <<stage, unloaded>>
  <2>1. Top[2] = calls[1][2] /\ calls # <<>>
    BY <1>1, <1>4 DEF Top, Calls
  <2>2. /\ DOMAIN loaded' = DOMAIN loaded \cup {calls[1][2]}
        /\ \A n \in DOMAIN loaded' : n \in MainNames /\ DictIn(loaded'[n], FilesOf)
    BY <1>1, <1>3, <1>4, <2>1 DEF LoadOK
  <2> QED  BY <1>1, <1>3, <1>4, <2>1, <2>2 DEF LoadOK, Failures
<1>5. CASE /\ Len(calls) # 1 /\ UNCHANGED <<stage, unloaded, loaded>>
           /\ LET below == SubSeq(calls, 1, Len(calls) - 1) IN
              /\ calls' = below
              /\ dict' = process_container_options(
                            merge_service_dicts(dict, service_dict(below)),
                            below[Len(below)][1])
  <2> DEFINE below == SubSeq(calls, 1, Len(calls) - 1)
             sd == service_dict(below)
             merged == merge_service_dicts(dict, sd)
  <2>1. /\ Calls(below) /\ below[1] = calls[1] /\ Len(below) = Len(calls) - 1
        /\ below[Len(below)] = calls[Len(calls) - 1]
    <3>1. calls \in Seq(DOMAIN conf) /\ calls[1][1] = Main /\ Len(calls) - 1 \in Nat \ {0}
      BY <1>1, <1>3, <1>5 DEF Calls
    <3>2. /\ below \in Seq(DOMAIN conf) /\ Len(below) = Len(calls) - 1
          /\ \A i \in 1 .. Len(calls) - 1 : below[i] = calls[i]
      BY <3>1, AllButLast DEF Calls
    <3>3. below # <<>> /\ below[1] = calls[1] /\ below[Len(below)] = calls[Len(calls) - 1]
      <4> HIDE DEF below
      <4> QED  BY <3>1, <3>2
    <3> QED  BY <3>1, <3>2, <3>3 DEF Calls
  <2>2. below[Len(below)][1] \in FilesOf
    BY <1>3, <1>5, <2>1 DEF FilesOf
  <2>3. sd \in Dict /\ sd.build.against = None /\ sd.volumes.against = None
    BY <1>1, <2>1, ServiceDictType
  <2> HIDE DEF sd
  <2>4. /\ merged \in Dict
        /\ merged.build.against = None \/ Resolved(merged.build, FilesOf)
        /\ merged.volumes.against = None \/ Resolved(merged.volumes, FilesOf)
    <3>1. dict \in Dict /\ merged \in Dict
      BY <1>1, <2>3, MergeType DEF DictIn
    <3> QED  BY <1>1, <2>3, <3>1 DEF merge_service_dicts, Prefer, DictIn, NoPath
  <2>5. DictIn(dict', FilesOf')
    <3> HIDE DEF merged
    <3>1. dict' = process_container_options(merged, below[Len(below)][1])
      BY <1>5 DEF merged, sd
    <3> QED  BY <1>1, <2>2, <2>4, <3>1, ProcessOK
  <2>6. Calls(calls)' /\ calls'[1] = calls[1] /\ calls' # <<>> /\ calls # <<>>
    BY <1>1, <1>5, <2>1 DEF Calls
  <2> QED  BY <1>1, <1>5, <2>5, <2>6 DEF LoadOK
<1> QED  BY <1>2, <1>4, <1>5 DEF return_dict, Failures

\* In which stages the loader, the sort and the creation of containers are at
\* work, and where they lead.
Sorting == {"sort", "sorting", "making"}
LEMMA Stages ==
    /\ Load => stage = "load" /\ stage' \in {"load", "sort"} \cup Failures /\ UNCHANGED conf
    /\ Sort => /\ stage \in Sorting
               /\ stage' \in Sorting \cup {"dependency_error", "done", "crashed"}
               /\ UNCHANGED <<conf, unloaded, calls, dict, loaded>>
    /\ up => /\ stage = "done" /\ stage' = "up"
             /\ UNCHANGED <<conf, unloaded, calls, dict, loaded, dvars>>
             /\ UNCHANGED <<image_volumes, created, made_volumes>>
<1>1. ASSUME Load PROVE stage = "load" /\ stage' \in {"load", "sort"} \cup Failures
                        /\ UNCHANGED conf
  BY <1>1 DEF Load, load_service, resolve_extends, make_service_dict, return_dict, LoadEnds,
     Failures
<1>2. ASSUME Sort
      PROVE  /\ stage \in Sorting
             /\ stage' \in Sorting \cup {"dependency_error", "done", "crashed"}
             /\ UNCHANGED <<conf, unloaded, calls, dict, loaded>>
  BY <1>2 DEF Sort, begin_sort, visit_last, visit_dependent, visited, make_service, Sorting
<1> QED  BY <1>1, <1>2 DEF up

LEMMA LoadOKNext == LoadOK /\ [Next]_pvars => LoadOK'
<1> SUFFICES ASSUME LoadOK, [Next]_pvars PROVE LoadOK'
  OBVIOUS
<1>1. CASE Load
  BY <1>1, LoadServiceOK, ResolveExtendsOK, MakeServiceDictOK, ReturnDictOK DEF Load
<1>2. ASSUME UNCHANGED <<conf, unloaded, calls, dict, loaded>>,
             stage' = stage \/ (stage \in Sorting \cup {"done"} /\ stage' # "load")
      PROVE  LoadOK'
  <2>1. ConfOK' /\ MainNames' = MainNames /\ FilesOf' = FilesOf
    BY <1>2, ConfStays DEF LoadOK
  <2>2. (calls = <<>> \/ Calls(calls)) => (calls' = <<>> \/ Calls(calls)')
    BY <1>2 DEF Calls
  <2>3. stage \in Sorting \cup {"done"} => stage \notin Failures \cup {"load"}
    BY DEF Sorting, Failures
  <2> QED  BY <1>2, <2>1, <2>2, <2>3 DEF LoadOK
<1>3. CASE Sort \/ up
  BY <1>2, <1>3, Stages DEF Sorting
<1>4. CASE UNCHANGED lvars
  BY <1>2, <1>4 DEF lvars
<1> QED  BY <1>1, <1>3, <1>4 DEF Next, Terminated, pvars

(***************************************************************************)
(* Containers                                                              *)
(***************************************************************************)
LEMMA OverIs ==
    ASSUME NEW f, NEW g
    PROVE  /\ DOMAIN Over(f, g) = DOMAIN f \cup DOMAIN g
           /\ \A k \in DOMAIN g : Over(f, g)[k] = g[k]
           /\ \A k \in DOMAIN f : k \notin DOMAIN g => Over(f, g)[k] = f[k]
BY DEF Over

\* The labels Compose looks for are its own, whatever labels the user writes.
LEMMA LabelsAreOurs ==
    ASSUME NEW L, NEW number, NEW one_off \in BOOLEAN, NEW hashed \in BOOLEAN
    PROVE  \A k \in {"project", "service", "one_off"} :
              build_container_labels(L, labels(one_off), number, hashed)[k]
                = labels(one_off)[k]
<1> DEFINE users == [k \in L |-> "user"]
           ours == labels(one_off)
           numbers == [number |-> number, version |-> "ours"]
           hash == IF hashed THEN [config_hash |-> "ours"] ELSE <<>>
<1>1. DOMAIN ours = {"project", "service", "one_off"}
  BY DEF labels
<1>2. DOMAIN numbers = {"number", "version"}
  OBVIOUS
<1>3. DOMAIN hash \subseteq {"config_hash"}
  <2>1. DOMAIN <<>> = {}
    OBVIOUS
  <2>2. DOMAIN [config_hash |-> "ours"] = {"config_hash"}
    OBVIOUS
  <2> QED  BY <2>1, <2>2
<1>4. build_container_labels(L, ours, number, hashed)
        = Over(Over(Over(users, ours), numbers), hash)
  BY DEF build_container_labels
<1> HIDE DEF users, ours, numbers, hash
<1> SUFFICES ASSUME NEW k \in {"project", "service", "one_off"}
             PROVE  Over(Over(Over(users, ours), numbers), hash)[k] = ours[k]
  BY <1>4 DEF ours
<1>5. k \in DOMAIN ours /\ k \notin DOMAIN numbers /\ k \notin DOMAIN hash
  BY <1>1, <1>2, <1>3
<1>6. Over(users, ours)[k] = ours[k] /\ k \in DOMAIN Over(users, ours)
  <2>1. /\ DOMAIN Over(users, ours) = DOMAIN users \cup DOMAIN ours
        /\ \A j \in DOMAIN ours : Over(users, ours)[j] = ours[j]
    BY OverIs, ZenonT(30)
  <2> QED  BY <1>5, <2>1
<1>7. /\ Over(Over(users, ours), numbers)[k] = ours[k]
      /\ k \in DOMAIN Over(Over(users, ours), numbers)
  BY <1>5, <1>6, OverIs, ZenonT(30)
<1> QED  BY <1>5, <1>7, OverIs

\* What is known of containers: each has the labels that tell a one-off from
\* the others, as its name does.
Labelled(c, one_off) ==
    /\ \A k \in DOMAIN labels(one_off) : c.labels[k] = labels(one_off)[k]
    /\ (c.name[1] = "project") = one_off
CreateOK ==
    /\ \E S : created \in Seq(S)
    /\ \A i \in DOMAIN created : \E one_off \in BOOLEAN : Labelled(created[i], one_off)

LEMMA CreateStep ==
    ASSUME CreateOK, NEW number, NEW one_off \in BOOLEAN, NEW previous,
           Create(number, one_off, previous)
    PROVE  LET new == Container(number, one_off, previous)
           IN /\ Len(created) \in Nat
              /\ DOMAIN created = 1 .. Len(created)
              /\ DOMAIN created' = 1 .. Len(created) + 1
              /\ created'[Len(created) + 1] = new
              /\ \A i \in DOMAIN created : created'[i] = created[i]
              /\ Labelled(new, one_off)
              /\ \E S : created' \in Seq(S)
<1> DEFINE new == Container(number, one_off, previous)
<1>1. PICK S : created \in Seq(S)
  BY DEF CreateOK
<1>2. created' = Append(created, new)
  BY DEF Create
<1>3. Labelled(new, one_off)
  <2>1. /\ new.labels = build_container_labels(options.labels, labels(one_off), number,
                                               ~one_off)
        /\ new.name = container_name(number, one_off)
    BY DEF Container
  <2>2. DOMAIN labels(one_off) = {"project", "service", "one_off"}
    BY DEF labels
  <2>3. (new.name[1] = "project") = one_off
    BY <2>1 DEF container_name
  <2> HIDE DEF new
  <2>4. \A k \in {"project", "service", "one_off"} :
           build_container_labels(options.labels, labels(one_off), number, ~one_off)[k]
             = labels(one_off)[k]
    BY LabelsAreOurs, ZenonT(30)
  <2>5. \A k \in DOMAIN labels(one_off) : new.labels[k] = labels(one_off)[k]
    BY <2>1, <2>2, <2>4
  <2> QED  BY <2>3, <2>5 DEF Labelled
<1> HIDE DEF new
<1> DEFINE T == S \cup {new}
<1>4. created \in Seq(T) /\ new \in T
  BY <1>1
<1> HIDE DEF T
<1>5. /\ Len(created) \in Nat /\ DOMAIN created = 1 .. Len(created)
      /\ created' \in Seq(T) /\ DOMAIN created' = 1 .. Len(created) + 1
      /\ created'[Len(created) + 1] = new
      /\ \A i \in 1 .. Len(created) : created'[i] = created[i]
  BY <1>2, <1>4
<1> QED  BY <1>3, <1>5 DEF new

\* What the actions that create a container do.
LEMMA Creations ==
    ASSUME ContainerStep
    PROVE  \/ UNCHANGED created
           \/ \E number, previous : \E one_off \in BOOLEAN : Create(number, one_off, previous)
BY DEF ContainerStep, create_container, recreate_container, create_one_off, edit

LEMMA CreateOKNext == CreateOK /\ [Next]_pvars => CreateOK'
<1> SUFFICES ASSUME CreateOK, [Next]_pvars PROVE CreateOK'
  OBVIOUS
<1>1. CASE UNCHANGED created
  BY <1>1 DEF CreateOK
<1>2. ASSUME NEW number, NEW previous, NEW one_off \in BOOLEAN,
             Create(number, one_off, previous)
      PROVE  CreateOK'
  <2>1. \A i \in DOMAIN created' : \E o \in BOOLEAN : Labelled(created'[i], o)
    <3> SUFFICES ASSUME NEW i \in DOMAIN created'
                 PROVE  \E o \in BOOLEAN : Labelled(created'[i], o)
      OBVIOUS
    <3>1. i \in DOMAIN created \/ i = Len(created) + 1
      BY <1>2, CreateStep
    <3>2. CASE i \in DOMAIN created
      BY <1>2, <3>2, CreateStep DEF CreateOK
    <3>3. CASE i = Len(created) + 1
      BY <1>2, <3>3, CreateStep
    <3> QED  BY <3>1, <3>2, <3>3
  <2>2. \E S : created' \in Seq(S)
    BY <1>2, CreateStep
  <2> QED  BY <2>1, <2>2 DEF CreateOK
<1>3. CASE ContainerStep
  BY <1>1, <1>2, <1>3, Creations
<1>4. CASE up
  BY <1>1, <1>4, Stages
<1> QED  BY <1>1, <1>3, <1>4 DEF Next, Terminated, pvars, ccvars

\* A labelled container is found among its own kind only.
LEMMA OneKind ==
    ASSUME NEW c, NEW one_off \in BOOLEAN, Labelled(c, one_off)
    PROVE  /\ Matches(c, one_off) /\ ~Matches(c, ~one_off)
           /\ (c.name[1] = "project") = one_off
<1>1. \A o \in BOOLEAN : /\ DOMAIN labels(o) = {"project", "service", "one_off"}
                         /\ labels(o)["one_off"] = IF o THEN "True" ELSE "False"
  BY DEF labels
<1>2. Matches(c, one_off)
  BY DEF Labelled, Matches
<1>3. ~Matches(c, ~one_off)
  <2>1. c.labels["one_off"] = (IF one_off THEN "True" ELSE "False")
    BY <1>1 DEF Labelled
  <2>2. labels(~one_off)["one_off"] = (IF one_off THEN "False" ELSE "True")
    BY <1>1
  <2> QED  BY <1>1, <2>1, <2>2 DEF Matches
<1> QED  BY <1>2, <1>3 DEF Labelled

LEMMA FoundWhenLabelled == CreateOK => FoundByLabels
<1> SUFFICES ASSUME CreateOK, NEW i \in DOMAIN created
             PROVE  /\ Matches(created[i], created[i].name[1] = "project")
                    /\ ~Matches(created[i], created[i].name[1] # "project")
  BY DEF FoundByLabels
<1>1. PICK one_off \in BOOLEAN : Labelled(created[i], one_off)
  BY DEF CreateOK
<1>2. /\ Matches(created[i], one_off) /\ ~Matches(created[i], ~one_off)
      /\ (created[i].name[1] = "project") = one_off
  BY <1>1, OneKind
<1> QED  BY <1>2

\* Whatever labels the user writes and whatever he edits between recreations,
\* the service finds all containers it created, one-off containers apart from
\* the others.
THEOREM ContainersAreFound == Spec => []FoundByLabels
<1>1. Init => CreateOK
  <2> SUFFICES ASSUME Init PROVE CreateOK
    OBVIOUS
  <2>1. created = <<>> /\ created \in Seq({})
    BY DEF Init
  <2> QED  BY <2>1 DEF CreateOK
<1> QED  BY <1>1, CreateOKNext, FoundWhenLabelled, PTL DEF Spec

\* What a container that replaces another has mounted.
LEMMA Recreated ==
    ASSUME NEW old, NEW p \in Paths, NEW number
    PROVE  LET new == Container(number, FALSE, <<old>>)
           IN /\ options.volumes[p].kind = "host" /\ p \notin old.image_volumes
                    => new.volumes[p] = options.volumes[p]
              /\ old.volumes[p].kind = "made" /\ options.volumes[p] = DataVolume
                    => new.volumes[p] = old.volumes[p]
<1> DEFINE data == get_container_data_volumes(old)
           bound == [q \in {q \in Paths : options.volumes[q].kind = "host"}
                       |-> options.volumes[q]]
           binds == merge_volume_bindings(<<old>>)
<1>1. binds = Over(bound, data)
  BY DEF merge_volume_bindings
<1>2. /\ DOMAIN binds = DOMAIN bound \cup DOMAIN data
      /\ \A q \in DOMAIN data : binds[q] = data[q]
      /\ \A q \in DOMAIN bound : q \notin DOMAIN data => binds[q] = bound[q]
  <2> HIDE DEF bound, data, binds
  <2>1. /\ DOMAIN Over(bound, data) = DOMAIN bound \cup DOMAIN data
        /\ \A q \in DOMAIN data : Over(bound, data)[q] = data[q]
        /\ \A q \in DOMAIN bound : q \notin DOMAIN data => Over(bound, data)[q] = bound[q]
    BY OverIs
  <2> QED  BY <1>1, <2>1
<1>3. Container(number, FALSE, <<old>>).volumes = Mounted(binds)
  BY DEF Container
<1>4. p \in DOMAIN binds => Mounted(binds)[p] = binds[p]
  BY DEF Mounted
<1>5. ASSUME options.volumes[p].kind = "host", p \notin old.image_volumes
      PROVE  binds[p] = options.volumes[p] /\ p \in DOMAIN binds
  <2>1. p \notin DOMAIN data
    BY <1>5 DEF get_container_data_volumes, DataVolume
  <2>2. p \in DOMAIN bound /\ bound[p] = options.volumes[p]
    BY <1>5
  <2> HIDE DEF bound, data, binds
  <2> QED  BY <1>2, <2>1, <2>2
<1>6. ASSUME old.volumes[p].kind = "made", options.volumes[p] = DataVolume
      PROVE  binds[p] = old.volumes[p] /\ p \in DOMAIN binds
  <2>1. p \in DOMAIN data /\ data[p] = old.volumes[p]
    BY <1>6 DEF get_container_data_volumes, Absent
  <2> HIDE DEF bound, data, binds
  <2> QED  BY <1>2, <2>1
<1> HIDE DEF binds
<1> QED  BY <1>3, <1>4, <1>5, <1>6

\* A container without a predecessor has the host paths that are given.
LEMMA FirstCreated ==
    ASSUME NEW p \in Paths, NEW number, options.volumes[p].kind = "host"
    PROVE  Container(number, FALSE, <<>>).volumes[p] = options.volumes[p]
<1> DEFINE bound == [q \in {q \in Paths : options.volumes[q].kind = "host"}
                       |-> options.volumes[q]]
           binds == merge_volume_bindings(<<>>)
<1>1. binds = Over(bound, <<>>)
  BY DEF merge_volume_bindings
<1>2. DOMAIN <<>> = {} /\ p \in DOMAIN bound /\ bound[p] = options.volumes[p]
  OBVIOUS
<1>3. p \in DOMAIN binds /\ binds[p] = options.volumes[p]
  <2> HIDE DEF bound, binds
  <2>1. /\ DOMAIN Over(bound, <<>>) = DOMAIN bound \cup DOMAIN <<>>
        /\ \A q \in DOMAIN bound : q \notin DOMAIN <<>> => Over(bound, <<>>)[q] = bound[q]
    BY OverIs
  <2> QED  BY <1>1, <1>2, <2>1
<1> QED  BY <1>3 DEF Container, Mounted

\* One creation keeps the volumes.
LEMMA VolumesCopiedStep ==
    CreateOK /\ [Next]_pvars =>
       \A i \in (DOMAIN created') \ DOMAIN created :
          Matches(created'[i], FALSE) => KeepsVolumes(created'[i])
<1> SUFFICES ASSUME CreateOK, [Next]_pvars, NEW i \in DOMAIN created', i \notin DOMAIN created,
                    Matches(created'[i], FALSE)
             PROVE  KeepsVolumes(created'[i])
  OBVIOUS
<1>1. ContainerStep
  <2>1. ~UNCHANGED created
    OBVIOUS
  <2> QED  BY <2>1, Stages DEF Next, Terminated, pvars, ccvars
<1>2. ASSUME NEW number, NEW before, NEW one_off \in BOOLEAN, Create(number, one_off, before)
      PROVE  created'[i] = Container(number, one_off, before) /\ ~one_off
  <2>1. i = Len(created) + 1 /\ created'[i] = Container(number, one_off, before)
        /\ Labelled(created'[i], one_off)
    BY <1>2, CreateStep
  <2>2. one_off => ~Matches(created'[i], FALSE)
    BY <2>1, OneKind
  <2> QED  BY <2>1, <2>2
<1>3. CASE create_container
  <2>1. Replaced = {}
    BY <1>3 DEF create_container, Replaced
  <2>2. PICK number : created'[i] = Container(number, FALSE, <<>>)
    BY <1>2, <1>3 DEF create_container
  <2> QED  BY <2>1, <2>2, FirstCreated DEF KeepsVolumes
<1>4. CASE recreate_container
  <2>1. PICK old : old = created[Latest]
    OBVIOUS
  <2>2. Replaced = {old}
    BY <1>4, <2>1 DEF recreate_container, Replaced
  <2>3. PICK number : created'[i] = Container(number, FALSE, <<old>>)
    BY <1>2, <1>4, <2>1 DEF recreate_container
  <2>4. PICK new : new = Container(number, FALSE, <<old>>)
    OBVIOUS
  <2>5. ASSUME NEW p \in Paths
        PROVE  /\ options.volumes[p].kind = "host" /\ p \notin old.image_volumes
                     => new.volumes[p] = options.volumes[p]
               /\ old.volumes[p].kind = "made" /\ options.volumes[p] = DataVolume
                     => new.volumes[p] = old.volumes[p]
    BY <2>4, Recreated
  <2>6. created'[i] = new
    BY <2>3, <2>4
  <2> QED  BY <2>2, <2>5, <2>6 DEF KeepsVolumes
<1>5. ~create_one_off
  BY <1>2 DEF create_one_off
<1>6. ~edit
  BY DEF edit
<1> QED  BY <1>1, <1>3, <1>4, <1>5, <1>6 DEF ContainerStep

\* However the compose file and the image are edited between recreations, a
\* volume Docker made is kept as long as the file gives its path as a volume
\* without a host path, for any number of paths and containers.
THEOREM VolumesAreCopied == Spec => VolumesCopied
<1>1. Init => CreateOK
  <2> SUFFICES ASSUME Init PROVE CreateOK
    OBVIOUS
  <2>1. created = <<>> /\ created \in Seq({})
    BY DEF Init
  <2> QED  BY <2>1 DEF CreateOK
<1> QED  BY <1>1, CreateOKNext, VolumesCopiedStep, PTL DEF Spec, VolumesCopied

(***************************************************************************)
(* The order of services                                                   *)
(***************************************************************************)
Dependents(n) == get_service_dependents(n)
Waits(i) == visiting[i].name

\* What is sorted is not unmarked, and is there once.
SortedOnce ==
    /\ unmarked \cap ToSet(sorted) = {}
    /\ stage = "sorting" => unmarked \cup ToSet(sorted) = DOMAIN loaded
    /\ \A i, j \in DOMAIN sorted : sorted[i] = sorted[j] => i = j

\* Who requires a sorted service is sorted, behind it.
InOrder ==
    /\ \A i, j \in DOMAIN sorted : sorted[j] \in Requires(sorted[i]) => j < i
    /\ \A n \in ToSet(sorted) : Dependents(n) \subseteq ToSet(sorted)

\* The calls that wait are of unmarked services, each of which requires the
\* one before it; a dependent that has been visited is sorted or is waiting.
WaitingOK ==
    /\ \A i \in DOMAIN visiting :
          /\ Waits(i) \in unmarked /\ visiting[i].dependents \subseteq Dependents(Waits(i))
          /\ \A m \in Dependents(Waits(i)) \ visiting[i].dependents :
                m \in ToSet(sorted) \/ (i < Len(visiting) /\ m = Waits(i + 1))
    /\ \A i, j \in DOMAIN visiting : Waits(i) = Waits(j) => i = j
    /\ \A i \in 1 .. Len(visiting) - 1 : Waits(i + 1) \in Dependents(Waits(i))

\* What has been made is what was sorted, from the front.
MadeOK ==
    /\ Len(made) <= Len(sorted)
    /\ \A i \in DOMAIN made : made[i] = sorted[i]
    /\ stage \in {"done", "up"} => Len(made) = Len(sorted)

SortTypes ==
    /\ unmarked \subseteq DOMAIN loaded
    /\ visiting \in Seq([name : DOMAIN loaded, dependents : SUBSET DOMAIN loaded])
    /\ sorted \in Seq(DOMAIN loaded)
    /\ made \in Seq(DOMAIN loaded)

SortOK ==
    /\ stage \in {"load", "sort"} =>
          unmarked = {} /\ visiting = <<>> /\ sorted = <<>> /\ made = <<>>
    /\ stage = "sorting" => made = <<>>
    /\ SortTypes /\ SortedOnce /\ InOrder /\ WaitingOK /\ MadeOK
    /\ stage \in {"making", "done", "up"} => ToSet(sorted) = DOMAIN loaded
    /\ stage = "dependency_error" => \E S \in SUBSET DOMAIN loaded : InCircle(S)

LEMMA NothingSorted ==
    /\ unmarked = {} /\ visiting = <<>> /\ sorted = <<>> /\ made = <<>>
    /\ stage \in {"load", "sort"} \cup Failures
    => SortOK
<1> SUFFICES ASSUME unmarked = {}, visiting = <<>>, sorted = <<>>, made = <<>>,
                    stage \in {"load", "sort"} \cup Failures
             PROVE  SortOK
  OBVIOUS
<1>1. /\ DOMAIN sorted = {} /\ DOMAIN visiting = {} /\ DOMAIN made = {}
      /\ Len(visiting) = 0 /\ Len(sorted) = 0 /\ Len(made) = 0
  OBVIOUS
<1>2. ToSet(sorted) = {}
  BY <1>1 DEF ToSet
<1>3. SortTypes
  BY DEF SortTypes
<1>4. SortedOnce /\ InOrder /\ WaitingOK /\ MadeOK
  BY <1>1, <1>2 DEF SortedOnce, InOrder, WaitingOK, MadeOK, Failures
<1> QED  BY <1>3, <1>4 DEF SortOK, Failures

LEMMA SortOKInit == Init => SortOK
BY NothingSorted DEF Init

\* What a step leaves alone.
LEMMA SortStays ==
    ASSUME SortOK, UNCHANGED <<loaded, dvars>>,
           \/ stage' = stage
           \/ stage \in {"load", "sort"} /\ stage' \in {"load", "sort"} \cup Failures
           \/ stage = "done" /\ stage' = "up"
    PROVE  SortOK'
<1>1. /\ \A n : Dependents(n)' = Dependents(n) /\ Requires(n)' = Requires(n)
      /\ ToSet(sorted)' = ToSet(sorted)
  BY DEF Dependents, get_service_dependents, Requires, dvars
<1>2. \A S : InCircle(S)' <=> InCircle(S)
  BY <1>1 DEF InCircle
<1>3. UNCHANGED <<unmarked, visiting, sorted, made>>
  BY DEF dvars
<1>4. SortTypes' /\ InOrder' /\ WaitingOK'
  BY <1>1, <1>3 DEF SortOK, SortTypes, InOrder, WaitingOK, Waits
<1>5. SortedOnce' /\ MadeOK'
  BY <1>1, <1>3 DEF SortOK, SortedOnce, MadeOK, Failures
<1> QED  BY <1>1, <1>2, <1>3, <1>4, <1>5 DEF SortOK, Failures

LEMMA LoadSorts == SortOK /\ Load /\ UNCHANGED dvars => SortOK'
<1> SUFFICES ASSUME SortOK, Load, UNCHANGED dvars PROVE SortOK'
  OBVIOUS
<1>1. stage = "load" /\ stage' \in {"load", "sort"} \cup Failures
  BY Stages
<1>2. unmarked' = {} /\ visiting' = <<>> /\ sorted' = <<>> /\ made' = <<>>
  BY <1>1 DEF SortOK, dvars
<1>3. (/\ unmarked = {} /\ visiting = <<>> /\ sorted = <<>> /\ made = <<>>
       /\ stage \in {"load", "sort"} \cup Failures
       => SortOK)'
  BY NothingSorted, PTL
<1> QED  BY <1>1, <1>2, <1>3 DEF Failures

\* What a service requires and who requires it does not change while services
\* are sorted.
LEMMA SameRequirements ==
    ASSUME UNCHANGED loaded
    PROVE  /\ \A n : Dependents(n)' = Dependents(n) /\ Requires(n)' = Requires(n)
           /\ \A S : InCircle(S)' <=> InCircle(S)
<1>1. \A n : Dependents(n)' = Dependents(n) /\ Requires(n)' = Requires(n)
  BY DEF Dependents, get_service_dependents, Requires
<1> QED  BY <1>1 DEF InCircle

LEMMA CallIs ==
    ASSUME NEW n \in DOMAIN loaded
    PROVE  /\ Call(n) \in [name : DOMAIN loaded, dependents : SUBSET DOMAIN loaded]
           /\ Call(n).name = n /\ Call(n).dependents = Dependents(n)
           /\ \A m : m \in Dependents(n) <=> m \in DOMAIN loaded /\ n \in Requires(m)
BY DEF Call, Dependents, get_service_dependents

LEMMA BeginSortOK == SortOK /\ begin_sort /\ UNCHANGED loaded => SortOK'
<1> SUFFICES ASSUME SortOK, begin_sort, UNCHANGED loaded PROVE SortOK'
  OBVIOUS
<1>1. /\ stage' = "sorting" /\ unmarked' = DOMAIN loaded'
      /\ visiting' = <<>> /\ sorted' = <<>> /\ made' = <<>>
  BY DEF begin_sort, SortOK
<1>2. /\ DOMAIN sorted' = {} /\ DOMAIN visiting' = {} /\ DOMAIN made' = {}
      /\ Len(visiting') = 0 /\ Len(sorted') = 0 /\ Len(made') = 0
  BY <1>1
<1>3. ToSet(sorted') = {}
  BY <1>2 DEF ToSet
<1>4. SortTypes'
  BY <1>1 DEF SortTypes
<1>5. SortedOnce' /\ InOrder' /\ WaitingOK' /\ MadeOK'
  <2>1. SortedOnce' /\ InOrder'
    BY <1>1, <1>2, <1>3 DEF SortedOnce, InOrder
  <2>2. WaitingOK'
    BY <1>2 DEF WaitingOK
  <2>3. MadeOK'
    BY <1>1, <1>2 DEF MadeOK
  <2> QED  BY <2>1, <2>2, <2>3
<1> QED  BY <1>1, <1>4, <1>5 DEF SortOK

LEMMA VisitLastOK == SortOK /\ visit_last /\ UNCHANGED loaded => SortOK'
<1> SUFFICES ASSUME SortOK, visit_last, UNCHANGED loaded PROVE SortOK'
  OBVIOUS
<1>1. /\ UNCHANGED <<unmarked, sorted, made>> /\ ToSet(sorted)' = ToSet(sorted)
      /\ stage = "sorting" /\ visiting = <<>>
  BY DEF visit_last
<1>2. /\ \A n : Dependents(n)' = Dependents(n) /\ Requires(n)' = Requires(n)
      /\ \A S : InCircle(S)' <=> InCircle(S)
  BY SameRequirements
<1>3. (InOrder' /\ MadeOK') \/ stage' \in {"done", "up"}
  BY <1>1, <1>2 DEF SortOK, InOrder, MadeOK
<1>4. CASE unmarked = {} /\ stage' = "making" /\ UNCHANGED visiting
  <2>1. SortTypes' /\ SortedOnce'
    BY <1>1, <1>4 DEF SortOK, SortTypes, SortedOnce
  <2>2. WaitingOK'
    BY <1>1, <1>2, <1>4 DEF SortOK, WaitingOK, Waits
  <2>3. ToSet(sorted') = DOMAIN loaded'
    BY <1>1, <1>4 DEF SortOK, SortedOnce
  <2> QED  BY <1>3, <1>4, <2>1, <2>2, <2>3 DEF SortOK
<1>5. ASSUME NEW n \in unmarked, visiting' = <<Call(n)>>, UNCHANGED stage
      PROVE  SortOK'
  <2>1. n \in DOMAIN loaded
    BY DEF SortOK, SortTypes
  <2>2. PICK c : c = Call(n)
    OBVIOUS
  <2>3. /\ c \in [name : DOMAIN loaded, dependents : SUBSET DOMAIN loaded]
        /\ c.name = n /\ c.dependents = Dependents(n)
    BY <2>1, <2>2, CallIs
  <2>4. visiting' = <<c>>
    BY <1>5, <2>2
  <2>5. SortTypes' /\ SortedOnce'
    BY <1>1, <1>5, <2>3, <2>4 DEF SortOK, SortTypes, SortedOnce
  <2>6. DOMAIN visiting' = {1} /\ Len(visiting') = 1 /\ visiting'[1] = c
    BY <2>4
  <2>7. WaitingOK'
    BY <1>1, <1>2, <2>3, <2>6 DEF WaitingOK, Waits
  <2> QED  BY <1>1, <1>3, <1>5, <2>5, <2>7 DEF SortOK
<1> QED  BY <1>4, <1>5 DEF visit_last

\* The innermost call.
LEMMA Innermost ==
    ASSUME SortOK, visiting # <<>>
    PROVE  /\ Len(visiting) \in Nat \ {0} /\ Last(visiting) = visiting[Len(visiting)]
           /\ DOMAIN visiting = 1 .. Len(visiting)
           /\ \A i \in 1 .. Len(visiting) :
                 /\ visiting[i] \in [name : DOMAIN loaded, dependents : SUBSET DOMAIN loaded]
                 /\ Waits(i) \in unmarked /\ Waits(i) \in DOMAIN loaded
           /\ Marked = {Waits(i) : i \in 1 .. Len(visiting)}
<1>1. visiting \in Seq([name : DOMAIN loaded, dependents : SUBSET DOMAIN loaded])
  BY DEF SortOK, SortTypes
<1>2. /\ Len(visiting) \in Nat \ {0} /\ DOMAIN visiting = 1 .. Len(visiting)
      /\ \A i \in 1 .. Len(visiting) :
            visiting[i] \in [name : DOMAIN loaded, dependents : SUBSET DOMAIN loaded]
  BY <1>1, NotEmpty
<1>3. \A i \in 1 .. Len(visiting) : Waits(i) \in unmarked /\ Waits(i) \in DOMAIN loaded
  BY <1>2 DEF SortOK, SortTypes, WaitingOK
<1> QED  BY <1>2, <1>3 DEF Last, Marked, Waits

\* A dependent that is being visited closes a circle.
LEMMA CircleFound ==
    ASSUME SortOK, visiting # <<>>, NEW m \in Last(visiting).dependents, m \in Marked
    PROVE  \E S \in SUBSET DOMAIN loaded : InCircle(S)
<1> DEFINE n == Len(visiting)
<1>1. PICK k \in 1 .. n : m = Waits(k)
  BY Innermost
<1> DEFINE S == {Waits(i) : i \in k .. n}
<1>2. S \in SUBSET DOMAIN loaded /\ Waits(k) \in S
  BY <1>1, Innermost
<1>3. ASSUME NEW i \in k .. n  PROVE Requires(Waits(i)) \cap S # {}
  <2>1. CASE i = k
    <3>1. m \in Dependents(Waits(n))
      BY Innermost DEF SortOK, WaitingOK
    <3>2. Waits(n) \in Requires(m)
      BY <3>1 DEF Dependents, get_service_dependents
    <3>3. n \in k .. n
      BY <1>1, Innermost
    <3> QED  BY <1>1, <2>1, <3>2, <3>3
  <2>2. CASE i # k
    <3>1. i - 1 \in k .. n /\ i - 1 \in 1 .. n - 1 /\ (i - 1) + 1 = i
      BY <1>1, <2>2, Innermost
    <3>2. Waits(i) \in Dependents(Waits(i - 1))
      BY <3>1 DEF SortOK, WaitingOK
    <3>3. Waits(i - 1) \in Requires(Waits(i))
      BY <3>2 DEF Dependents, get_service_dependents
    <3> QED  BY <3>1, <3>3
  <2> QED  BY <2>1, <2>2
<1>4. InCircle(S)
  BY <1>2, <1>3 DEF InCircle
<1> QED  BY <1>2, <1>4

\* What a dependent that is visited leaves to be visited.
LEMMA Visited ==
    ASSUME SortOK, visiting # <<>>, NEW m \in Last(visiting).dependents
    PROVE  LET rest == [visiting EXCEPT ![Len(visiting)].dependents = @ \ {m}]
           IN /\ rest \in Seq([name : DOMAIN loaded, dependents : SUBSET DOMAIN loaded])
              /\ Len(rest) = Len(visiting)
              /\ \A i \in 1 .. Len(visiting) :
                    /\ rest[i].name = Waits(i)
                    /\ rest[i].dependents =
                         visiting[i].dependents \ (IF i = Len(visiting) THEN {m} ELSE {})
<1> DEFINE R == [name : DOMAIN loaded, dependents : SUBSET DOMAIN loaded]
           n == Len(visiting)
           top == visiting[n]
<1>1. visiting \in Seq(R) /\ n \in Nat \ {0} /\ top \in R
  BY Innermost DEF SortOK, SortTypes
<1>0. PICK d \in SUBSET DOMAIN loaded : d = top.dependents \ {m}
  BY <1>1
<1>2. PICK t \in R : /\ t = [top EXCEPT !.dependents = @ \ {m}]
                     /\ t.name = top.name /\ t.dependents = top.dependents \ {m}
  <2>1. /\ [top EXCEPT !.dependents = d] \in R
        /\ [top EXCEPT !.dependents = d].name = top.name
        /\ [top EXCEPT !.dependents = d].dependents = d
    BY <1>1
  <2> QED  BY <1>0, <2>1
<1>3. [visiting EXCEPT ![n].dependents = @ \ {m}] = [visiting EXCEPT ![n] = t]
  BY <1>2
<1> HIDE DEF R, n
<1>4. [visiting EXCEPT ![n] = t] \in Seq(R) /\ Len([visiting EXCEPT ![n] = t]) = Len(visiting)
      /\ \A i \in 1 .. Len(visiting) :
            [visiting EXCEPT ![n] = t][i] = IF i = n THEN t ELSE visiting[i]
  BY <1>1, <1>2 DEF n
<1> QED  BY <1>2, <1>3, <1>4 DEF R, n, Waits

LEMMA VisitDependentOK == SortOK /\ visit_dependent /\ UNCHANGED loaded => SortOK'
<1> SUFFICES ASSUME SortOK, visit_dependent, UNCHANGED loaded PROVE SortOK'
  OBVIOUS
<1> DEFINE R == [name : DOMAIN loaded, dependents : SUBSET DOMAIN loaded]
<1>1. /\ UNCHANGED <<unmarked, sorted, made>> /\ ToSet(sorted)' = ToSet(sorted)
      /\ stage = "sorting" /\ visiting # <<>>
  BY DEF visit_dependent
<1>2. /\ \A k : Dependents(k)' = Dependents(k) /\ Requires(k)' = Requires(k)
      /\ \A S : InCircle(S)' <=> InCircle(S)
  BY SameRequirements
<1>3. SortedOnce' \/ stage' # stage
  BY <1>1 DEF SortOK, SortedOnce
<1>4. InOrder' /\ (MadeOK' \/ stage' \in {"done", "up"})
  BY <1>1, <1>2 DEF SortOK, InOrder, MadeOK
<1>5. PICK m \in Last(visiting).dependents :
         IF m \in Marked THEN stage' = "dependency_error" /\ UNCHANGED visiting
         ELSE LET rest == [visiting EXCEPT ![Len(visiting)].dependents = @ \ {m}]
              IN /\ visiting' = IF m \in unmarked THEN Append(rest, Call(m)) ELSE rest
                 /\ UNCHANGED stage
  BY DEF visit_dependent
<1>0. PICK n \in Nat \ {0} : n = Len(visiting)
  BY <1>1, Innermost
<1>6. /\ Last(visiting) = visiting[n] /\ m \in Dependents(Waits(n))
      /\ m \in DOMAIN loaded
  BY <1>0, <1>1, <1>5, Innermost DEF SortOK, WaitingOK, Dependents, get_service_dependents
<1>9. /\ \A i \in 1 .. n :
            /\ Waits(i) \in unmarked /\ visiting[i].dependents \subseteq Dependents(Waits(i))
            /\ \A k \in Dependents(Waits(i)) \ visiting[i].dependents :
                  k \in ToSet(sorted) \/ (i < n /\ k = Waits(i + 1))
      /\ \A i, j \in 1 .. n : Waits(i) = Waits(j) => i = j
      /\ \A i \in 1 .. n - 1 : Waits(i + 1) \in Dependents(Waits(i))
  BY <1>0, <1>1, Innermost DEF SortOK, WaitingOK
<1>7. CASE m \in Marked
  <2>1. stage' = "dependency_error" /\ UNCHANGED visiting
    BY <1>5, <1>7
  <2>2. \E S \in SUBSET DOMAIN loaded : InCircle(S)
    BY <1>1, <1>7, CircleFound
  <2>3. \E S \in SUBSET DOMAIN loaded' : InCircle(S)'
    BY <1>2, <2>2
  <2>4. WaitingOK'
    BY <1>1, <1>2, <2>1 DEF SortOK, WaitingOK, Waits
  <2>5. SortedOnce' /\ SortTypes'
    BY <1>1, <2>1 DEF SortOK, SortedOnce, SortTypes
  <2> QED  BY <1>4, <2>1, <2>3, <2>4, <2>5 DEF SortOK
<1>8. CASE m \notin Marked
  <2> DEFINE rest == [visiting EXCEPT ![Len(visiting)].dependents = @ \ {m}]
  <2>1. /\ rest \in Seq(R) /\ Len(rest) = n
        /\ \A i \in 1 .. n : /\ rest[i].name = Waits(i)
                             /\ rest[i].dependents =
                                  visiting[i].dependents \ (IF i = n THEN {m} ELSE {})
    <3>1. /\ rest \in Seq(R) /\ Len(rest) = Len(visiting)
          /\ \A i \in 1 .. Len(visiting) :
                /\ rest[i].name = Waits(i)
                /\ rest[i].dependents =
                     visiting[i].dependents \ (IF i = Len(visiting) THEN {m} ELSE {})
      BY <1>1, Visited
    <3> HIDE DEF rest
    <3> QED  BY <1>0, <3>1
  <2>2. visiting' = (IF m \in unmarked THEN Append(rest, Call(m)) ELSE rest) /\ stage' = stage
    BY <1>5, <1>8
  <2> HIDE DEF rest
  <2>3. CASE m \in unmarked
    <3>1. PICK c \in R : c = Call(m) /\ c.name = m /\ c.dependents = Dependents(m)
      BY <1>6, CallIs
    <3>2. /\ visiting' \in Seq(R) /\ Len(visiting') = n + 1 /\ DOMAIN visiting' = 1 .. n + 1
          /\ visiting'[n + 1] = c /\ \A i \in 1 .. n : visiting'[i] = rest[i]
      <4> HIDE DEF R
      <4>1. visiting' = Append(rest, c)
        BY <2>2, <2>3, <3>1
      <4> QED  BY <2>1, <3>1, <4>1
    <3>3. \A i \in 1 .. n : m # Waits(i)
      BY <1>0, <1>1, <1>8, Innermost
    <3>4. WaitingOK'
      <4>1. /\ \A i \in 1 .. n : Waits(i)' = Waits(i)
            /\ Waits(n + 1)' = m
        <5> HIDE DEF R
        <5>1. \A i \in 1 .. n : visiting'[i].name = Waits(i)
          BY <2>1, <3>2
        <5> QED  BY <3>1, <3>2, <5>1 DEF Waits
      <4>2. ASSUME NEW i \in 1 .. n + 1
            PROVE  /\ Waits(i)' \in unmarked'
                   /\ visiting'[i].dependents \subseteq Dependents(Waits(i))'
                   /\ \A k \in Dependents(Waits(i))' \ visiting'[i].dependents :
                         k \in ToSet(sorted)' \/ (i < n + 1 /\ k = Waits(i + 1)')
        <5>1. CASE i = n + 1
          BY <1>1, <1>2, <2>3, <3>1, <3>2, <4>1, <5>1
        <5>2. CASE i = n
          <6>1. visiting'[n].dependents = visiting[n].dependents \ {m}
            BY <1>6, <2>1, <3>2
          <6>2. Waits(n)' = Waits(n) /\ Waits(n + 1)' = m
            BY <4>1
          <6> QED  BY <1>1, <1>2, <1>6, <1>9, <5>2, <6>1, <6>2
        <5>3. CASE i < n
          <6>1. i \in 1 .. n /\ i + 1 \in 1 .. n
            BY <1>6, <5>3
          <6>2. visiting'[i].dependents = visiting[i].dependents
            <7>1. i # n /\ rest[i].dependents =
                            visiting[i].dependents \ (IF i = n THEN {m} ELSE {})
              BY <2>1, <5>3, <6>1
            <7> QED  BY <3>2, <6>1, <7>1
          <6>3. Waits(i)' = Waits(i) /\ Waits(i + 1)' = Waits(i + 1)
            BY <4>1, <6>1
          <6> QED  BY <1>1, <1>2, <1>6, <1>9, <5>3, <6>1, <6>2, <6>3
        <5> QED  BY <1>6, <5>1, <5>2, <5>3
      <4>3. \A i, j \in 1 .. n + 1 : Waits(i)' = Waits(j)' => i = j
        <5> SUFFICES ASSUME NEW i \in 1 .. n + 1, NEW j \in 1 .. n + 1, Waits(i)' = Waits(j)'
                     PROVE  i = j
          OBVIOUS
        <5>1. CASE i \in 1 .. n /\ j \in 1 .. n
          BY <1>9, <4>1, <5>1
        <5>2. CASE i = n + 1 \/ j = n + 1
          BY <1>6, <3>3, <4>1, <5>2
        <5> QED  BY <1>6, <5>1, <5>2
      <4>4. \A i \in 1 .. n : Waits(i + 1)' \in Dependents(Waits(i))'
        <5> SUFFICES ASSUME NEW i \in 1 .. n
                     PROVE  Waits(i + 1)' \in Dependents(Waits(i))'
          OBVIOUS
        <5>1. CASE i = n
          BY <1>2, <1>6, <4>1, <5>1
        <5>2. CASE i \in 1 .. n - 1
          <6>1. i + 1 \in 1 .. n /\ Waits(i + 1) \in Dependents(Waits(i))
            BY <1>9, <5>2
          <6>2. Waits(i + 1)' = Waits(i + 1) /\ Waits(i)' = Waits(i)
            BY <4>1, <6>1
          <6> QED  BY <1>2, <6>1, <6>2
        <5> QED  BY <1>6, <5>1, <5>2
      <4> QED  BY <1>6, <3>2, <4>2, <4>3, <4>4 DEF WaitingOK
    <3> QED  BY <1>1, <1>3, <1>4, <2>2, <3>2, <3>4 DEF SortOK, SortTypes
  <2>4. CASE m \notin unmarked
    <3>1. visiting' = rest
      BY <2>2, <2>4
    <3>2. m \in ToSet(sorted)
      BY <1>1, <1>6, <2>4 DEF SortOK, SortedOnce
    <3>3. WaitingOK'
      <4>1. /\ \A i \in 1 .. n : Waits(i)' = Waits(i)
            /\ Len(visiting') = n /\ DOMAIN visiting' = 1 .. n
        <5> HIDE DEF R
        <5> QED  BY <1>6, <2>1, <3>1 DEF Waits
      <4>2. ASSUME NEW i \in 1 .. n
            PROVE  /\ Waits(i)' \in unmarked'
                   /\ visiting'[i].dependents \subseteq Dependents(Waits(i))'
                   /\ \A k \in Dependents(Waits(i))' \ visiting'[i].dependents :
                         k \in ToSet(sorted)' \/ (i < n /\ k = Waits(i + 1)')
        <5>1. visiting'[i].dependents = visiting[i].dependents \ (IF i = n THEN {m} ELSE {})
          BY <2>1, <3>1
        <5>2. Waits(i)' = Waits(i) /\ (i < n => Waits(i + 1)' = Waits(i + 1))
          BY <4>1
        <5> QED  BY <1>1, <1>2, <1>9, <3>2, <5>1, <5>2
      <4>3. \A i, j \in 1 .. n : Waits(i)' = Waits(j)' => i = j
        BY <1>9, <4>1
      <4>4. \A i \in 1 .. n - 1 : Waits(i + 1)' \in Dependents(Waits(i))'
        <5> SUFFICES ASSUME NEW i \in 1 .. n - 1
                     PROVE  Waits(i + 1)' \in Dependents(Waits(i))'
          OBVIOUS
        <5>1. i \in 1 .. n /\ i + 1 \in 1 .. n /\ Waits(i + 1) \in Dependents(Waits(i))
          BY <1>9
        <5>2. Waits(i + 1)' = Waits(i + 1) /\ Waits(i)' = Waits(i)
          BY <4>1, <5>1
        <5> QED  BY <1>2, <5>1, <5>2
      <4> QED  BY <4>1, <4>2, <4>3, <4>4 DEF WaitingOK
    <3> QED  BY <1>1, <1>3, <1>4, <2>1, <2>2, <3>1, <3>3 DEF SortOK, SortTypes
  <2> QED  BY <2>3, <2>4
<1> QED  BY <1>7, <1>8

\* A sequence with one more at its head.
LEMMA Prepended ==
    ASSUME NEW S, NEW s \in Seq(S), NEW x \in S
    PROVE  LET t == <<x>> \o s
           IN /\ t \in Seq(S) /\ Len(s) \in Nat /\ Len(t) = Len(s) + 1 /\ t[1] = x
              /\ DOMAIN t = 1 .. Len(s) + 1 /\ DOMAIN s = 1 .. Len(s)
              /\ \A i \in 1 .. Len(s) : t[i + 1] = s[i]
              /\ \A i \in 2 .. Len(s) + 1 : i - 1 \in 1 .. Len(s) /\ t[i] = s[i - 1]
              /\ ToSet(t) = ToSet(s) \cup {x}
<1> DEFINE t == <<x>> \o s
<1>1. <<x>> \in Seq(S) /\ Len(<<x>>) = 1 /\ <<x>>[1] = x
  OBVIOUS
<1>2. /\ t \in Seq(S) /\ Len(s) \in Nat /\ Len(t) = Len(s) + 1
      /\ \A i \in 1 .. Len(s) + 1 : t[i] = IF i <= 1 THEN x ELSE s[i - 1]
  BY <1>1
<1> HIDE DEF t
<1>3. /\ DOMAIN t = 1 .. Len(s) + 1 /\ DOMAIN s = 1 .. Len(s) /\ t[1] = x
      /\ \A i \in 1 .. Len(s) : t[i + 1] = s[i]
      /\ \A i \in 2 .. Len(s) + 1 : i - 1 \in 1 .. Len(s) /\ t[i] = s[i - 1]
  <2>1. DOMAIN t = 1 .. Len(s) + 1 /\ DOMAIN s = 1 .. Len(s) /\ t[1] = x
    BY <1>2
  <2>2. ASSUME NEW i \in 1 .. Len(s) PROVE t[i + 1] = s[i]
    <3>1. i + 1 \in 1 .. Len(s) + 1 /\ ~(i + 1 <= 1) /\ (i + 1) - 1 = i
      BY <1>2
    <3> QED  BY <1>2, <3>1
  <2>3. ASSUME NEW i \in 2 .. Len(s) + 1 PROVE i - 1 \in 1 .. Len(s) /\ t[i] = s[i - 1]
    <3>1. i \in 1 .. Len(s) + 1 /\ ~(i <= 1) /\ i - 1 \in 1 .. Len(s)
      BY <1>2
    <3> QED  BY <1>2, <3>1
  <2> QED  BY <2>1, <2>2, <2>3
<1>4. ToSet(t) = ToSet(s) \cup {x}
  <2>1. ASSUME NEW y \in ToSet(t) PROVE y \in ToSet(s) \cup {x}
    <3>1. PICK i \in 1 .. Len(s) + 1 : y = t[i]
      BY <1>3, <2>1 DEF ToSet
    <3>2. i = 1 \/ i \in 2 .. Len(s) + 1
      BY <1>2
    <3> QED  BY <1>3, <3>1, <3>2 DEF ToSet
  <2>2. ASSUME NEW y \in ToSet(s) PROVE y \in ToSet(t)
    <3>1. PICK i \in 1 .. Len(s) : y = s[i]
      BY <1>3, <2>2 DEF ToSet
    <3>2. i + 1 \in 1 .. Len(s) + 1
      BY <1>2
    <3> QED  BY <1>3, <3>1, <3>2 DEF ToSet
  <2>3. x \in ToSet(t)
    <3>1. 1 \in 1 .. Len(s) + 1
      BY <1>2
    <3> QED  BY <1>3, <3>1 DEF ToSet
  <2> QED  BY <2>1, <2>2, <2>3
<1> QED  BY <1>2, <1>3, <1>4 DEF t

LEMMA VisitedOK == SortOK /\ visited /\ UNCHANGED loaded => SortOK'
<1> SUFFICES ASSUME SortOK, visited, UNCHANGED loaded PROVE SortOK'
  OBVIOUS
<1> DEFINE R == [name : DOMAIN loaded, dependents : SUBSET DOMAIN loaded]
<1>1. /\ stage = "sorting" /\ visiting # <<>> /\ UNCHANGED <<stage, made>>
      /\ visiting' = Front(visiting) /\ sorted' = <<Last(visiting).name>> \o sorted
      /\ unmarked' = unmarked \ {Last(visiting).name} /\ Last(visiting).dependents = {}
  BY DEF visited
<1>2. /\ \A k : Dependents(k)' = Dependents(k) /\ Requires(k)' = Requires(k)
      /\ \A S : InCircle(S)' <=> InCircle(S)
  BY SameRequirements
<1>3. PICK n \in Nat \ {0}, top \in DOMAIN loaded :
         n = Len(visiting) /\ top = Waits(n) /\ Last(visiting) = visiting[n]
  BY <1>1, Innermost, SMTT(30)
<1>4. /\ \A i \in 1 .. n :
            /\ Waits(i) \in unmarked /\ visiting[i].dependents \subseteq Dependents(Waits(i))
            /\ \A k \in Dependents(Waits(i)) \ visiting[i].dependents :
                  k \in ToSet(sorted) \/ (i < n /\ k = Waits(i + 1))
      /\ \A i, j \in 1 .. n : Waits(i) = Waits(j) => i = j
      /\ \A i \in 1 .. n - 1 : Waits(i + 1) \in Dependents(Waits(i))
  BY <1>1, <1>3, Innermost DEF SortOK, WaitingOK
<1>5. /\ top \in unmarked /\ top \notin ToSet(sorted) /\ Dependents(top) \subseteq ToSet(sorted)
      /\ unmarked' = unmarked \ {top} /\ sorted' = <<top>> \o sorted
  BY <1>1, <1>3, <1>4 DEF SortOK, SortedOnce, Waits
<1>6. /\ visiting' \in Seq(R) /\ Len(visiting') = n - 1 /\ DOMAIN visiting' = 1 .. n - 1
      /\ \A i \in 1 .. n - 1 : visiting'[i] = visiting[i]
  <2>1. visiting \in Seq(R)
    BY DEF SortOK, SortTypes
  <2>2. visiting' = SubSeq(visiting, 1, Len(visiting) - 1)
    BY <1>1 DEF Front
  <2> HIDE DEF R
  <2>3. /\ visiting' \in Seq(R) /\ Len(visiting') = n - 1
        /\ \A i \in 1 .. n - 1 : visiting'[i] = visiting[i]
    BY <1>1, <1>3, <2>1, <2>2, AllButLast
  <2> QED  BY <1>3, <2>3
<1>7. /\ sorted' \in Seq(DOMAIN loaded) /\ Len(sorted) \in Nat
      /\ Len(sorted') = Len(sorted) + 1 /\ sorted'[1] = top
      /\ DOMAIN sorted' = 1 .. Len(sorted) + 1 /\ DOMAIN sorted = 1 .. Len(sorted)
      /\ \A i \in 2 .. Len(sorted) + 1 : i - 1 \in 1 .. Len(sorted) /\ sorted'[i] = sorted[i - 1]
      /\ ToSet(sorted') = ToSet(sorted) \cup {top}
  BY <1>5, Prepended DEF SortOK, SortTypes
<1>8. \A i \in 1 .. Len(sorted) : sorted[i] \in ToSet(sorted)
  BY <1>7 DEF ToSet
<1>9. PICK l \in Nat : l = Len(sorted)
  BY <1>7
<1>10. SortedOnce'
  <2>0. unmarked \cap ToSet(sorted) = {} /\ unmarked \cup ToSet(sorted) = DOMAIN loaded
        /\ loaded' = loaded
    BY <1>1 DEF SortOK, SortedOnce
  <2>1. unmarked' \cap ToSet(sorted') = {} /\ unmarked' \cup ToSet(sorted') = DOMAIN loaded'
    <3>1. PICK U, T : U = unmarked /\ T = ToSet(sorted)
      OBVIOUS
    <3>2. U \cap T = {} /\ U \cup T = DOMAIN loaded /\ top \in U
      BY <1>5, <2>0, <3>1
    <3>3. (U \ {top}) \cap (T \cup {top}) = {} /\ (U \ {top}) \cup (T \cup {top}) = U \cup T
      BY <3>2
    <3>4. unmarked' = U \ {top} /\ ToSet(sorted') = T \cup {top}
      BY <1>5, <1>7, <3>1
    <3> QED  BY <2>0, <3>2, <3>3, <3>4
  <2>2. ASSUME NEW i \in 1 .. l + 1, NEW j \in 1 .. l + 1, sorted'[i] = sorted'[j]
        PROVE  i = j
    <3>1. CASE i \in 2 .. l + 1 /\ j \in 2 .. l + 1
      BY <1>7, <1>9, <2>2, <3>1 DEF SortOK, SortedOnce
    <3>2. CASE i = 1 /\ j \in 2 .. l + 1
      BY <1>5, <1>7, <1>8, <1>9, <2>2, <3>2
    <3>3. CASE j = 1 /\ i \in 2 .. l + 1
      BY <1>5, <1>7, <1>8, <1>9, <2>2, <3>3
    <3> QED  BY <1>9, <3>1, <3>2, <3>3
  <2> QED  BY <1>7, <1>9, <2>1, <2>2 DEF SortedOnce
<1>11. InOrder'
  <2>1. \A k \in ToSet(sorted) : Dependents(k) \subseteq ToSet(sorted)
    BY DEF SortOK, InOrder
  <2>2. \A k \in ToSet(sorted') : Dependents(k)' \subseteq ToSet(sorted')
    BY <1>2, <1>5, <1>7, <2>1
  <2>3. ASSUME NEW i \in 1 .. l + 1, NEW j \in 1 .. l + 1, sorted'[j] \in Requires(sorted'[i])
        PROVE  j < i
    <3>1. CASE i \in 2 .. l + 1 /\ j \in 2 .. l + 1
      <4>1. i - 1 \in DOMAIN sorted /\ j - 1 \in DOMAIN sorted
            /\ sorted[j - 1] \in Requires(sorted[i - 1])
        BY <1>7, <1>9, <2>3, <3>1
      <4>2. j - 1 < i - 1
        BY <4>1 DEF SortOK, InOrder
      <4> QED  BY <1>9, <3>1, <4>2
    <3>2. CASE i = 1
      <4>1. sorted'[j] \in ToSet(sorted) \cup {top} /\ sorted'[i] = top
        <5>1. CASE j = 1
          BY <1>7, <3>2, <5>1
        <5>2. CASE j \in 2 .. l + 1
          BY <1>7, <1>8, <1>9, <3>2, <5>2
        <5> QED  BY <1>9, <5>1, <5>2
      <4>2. top \in Dependents(sorted'[j])
        BY <1>3, <2>3, <4>1 DEF Dependents, get_service_dependents
      <4>3. top \in ToSet(sorted)
        BY <1>5, <2>1, <4>1, <4>2
      <4> QED  BY <1>5, <4>3
    <3>3. CASE j = 1 /\ i \in 2 .. l + 1
      BY <1>9, <3>3
    <3> QED  BY <1>9, <3>1, <3>2, <3>3
  <2> QED  BY <1>2, <1>7, <1>9, <2>2, <2>3 DEF InOrder
<1>12. WaitingOK'
  <2>1. \A i \in 1 .. n - 1 : Waits(i)' = Waits(i)
    BY <1>6 DEF Waits
  <2>2. ASSUME NEW i \in 1 .. n - 1
        PROVE  /\ Waits(i)' \in unmarked'
               /\ visiting'[i].dependents \subseteq Dependents(Waits(i))'
               /\ \A k \in Dependents(Waits(i))' \ visiting'[i].dependents :
                     k \in ToSet(sorted)' \/ (i < n - 1 /\ k = Waits(i + 1)')
    <3>0. i \in 1 .. n /\ i # n /\ n \in 1 .. n
      BY <1>3
    <3>1. Waits(i)' = Waits(i) /\ visiting'[i] = visiting[i] /\ Waits(i) \in unmarked
          /\ Waits(i) # top
      BY <1>3, <1>4, <1>6, <2>1, <3>0
    <3>2. ASSUME NEW k \in Dependents(Waits(i)) \ visiting[i].dependents
          PROVE  k \in ToSet(sorted') \/ (i < n - 1 /\ k = Waits(i + 1)')
      <4>1. CASE i = n - 1
        BY <1>3, <1>4, <1>7, <3>0, <4>1
      <4>2. CASE i < n - 1
        <5>1. i + 1 \in 1 .. n - 1
          BY <1>3, <4>2
        <5> QED  BY <1>3, <1>4, <1>7, <2>1, <3>0, <4>2, <5>1
      <4> QED  BY <1>3, <4>1, <4>2
    <3> QED  BY <1>2, <1>4, <1>5, <3>0, <3>1, <3>2
  <2>3. \A i, j \in 1 .. n - 1 : Waits(i)' = Waits(j)' => i = j
    BY <1>4, <2>1
  <2>4. ASSUME NEW i \in 1 .. (n - 1) - 1 PROVE Waits(i + 1)' \in Dependents(Waits(i))'
    <3>1. i \in 1 .. n - 1 /\ i + 1 \in 1 .. n - 1 /\ Waits(i + 1) \in Dependents(Waits(i))
      BY <1>3, <1>4
    <3>2. Waits(i + 1)' = Waits(i + 1) /\ Waits(i)' = Waits(i)
      BY <2>1, <3>1
    <3> QED  BY <1>2, <3>1, <3>2
  <2> QED  BY <1>6, <2>2, <2>3, <2>4 DEF WaitingOK
<1>13. MadeOK'
  <2>1. made = <<>> /\ made' = <<>>
    BY <1>1 DEF SortOK
  <2> QED  BY <1>1, <1>7, <2>1 DEF MadeOK
<1>14. SortTypes'
  BY <1>1, <1>6, <1>7 DEF SortOK, SortTypes
<1> QED  BY <1>1, <1>10, <1>11, <1>12, <1>13, <1>14 DEF SortOK
LEMMA MakeServiceOK == SortOK /\ make_service /\ UNCHANGED loaded => SortOK'
<1> SUFFICES ASSUME SortOK, make_service, UNCHANGED loaded PROVE SortOK'
  OBVIOUS
<1>1. stage = "making" /\ UNCHANGED <<unmarked, visiting, sorted>>
  BY DEF make_service
<1>2. /\ \A k : Dependents(k)' = Dependents(k) /\ Requires(k)' = Requires(k)
      /\ \A S : InCircle(S)' <=> InCircle(S)
  BY SameRequirements
<1>3. ToSet(sorted)' = ToSet(sorted)
  BY <1>1
<1>4. SortedOnce' /\ InOrder' /\ WaitingOK'
  <2>1. stage' # "sorting"
    BY <1>1 DEF make_service
  <2>2. SortedOnce'
    BY <1>1, <1>3, <2>1 DEF SortOK, SortedOnce
  <2>3. InOrder'
    BY <1>1, <1>2, <1>3 DEF SortOK, InOrder
  <2>4. WaitingOK'
    BY <1>1, <1>2, <1>3 DEF SortOK, WaitingOK, Waits
  <2> QED  BY <2>2, <2>3, <2>4
<1>5. ASSUME UNCHANGED made, stage' = "crashed" \/ (stage' = "done" /\ Len(made) = Len(sorted))
      PROVE  SortOK'
  BY <1>1, <1>2, <1>3, <1>4, <1>5 DEF SortOK, SortTypes, MadeOK
<1>6. ASSUME Len(made) # Len(sorted), made' = Append(made, sorted[Len(made) + 1]),
             stage' = stage
      PROVE  SortOK'
  <2>1. /\ made \in Seq(DOMAIN loaded) /\ sorted \in Seq(DOMAIN loaded)
        /\ Len(made) <= Len(sorted) /\ \A i \in DOMAIN made : made[i] = sorted[i]
    BY DEF SortOK, SortTypes, MadeOK
  <2>2. Len(made) \in Nat /\ Len(sorted) \in Nat /\ Len(made) + 1 \in 1 .. Len(sorted)
    BY <1>6, <2>1
  <2>3. /\ made' \in Seq(DOMAIN loaded) /\ Len(made') = Len(made) + 1
        /\ \A i \in DOMAIN made' : made'[i] = sorted[i]
    BY <1>6, <2>1, <2>2
  <2>4. MadeOK'
    BY <1>1, <1>6, <2>2, <2>3 DEF MadeOK
  <2>5. SortTypes'
    BY <1>1, <2>3 DEF SortOK, SortTypes
  <2> QED  BY <1>1, <1>2, <1>3, <1>4, <1>6, <2>4, <2>5 DEF SortOK
<1> QED  BY <1>5, <1>6 DEF make_service

LEMMA SortOKNext == SortOK /\ [Next]_pvars => SortOK'
<1> SUFFICES ASSUME SortOK, [Next]_pvars PROVE SortOK'
  OBVIOUS
<1>1. CASE Load /\ UNCHANGED dvars
  BY <1>1, LoadSorts
<1>2. CASE Sort
  BY <1>2, BeginSortOK, VisitLastOK, VisitDependentOK, VisitedOK, MakeServiceOK DEF Sort
<1>3. CASE up
  BY <1>3, SortStays, Stages
<1>4. CASE UNCHANGED <<lvars, dvars>>
  BY <1>4, SortStays DEF lvars
<1> QED  BY <1>1, <1>2, <1>3, <1>4 DEF Next, Terminated, pvars

\* A sequence without repetition is as long as its set is large.
LEMMA LengthIs ==
    ASSUME NEW S, NEW s \in Seq(S), \A i, j \in DOMAIN s : s[i] = s[j] => i = j
    PROVE  IsFiniteSet(ToSet(s)) /\ Cardinality(ToSet(s)) = Len(s)
<1>1. Len(s) \in Nat /\ DOMAIN s = 1 .. Len(s)
  OBVIOUS
<1>2. s \in Bijection(1 .. Len(s), ToSet(s))
  <2>1. s \in [1 .. Len(s) -> ToSet(s)]
    BY <1>1 DEF ToSet
  <2> QED  BY <1>1, <2>1 DEF Bijection, Injection, IsInjective, Surjection, ToSet
<1>3. ExistsBijection(1 .. Len(s), ToSet(s))
  BY <1>2 DEF ExistsBijection
<1>4. IsFiniteSet(1 .. Len(s)) /\ Cardinality(1 .. Len(s)) = Len(s)
  BY <1>1, FS_Interval
<1> QED  BY <1>3, <1>4, FS_Bijection

\* Services are made after all they require, each once; that the sort gives up
\* is always the fault of services that require each other in a circle.
THEOREM DependenciesFirst == Spec => []SortedByDependency
<1>1. SortOK => SortedByDependency
  <2> SUFFICES ASSUME SortOK PROVE SortedByDependency
    OBVIOUS
  <2>1. ASSUME stage = "making" PROVE Len(sorted) = Cardinality(DOMAIN loaded)
    BY <2>1, LengthIs DEF SortOK, SortTypes, SortedOnce
  <2> QED  BY <2>1 DEF SortOK, InOrder, SortedByDependency
<1> QED  BY <1>1, SortOKInit, SortOKNext, PTL DEF Spec
(***************************************************************************)
(* The type invariant                                                      *)
(***************************************************************************)
StageOK ==
    stage \in {"load", "refused", "circular", "crashed", "sort", "sorting",
               "dependency_error", "making", "done", "up"}

LEMMA StageOKNext == StageOK /\ [Next]_pvars => StageOK'
<1> SUFFICES ASSUME StageOK, [Next]_pvars PROVE StageOK'
  OBVIOUS
<1>1. CASE Load \/ Sort \/ up
  BY <1>1, Stages DEF StageOK, Sorting, Failures
<1>2. CASE UNCHANGED stage
  BY <1>2 DEF StageOK
<1> QED  BY <1>1, <1>2 DEF Next, Terminated, pvars, lvars

\* A service that is alone in its file: what is made first is that service, and
\* its volumes are bound to the directory of Main.
LEMMA AloneInMain ==
    ASSUME LoadOK, SortOK, stage = "done", Alone
    PROVE  /\ made # <<>> /\ Head(made) \in DOMAIN loaded
           /\ loaded[Head(made)].volumes.by # None =>
                 loaded[Head(made)].volumes.against \in Hosts
<1>1. ConfOK /\ MainNames = DOMAIN loaded /\ \A n \in DOMAIN loaded : DictIn(loaded[n], FilesOf)
  BY DEF LoadOK, Failures
<1>2. PICK name \in Names : <<Main, name>> \in DOMAIN conf
  BY <1>1, ConfType
<1>3. IsFiniteSet(DOMAIN conf) /\ Cardinality(DOMAIN conf) = 1
  BY <1>1, ConfType DEF Alone
<1>4. DOMAIN conf = {<<Main, name>>}
  BY <1>2, <1>3, FS_Singleton
<1>5. FilesOf = {Main}
  BY <1>4 DEF FilesOf
<1>6. name \in ToSet(sorted) /\ Len(made) = Len(sorted)
  <2>1. name \in DOMAIN loaded
    BY <1>1, <1>2 DEF MainNames
  <2> QED  BY <2>1 DEF SortOK, MadeOK
<1>7. made \in Seq(DOMAIN loaded) /\ sorted \in Seq(DOMAIN loaded)
  BY DEF SortOK, SortTypes
<1>8. Len(sorted) # 0
  BY <1>6, <1>7 DEF ToSet
<1>9. made # <<>> /\ Head(made) \in DOMAIN loaded
  BY <1>6, <1>7, <1>8
<1> QED  BY <1>1, <1>5, <1>9, HostsAssumption DEF DictIn, Resolved

LEMMA OptionsInit == Init => options \in Options
<1> SUFFICES ASSUME Init PROVE options \in Options
  OBVIOUS
<1>1. options = [volumes |-> [p \in Paths |-> Absent], labels |-> {}]
  BY DEF Init
<1>2. [p \in Paths |-> Absent] \in [Paths -> VolumeOptions]
  BY DEF VolumeOptions
<1> QED  BY <1>1, <1>2 DEF Options

LEMMA OptionsNext ==
    LoadOK /\ SortOK /\ options \in Options /\ [Next]_pvars => (options \in Options)'
<1> SUFFICES ASSUME LoadOK, SortOK, options \in Options, [Next]_pvars
             PROVE  options' \in Options
  OBVIOUS
<1>1. CASE up
  <2> DEFINE path == CHOOSE q \in Paths : TRUE
             v == loaded[Head(made)].volumes
             bound(p) == IF p = path /\ v.by # None THEN HostVolume(v.against) ELSE Absent
  <2>1. stage = "done" /\ Alone
        /\ options' = [options EXCEPT !.volumes = [p \in Paths |-> bound(p)]]
    BY <1>1 DEF up
  <2>2. v.by # None => v.against \in Hosts
    BY <2>1, AloneInMain
  <2>3. \A p \in Paths : bound(p) \in VolumeOptions
    BY <2>2 DEF VolumeOptions
  <2> HIDE DEF bound
  <2>4. [p \in Paths |-> bound(p)] \in [Paths -> VolumeOptions]
    BY <2>3
  <2>5. PICK V \in [Paths -> VolumeOptions] : options' = [options EXCEPT !.volumes = V]
    BY <2>1, <2>4
  <2> QED  BY <2>5 DEF Options
<1>2. CASE UNCHANGED options
  BY <1>2
<1>3. CASE ContainerStep
  <2>1. CASE edit
    BY <2>1 DEF edit
  <2>2. CASE create_container \/ recreate_container \/ create_one_off
    BY <2>2 DEF create_container, recreate_container, create_one_off, Create
  <2> QED  BY <1>3, <2>1, <2>2 DEF ContainerStep
<1> QED  BY <1>1, <1>2, <1>3 DEF Next, Terminated, pvars, ccvars

\* The type invariant of the system: what is loaded, sorted and created has its
\* type, and the volumes a service goes up with are bound to a directory there is.
THEOREM TypeCorrect == Spec => []TypeOK
<1>1. LoadOK /\ SortOK /\ StageOK /\ options \in Options => TypeOK
  <2> SUFFICES ASSUME LoadOK, SortOK, StageOK, options \in Options PROVE TypeOK
    OBVIOUS
  <2>1. DOMAIN conf \subseteq Nodes
    BY ConfType DEF LoadOK
  <2>2. calls \in Seq(Nodes)
    <3>1. CASE calls = <<>>
      BY <3>1
    <3>2. CASE Calls(calls)
      <4>1. calls \in Seq(DOMAIN conf)
        BY <3>2 DEF Calls
      <4> QED  BY <2>1, <4>1
    <3> QED  BY <3>1, <3>2 DEF LoadOK
  <2>3. (dict = None \/ dict \in Dict) /\ \A n \in DOMAIN loaded : loaded[n] \in Dict
    BY DEF LoadOK, DictIn
  <2>4. ToSet(made) \subseteq ToSet(sorted)
    <3>1. /\ made \in Seq(DOMAIN loaded) /\ sorted \in Seq(DOMAIN loaded)
          /\ Len(made) <= Len(sorted) /\ \A i \in DOMAIN made : made[i] = sorted[i]
      BY DEF SortOK, SortTypes, MadeOK
    <3>2. \A i \in DOMAIN made : i \in DOMAIN sorted
      BY <3>1
    <3> QED  BY <3>1, <3>2 DEF ToSet
  <2> QED  BY <2>1, <2>2, <2>3, <2>4 DEF TypeOK, StageOK, SortOK, SortedOnce
<1>2. Init => LoadOK /\ SortOK /\ StageOK /\ options \in Options
  BY LoadOKInit, SortOKInit, OptionsInit DEF Init, StageOK
<1> QED  BY <1>1, <1>2, LoadOKNext, SortOKNext, StageOKNext, OptionsNext, PTL DEF Spec
(***************************************************************************)
(* Circular chains of extends                                              *)
(***************************************************************************)
\* Python lets as many calls wait as there are definitions.
EnoughStack == \A c \in Configurations : Cardinality(DOMAIN c) <= RecursionLimit

\* Each call that waits is of what the one before extends and none comes back
\* to the first; a dictionary is of a service whose chain ends.
ChainOK ==
    /\ calls # <<>> =>
          /\ Len(calls) <= RecursionLimit
          /\ \A i \in 1 .. Len(calls) - 1 : calls[i + 1] = Extends(calls, i)
          /\ \A i \in 2 .. Len(calls) : calls[i] # calls[1]
          /\ dict # None => ~IsCyclic(calls[1][2])
    /\ \A name \in DOMAIN loaded : ~IsCyclic(name)
    /\ stage \notin Failures \cup {"load"} => calls = <<>>

\* Python has given up on a circular chain.
CrashOK == stage = "crashed" /\ calls # <<>> => IsCyclic(calls[1][2])

LEMMA ChainOKInit == Init => ChainOK /\ CrashOK
BY DEF Init, ChainOK, CrashOK, Failures

LEMMA SameChains ==
    ASSUME UNCHANGED conf
    PROVE  \A name : /\ FirstExtends(name)' = FirstExtends(name)
                     /\ IsCyclic(name)' <=> IsCyclic(name)
<1>1. \A name : FirstExtends(name)' = FirstExtends(name)
  BY DEF FirstExtends
<1> QED  BY <1>1 DEF IsCyclic

\* A set of numbers that is not empty has a least one.
LEMMA LeastNat ==
    ASSUME NEW S \in SUBSET Nat, S # {}
    PROVE  \E x \in S : \A y \in S : x <= y
<1>1. PICK x \in S : \A y \in S : ~ (<<y, x>> \in OpToRel(<, Nat))
  BY NatLessThanWellFounded, WFMin
<1>2. \A y \in S : ~ (y < x)
  BY <1>1 DEF OpToRel
<1> QED  BY <1>2

\* Of a set of numbers that holds 2 and goes on to L there is none missing.
LEMMA FromSecond ==
    ASSUME NEW L \in Nat, NEW S \in SUBSET Nat, 2 \in S,
           \A i \in S : i < L => i + 1 \in S
    PROVE  \A i \in 2 .. L : i \in S
<1> SUFFICES ASSUME {i \in 2 .. L : i \notin S} # {} PROVE FALSE
  OBVIOUS
<1> DEFINE missing == {i \in Nat : i \in 2 .. L /\ i \notin S}
<1>0. missing \in SUBSET Nat /\ missing # {}
  OBVIOUS
<1>1. PICK i \in missing : \A j \in missing : i <= j
  <2> HIDE DEF missing
  <2> QED  BY <1>0, LeastNat
<1>2. i # 2 /\ i \in 3 .. L
  BY <1>1
<1>3. i - 1 \in 2 .. L /\ i - 1 \notin missing
  BY <1>1, <1>2
<1>4. i - 1 \in S /\ i - 1 < L /\ (i - 1) + 1 = i
  BY <1>2, <1>3
<1> QED  BY <1>1, <1>4

\* A chain whose last call extends nothing is not circular: what extends one
\* another would hold every call after the first.
LEMMA EndedChain ==
    ASSUME LoadOK, ChainOK, calls # <<>>, ExtendsOf(calls) = None
    PROVE  ~IsCyclic(calls[1][2])
<1> SUFFICES ASSUME IsCyclic(calls[1][2]) PROVE FALSE
  OBVIOUS
<1>1. PICK S \in SUBSET DOMAIN conf : /\ FirstExtends(calls[1][2]) \in S
                                      /\ \A n \in S : conf[n].extends \in S
  BY DEF IsCyclic
<1>2. ConfOK /\ Calls(calls) /\ None \notin S
  BY ConfType, NoneIsNoNode DEF LoadOK
<1>3. PICK L \in Nat \ {0} : L = Len(calls)
  BY <1>2, CallsAre
<1>4. Extends(calls, L) = None /\ \A i \in 1 .. L - 1 : calls[i + 1] = Extends(calls, i)
  BY <1>2, <1>3, ExtendsOfIs DEF ChainOK
<1>5. L # 1
  BY <1>1, <1>2, <1>4 DEF Extends
<1>6. \A i \in 2 .. L : calls[i] \in S
  <2> DEFINE T == {i \in Nat : i \in 2 .. L /\ calls[i] \in S}
  <2>1. 2 \in T
    BY <1>1, <1>3, <1>4, <1>5 DEF Extends
  <2>2. ASSUME NEW i \in T, i < L PROVE i + 1 \in T
    <3>1. i \in 1 .. L - 1 /\ i # 1 /\ i + 1 \in 2 .. L /\ calls[i] \in S
      BY <1>3, <2>2
    <3>2. calls[i + 1] = conf[calls[i]].extends
      BY <1>4, <3>1 DEF Extends
    <3> QED  BY <1>1, <3>1, <3>2
  <2> HIDE DEF T
  <2>3. T \in SUBSET Nat
    BY DEF T
  <2>4. \A i \in 2 .. L : i \in T
    BY <2>1, <2>2, <2>3, FromSecond
  <2> QED  BY <2>4 DEF T
<1>7. calls[L] \in S /\ conf[calls[L]].extends = None
  BY <1>3, <1>4, <1>5, <1>6 DEF Extends
<1> QED  BY <1>1, <1>2, <1>7

\* With as many calls waiting as there are definitions, none of them the
\* first, the next is one of them.
LEMMA TooDeep ==
    ASSUME EnoughStack, LoadOK, ChainOK, calls # <<>>, Len(calls) = RecursionLimit,
           ExtendsOf(calls) \in DOMAIN conf, ExtendsOf(calls) # calls[1]
    PROVE  IsCyclic(calls[1][2])
<1>1. ConfOK /\ Calls(calls)
  BY DEF LoadOK
<1>2. PICK L \in Nat \ {0} : L = Len(calls)
  BY <1>1, CallsAre
<1> DEFINE f == [i \in 1 .. L + 1 |-> IF i = L + 1 THEN ExtendsOf(calls) ELSE calls[i]]
<1>3. /\ f \in [1 .. L + 1 -> DOMAIN conf]
      /\ \A i \in 1 .. L : f[i] = calls[i]
      /\ f[L + 1] = ExtendsOf(calls)
  <2>1. \A i \in 1 .. L : calls[i] \in DOMAIN conf
    BY <1>1, <1>2, CallsAre
  <2>2. \A i \in 1 .. L + 1 : (IF i = L + 1 THEN ExtendsOf(calls) ELSE calls[i]) \in DOMAIN conf
    BY <2>1
  <2> QED  BY <2>2
<1> HIDE DEF f
<1>4. \A i \in 2 .. L + 1 : f[i] # f[1]
  <2>1. f[1] = calls[1]
    BY <1>2, <1>3
  <2>2. ASSUME NEW i \in 2 .. L + 1 PROVE f[i] # f[1]
    <3>1. CASE i = L + 1
      BY <1>3, <2>1, <3>1
    <3>2. CASE i # L + 1
      BY <1>2, <1>3, <2>1, <3>2 DEF ChainOK
    <3> QED  BY <3>1, <3>2
  <2> QED  BY <2>2
<1>5. /\ f[2] = FirstExtends(calls[1][2])
      /\ \A i \in 2 .. L : f[i + 1] = conf[f[i]].extends
  <2>1. ASSUME NEW i \in 1 .. L PROVE f[i + 1] = Extends(calls, i)
    <3>1. CASE i = L
      BY <1>1, <1>2, <1>3, <3>1, ExtendsOfIs
    <3>2. CASE i # L
      <4>1. i \in 1 .. Len(calls) - 1 /\ i + 1 \in 1 .. L
        BY <1>2, <3>2
      <4> QED  BY <1>3, <4>1 DEF ChainOK
    <3> QED  BY <3>1, <3>2
  <2>2. f[1 + 1] = Extends(calls, 1)
    BY <1>2, <2>1
  <2>3. ASSUME NEW i \in 2 .. L PROVE f[i + 1] = conf[f[i]].extends
    <3>1. i \in 1 .. L /\ i # 1
      BY <1>2
    <3> QED  BY <1>3, <2>1, <3>1 DEF Extends
  <2> QED  BY <2>2, <2>3 DEF Extends
<1>6. PICK x \in 2 .. L + 1, y \in 2 .. L + 1 : x < y /\ f[x] = f[y]
  <2>1. IsFiniteSet(1 .. L + 1) /\ Cardinality(1 .. L + 1) = L + 1
    <3>1. L + 1 \in Int /\ ~(1 > L + 1) /\ (L + 1) - 1 + 1 = L + 1
      BY <1>2
    <3> QED  BY <3>1, FS_Interval, SMTT(30)
  <2>2. IsFiniteSet(DOMAIN conf) /\ Cardinality(DOMAIN conf) < L + 1
    <3>1. IsFiniteSet(DOMAIN conf) /\ Cardinality(DOMAIN conf) <= L
      BY <1>1, <1>2, ConfType DEF EnoughStack, ConfOK
    <3> QED  BY <1>2, <3>1, FS_CardinalityType
  <2>3. \E x, y \in 1 .. L + 1 : x # y /\ f[x] = f[y]
    BY <1>3, <2>1, <2>2, FS_PigeonHole
  <2>4. PICK x \in 1 .. L + 1, y \in 1 .. L + 1 : x < y /\ f[x] = f[y]
    BY <2>3
  <2>5. x # 1 /\ y # 1
    BY <1>4, <2>4
  <2> QED  BY <2>4, <2>5
<1> DEFINE S == {f[k] : k \in 2 .. y - 1}
<1>7. S \in SUBSET DOMAIN conf
  BY <1>3
<1>8. FirstExtends(calls[1][2]) \in S
  BY <1>5, <1>6
<1>9. ASSUME NEW n \in S PROVE conf[n].extends \in S
  <2>1. PICK k \in 2 .. y - 1 : n = f[k]
    BY <1>9
  <2>2. conf[n].extends = f[k + 1]
    BY <1>5, <2>1
  <2>3. CASE k + 1 = y
    BY <1>6, <2>1, <2>2, <2>3
  <2>4. CASE k + 1 # y
    BY <2>1, <2>2, <2>4
  <2> QED  BY <2>3, <2>4
<1> QED  BY <1>7, <1>8, <1>9 DEF IsCyclic

LEMMA ChainServiceOK == LoadOK /\ ChainOK /\ load_service => ChainOK'
<1> SUFFICES ASSUME LoadOK, ChainOK, load_service PROVE ChainOK'
  OBVIOUS
<1>1. UNCHANGED <<conf, dict, loaded>> /\ stage = "load" /\ calls = <<>> /\ dict = None
  BY DEF load_service, LoadOK
<1>2. \A name : IsCyclic(name)' <=> IsCyclic(name)
  BY <1>1, SameChains
<1>3. CASE calls' = <<>> /\ stage' = "sort"
  BY <1>1, <1>2, <1>3 DEF ChainOK
<1>4. ASSUME NEW name, calls' = <<<<Main, name>>>>, UNCHANGED stage PROVE ChainOK'
  BY <1>1, <1>2, <1>4, LimitAssumption DEF ChainOK, Failures
<1> QED  BY <1>1, <1>3, <1>4 DEF load_service

LEMMA ChainExtendsOK == LoadOK /\ ChainOK /\ resolve_extends => ChainOK'
<1> SUFFICES ASSUME LoadOK, ChainOK, resolve_extends PROVE ChainOK'
  OBVIOUS
<1> DEFINE target == ExtendsOf(calls)
<1>1. /\ UNCHANGED conf /\ stage = "load" /\ calls # <<>> /\ dict = None
      /\ ConfOK /\ Calls(calls)
  BY DEF resolve_extends, LoadOK
<1>2. \A name : /\ FirstExtends(name)' = FirstExtends(name)
                /\ IsCyclic(name)' <=> IsCyclic(name)
  BY <1>1, SameChains
<1>3. PICK L \in Nat \ {0} : L = Len(calls)
  BY <1>1, CallsAre
<1>4. ASSUME LoadEnds("refused") \/ LoadEnds("circular") \/ LoadEnds("crashed")
      PROVE  ChainOK'
  BY <1>1, <1>2, <1>4 DEF LoadEnds, ChainOK, Failures, Extends
<1>5. ASSUME target \notin AlreadySeen PROVE target # calls[1]
  <2>1. <<calls[1][1], calls[1][2]>> \in AlreadySeen
    <3>1. 1 \in DOMAIN calls
      BY <1>1, <1>3 DEF Calls
    <3> QED  BY <3>1 DEF AlreadySeen
  <2>2. calls[1] = <<calls[1][1], calls[1][2]>>
    BY <1>1, CallsAre
  <2> QED  BY <1>5, <2>1, <2>2
<1>6. ASSUME target \in DOMAIN conf, target \notin AlreadySeen, L # RecursionLimit,
             calls' = Append(calls, target), UNCHANGED <<stage, unloaded, dict, loaded>>
      PROVE  ChainOK'
  <2>1. /\ Len(calls') = L + 1 /\ calls'[L + 1] = target
        /\ \A i \in 1 .. L : calls'[i] = calls[i]
    BY <1>1, <1>3, <1>6 DEF Calls
  <2>2. calls'[1] = calls[1] /\ calls' # <<>>
    BY <1>3, <2>1
  <2>3. ASSUME NEW i \in 1 .. L PROVE calls'[i + 1] = Extends(calls, i)'
    <3>1. Extends(calls, i)' = Extends(calls, i)
      BY <1>1, <1>2, <2>1, <2>2 DEF Extends
    <3>2. CASE i = L
      BY <1>1, <1>3, <2>1, <3>1, <3>2, ExtendsOfIs
    <3>3. CASE i # L
      <4>1. i + 1 \in 1 .. L /\ i \in 1 .. Len(calls) - 1
        BY <1>3, <3>3
      <4> QED  BY <1>1, <2>1, <3>1, <4>1 DEF ChainOK
    <3> QED  BY <3>2, <3>3
  <2>4. \A i \in 2 .. L + 1 : calls'[i] # calls'[1]
    BY <1>1, <1>3, <1>5, <1>6, <2>1, <2>2 DEF ChainOK
  <2>5. L + 1 <= RecursionLimit
    BY <1>1, <1>3, <1>6, LimitAssumption DEF ChainOK
  <2> QED  BY <1>1, <1>2, <1>6, <2>1, <2>2, <2>3, <2>4, <2>5 DEF ChainOK, Failures
<1> QED  BY <1>3, <1>4, <1>6 DEF resolve_extends, IsWritten

LEMMA ChainDictOK == LoadOK /\ ChainOK /\ make_service_dict => ChainOK'
<1> SUFFICES ASSUME LoadOK, ChainOK, make_service_dict PROVE ChainOK'
  OBVIOUS
<1>1. /\ UNCHANGED <<stage, conf, unloaded, calls, loaded>> /\ calls # <<>>
      /\ stage = "load" /\ ~IsCyclic(calls[1][2])
  BY EndedChain DEF make_service_dict
<1>2. \A name : /\ FirstExtends(name)' = FirstExtends(name)
                /\ IsCyclic(name)' <=> IsCyclic(name)
  BY <1>1, SameChains
<1>3. \A i : Extends(calls, i)' = Extends(calls, i)
  BY <1>1, <1>2 DEF Extends
<1> QED  BY <1>1, <1>2, <1>3 DEF ChainOK, Failures

LEMMA ChainReturnOK == LoadOK /\ ChainOK /\ return_dict => ChainOK'
<1> SUFFICES ASSUME LoadOK, ChainOK, return_dict PROVE ChainOK'
  OBVIOUS
<1>1. /\ UNCHANGED conf /\ stage = "load" /\ calls # <<>> /\ dict # None
      /\ ConfOK /\ Calls(calls) /\ ~IsCyclic(calls[1][2])
  BY DEF return_dict, LoadOK, ChainOK
<1>2. \A name : /\ FirstExtends(name)' = FirstExtends(name)
                /\ IsCyclic(name)' <=> IsCyclic(name)
  BY <1>1, SameChains
<1>3. PICK L \in Nat \ {0} : L = Len(calls)
  BY <1>1, CallsAre
<1>4. ASSUME LoadEnds("refused") PROVE ChainOK'
  BY <1>1, <1>2, <1>4 DEF LoadEnds, ChainOK, Failures, Extends
<1>5. ASSUME L = 1,
             loaded' = [n \in DOMAIN loaded \cup {Top[2]} |->
                          IF n = Top[2] THEN dict ELSE loaded[n]],
             calls' = <<>>, UNCHANGED stage
      PROVE  ChainOK'
  <2>1. Top[2] = calls[1][2] /\ DOMAIN loaded' = DOMAIN loaded \cup {Top[2]}
    BY <1>3, <1>5 DEF Top
  <2>2. \A name \in DOMAIN loaded' : ~IsCyclic(name)
    BY <1>1, <2>1 DEF ChainOK
  <2> QED  BY <1>1, <1>2, <1>5, <2>2 DEF ChainOK
<1>6. ASSUME L # 1, calls' = SubSeq(calls, 1, Len(calls) - 1), UNCHANGED <<stage, loaded>>
      PROVE  ChainOK'
  <2>1. /\ Len(calls') = L - 1 /\ \A i \in 1 .. L - 1 : calls'[i] = calls[i]
    <3>1. calls \in Seq(DOMAIN conf)
      BY <1>1 DEF Calls
    <3> QED  BY <1>1, <1>3, <1>6, <3>1, AllButLast
  <2>2. calls'[1] = calls[1]
    BY <1>3, <1>6, <2>1
  <2>3. \A i \in 1 .. L - 2 : Extends(calls, i)' = Extends(calls, i)
    BY <1>1, <1>2, <1>3, <2>1, <2>2 DEF Extends
  <2>4. \A i \in 1 .. L - 2 : calls'[i + 1] = Extends(calls, i)'
    <3>1. \A i \in 1 .. L - 2 : i + 1 \in 1 .. L - 1 /\ i \in 1 .. Len(calls) - 1
      BY <1>3
    <3> QED  BY <1>1, <2>1, <2>3, <3>1 DEF ChainOK
  <2>5. \A i \in 2 .. L - 1 : calls'[i] # calls'[1]
    BY <1>1, <1>3, <2>1, <2>2 DEF ChainOK
  <2>6. L - 1 <= RecursionLimit
    BY <1>1, <1>3, LimitAssumption DEF ChainOK
  <2> QED  BY <1>1, <1>2, <1>3, <1>6, <2>1, <2>2, <2>4, <2>5, <2>6 DEF ChainOK, Failures
<1> QED  BY <1>3, <1>4, <1>5, <1>6 DEF return_dict

LEMMA ChainOKNext == LoadOK /\ ChainOK /\ [Next]_pvars => ChainOK'
<1> SUFFICES ASSUME LoadOK, ChainOK, [Next]_pvars PROVE ChainOK'
  OBVIOUS
<1>1. CASE Load
  BY <1>1, ChainServiceOK, ChainExtendsOK, ChainDictOK, ChainReturnOK DEF Load
<1>2. ASSUME UNCHANGED <<conf, calls, dict, loaded>>,
             stage' = stage \/ (stage \notin Failures \cup {"load"} /\ stage' # "load")
      PROVE  ChainOK'
  <2>1. \A name : /\ FirstExtends(name)' = FirstExtends(name)
                  /\ IsCyclic(name)' <=> IsCyclic(name)
    BY <1>2, SameChains
  <2>2. \A i : Extends(calls, i)' = Extends(calls, i)
    BY <1>2, <2>1 DEF Extends
  <2> QED  BY <1>2, <2>1, <2>2 DEF ChainOK
<1>3. CASE Sort \/ up
  BY <1>2, <1>3, Stages DEF Sorting, Failures
<1>4. CASE UNCHANGED lvars
  BY <1>2, <1>4 DEF lvars
<1> QED  BY <1>1, <1>3, <1>4 DEF Next, Terminated, pvars

LEMMA CrashOKNext ==
    EnoughStack /\ LoadOK /\ ChainOK /\ CrashOK /\ [Next]_pvars => CrashOK'
<1> SUFFICES ASSUME EnoughStack, LoadOK, ChainOK, CrashOK, [Next]_pvars,
                    stage' = "crashed", calls' # <<>>
             PROVE  IsCyclic(calls[1][2])'
  BY DEF CrashOK
<1>1. CASE resolve_extends /\ UNCHANGED conf
  <2> DEFINE target == ExtendsOf(calls)
  <2>1. stage = "load" /\ calls # <<>> /\ LoadOK /\ ConfOK /\ Calls(calls)
    BY <1>1 DEF resolve_extends, LoadOK
  <2>2. /\ target \in DOMAIN conf /\ target \notin AlreadySeen
        /\ Len(calls) = RecursionLimit /\ calls' = calls
    BY <1>1, <2>1 DEF resolve_extends, IsWritten, LoadEnds
  <2>3. target # calls[1]
    <3>1. <<calls[1][1], calls[1][2]>> \in AlreadySeen
      BY <2>1, CallsAre DEF AlreadySeen, Calls
    <3> QED  BY <2>1, <2>2, <3>1, CallsAre, SMTT(30)
  <2>4. IsCyclic(calls[1][2])
    BY <2>1, <2>2, <2>3, TooDeep
  <2> QED  BY <1>1, <2>2, <2>4, SameChains
<1>2. CASE load_service \/ make_service_dict \/ return_dict
  <2>1. stage = "load" /\ (UNCHANGED stage \/ stage' \in {"sort", "refused"})
    BY <1>2 DEF load_service, make_service_dict, return_dict, LoadEnds
  <2> QED  BY <2>1
<1>3. CASE Sort \/ up
  <2>1. calls' = calls /\ stage \in Sorting \cup {"done"}
    BY <1>3, Stages
  <2>2. calls = <<>>
    BY <2>1 DEF ChainOK, Sorting, Failures
  <2> QED  BY <2>1, <2>2
<1>4. CASE UNCHANGED lvars
  BY <1>4, SameChains DEF lvars, CrashOK
<1>5. resolve_extends => UNCHANGED conf
  BY DEF resolve_extends
<1> QED  BY <1>1, <1>2, <1>3, <1>4, <1>5 DEF Next, Load, Terminated, pvars

\* No service is loaded from a circular chain of extends, a chain that comes
\* back to the service itself is reported as circular, and as long as Python
\* lets as many calls wait as the files have definitions, it gives up only on a
\* circular chain.
THEOREM CircularNeverLoaded == EnoughStack => (Spec => []CyclesRefused)
<1> SUFFICES ASSUME EnoughStack PROVE Spec => []CyclesRefused
  OBVIOUS
<1>1. ChainOK /\ CrashOK => CyclesRefused
  BY DEF ChainOK, CrashOK, CyclesRefused
<1>2. LoadOK /\ ChainOK /\ CrashOK /\ [Next]_pvars => CrashOK'
  BY CrashOKNext
<1> QED  BY <1>1, <1>2, LoadOKInit, LoadOKNext, ChainOKInit, ChainOKNext, PTL DEF Spec

(***************************************************************************)
(* What a loaded service means                                             *)
(***************************************************************************)
\* c is the chain of n definitions that the service name of Main extends, in K
FirstIn(K, name) ==
    IF <<Override, name>> \in DOMAIN K /\ K[<<Override, name>>].extends # None
    THEN K[<<Override, name>>].extends ELSE K[<<Main, name>>].extends
ExtendsIn(K, c, i) == IF i = 1 THEN FirstIn(K, c[1][2]) ELSE K[c[i]].extends
Chained(K, c, name, n) ==
    /\ c \in Seq(DOMAIN K) /\ Len(c) = n /\ n \in 1 .. RecursionLimit
    /\ c[1] = <<Main, name>>
    /\ \A i \in 1 .. n - 1 : c[i + 1] = ExtendsIn(K, c, i)
    /\ ExtendsIn(K, c, n) \notin DOMAIN K

LEMMA ExtendsSame == \A c, i : ExtendsIn(conf, c, i) = Extends(c, i)
BY DEF ExtendsIn, FirstIn, Extends, FirstExtends

\* The induction rule for numbers up to a limit.
LEMMA UpTo ==
    ASSUME NEW N \in Nat, NEW S \in SUBSET Nat, 0 \in S,
           \A i \in S : i < N => i + 1 \in S
    PROVE  \A i \in 0 .. N : i \in S
<1> DEFINE missing == {i \in Nat : i \in 0 .. N /\ i \notin S}
<1> SUFFICES ASSUME missing # {} PROVE FALSE
  OBVIOUS
<1>0. missing \in SUBSET Nat
  OBVIOUS
<1>1. PICK i \in missing : \A j \in missing : i <= j
  <2> HIDE DEF missing
  <2> QED  BY <1>0, LeastNat
<1>2. i \in 1 .. N
  BY <1>1
<1>3. i - 1 \in 0 .. N /\ i - 1 \notin missing
  BY <1>1, <1>2
<1>4. i - 1 \in S /\ i - 1 < N /\ (i - 1) + 1 = i
  BY <1>2, <1>3
<1> QED  BY <1>1, <1>4

\* There is a function that follows the chain.
LEMMA Followed ==
    ASSUME NEW name
    PROVE  \E f : /\ f[RecursionLimit] = Chain(name)
                  /\ f = [k \in 0 .. RecursionLimit |->
                            IF k = 0 THEN <<<<Main, name>>>> ELSE Further(f[k - 1])]
<1> DEFINE Follows(f, n) == f = [k \in 0 .. n |-> IF k = 0 THEN <<<<Main, name>>>>
                                                 ELSE Further(f[k - 1])]
           S == {n \in Nat : \E f : Follows(f, n)}
<1>1. 0 \in S
  <2>1. Follows([k \in 0 .. 0 |-> <<<<Main, name>>>>], 0)
    OBVIOUS
  <2> QED  BY <2>1
<1>2. ASSUME NEW n \in S PROVE n + 1 \in S
  <2>1. PICK f : Follows(f, n)
    BY <1>2
  <2> DEFINE g == [k \in 0 .. n + 1 |-> IF k = 0 THEN <<<<Main, name>>>>
                                        ELSE Further(f[k - 1])]
  <2>0. n \in Nat
    OBVIOUS
  <2>2. ASSUME NEW k \in 0 .. n PROVE g[k] = f[k]
    <3>1. f[k] = IF k = 0 THEN <<<<Main, name>>>> ELSE Further(f[k - 1])
      BY <2>1
    <3>2. k \in 0 .. n + 1
      BY <2>0
    <3> QED  BY <3>1, <3>2
  <2>3. \A k \in 0 .. n + 1 : k # 0 => g[k - 1] = f[k - 1]
    <3>1. \A k \in 0 .. n + 1 : k # 0 => k - 1 \in 0 .. n
      BY <2>0
    <3> HIDE DEF g
    <3> QED  BY <2>2, <3>1
  <2>4. Follows(g, n + 1)
    <3>1. \A k \in 0 .. n + 1 : (IF k = 0 THEN <<<<Main, name>>>> ELSE Further(f[k - 1]))
                                = IF k = 0 THEN <<<<Main, name>>>> ELSE Further(g[k - 1])
      BY <2>3
    <3> QED  BY <3>1
  <2> HIDE DEF g
  <2> QED  BY <2>4, SMTT(30)
<1>3. RecursionLimit \in S
  <2> HIDE DEF S
  <2>1. S \in SUBSET Nat
    BY DEF S
  <2> QED  BY <1>1, <1>2, <2>1, UpTo, LimitAssumption
<1>4. PICK f : Follows(f, RecursionLimit)
  BY <1>3
<1> DEFINE F == CHOOSE g : Follows(g, RecursionLimit)
<1>5. Follows(F, RecursionLimit)
  BY <1>4
<1>6. Chain(name) = F[RecursionLimit]
  BY DEF Chain
<1> QED  BY <1>5, <1>6

LEMMA ChainIs ==
    ASSUME ConfOK, NEW name, NEW c, NEW n, Chained(conf, c, name, n)
    PROVE  Chain(name) = c
<1>1. PICK f : /\ f[RecursionLimit] = Chain(name)
               /\ f = [k \in 0 .. RecursionLimit |->
                         IF k = 0 THEN <<<<Main, name>>>> ELSE Further(f[k - 1])]
  BY Followed
<1> DEFINE m(k) == IF k < n THEN k + 1 ELSE n
           Reached(k) == /\ f[k] \in Seq(DOMAIN conf) /\ Len(f[k]) = m(k)
                         /\ \A i \in 1 .. m(k) : f[k][i] = c[i]
           S == {k \in Nat : k <= RecursionLimit /\ Reached(k)}
<1>2. n \in 1 .. RecursionLimit /\ RecursionLimit \in Nat /\ c \in Seq(DOMAIN conf)
      /\ Len(c) = n /\ c[1] = <<Main, name>>
      /\ \A i \in 1 .. n : c[i] \in DOMAIN conf
  BY LimitAssumption DEF Chained
<1>3. 0 \in S
  <2>1. f[0] = <<<<Main, name>>>> /\ m(0) = 1
    BY <1>1, <1>2
  <2>2. <<Main, name>> \in DOMAIN conf
    BY <1>2
  <2>3. /\ <<<<Main, name>>>> \in Seq(DOMAIN conf) /\ Len(<<<<Main, name>>>>) = 1
        /\ \A i \in 1 .. 1 : <<<<Main, name>>>>[i] = c[i]
    BY <1>2, <2>2
  <2>4. Reached(0)
    BY <2>1, <2>3
  <2> QED  BY <1>2, <2>4
<1>4. ASSUME NEW k \in S, k < RecursionLimit PROVE k + 1 \in S
  <2>0. k \in Nat /\ Reached(k) /\ k + 1 \in 0 .. RecursionLimit /\ k + 1 # 0
        /\ (k + 1) - 1 = k
    BY <1>2, <1>4
  <2>1. k \in Nat /\ Reached(k) /\ f[k + 1] = Further(f[k])
    <3> HIDE DEF Reached
    <3> QED  BY <1>1, <2>0
  <2>2. PICK s : s = f[k]
    OBVIOUS
  <2>3. PICK l \in 1 .. n : l = m(k)
    BY <1>2, <2>1
  <2>4. s \in Seq(DOMAIN conf) /\ Len(s) = l /\ \A i \in 1 .. l : s[i] = c[i]
    BY <2>1, <2>2, <2>3
  <2> DEFINE next == IF Len(s) = 1 THEN FirstExtends(s[1][2]) ELSE conf[Last(s)].extends
  <2>5. next = ExtendsIn(conf, c, l)
    BY <1>2, <2>4, ExtendsSame DEF Last, Extends
  <2>6. Further(s) = IF next \in DOMAIN conf THEN Append(s, next) ELSE s
    BY DEF Further
  <2>7. CASE l = n
    <3>1. next \notin DOMAIN conf
      BY <2>5, <2>7 DEF Chained
    <3>2. m(k + 1) = n
      BY <1>2, <2>1, <2>3, <2>7
    <3>3. f[k + 1] = s
      BY <2>1, <2>2, <2>6, <3>1
    <3>4. Reached(k + 1)
      BY <2>4, <2>7, <3>2, <3>3
    <3> QED  BY <1>2, <1>4, <2>1, <3>4
  <2>8. CASE l # n
    <3>1. l = k + 1 /\ k + 1 < n /\ m(k + 1) = l + 1 /\ l \in 1 .. n - 1
      BY <1>2, <2>1, <2>3, <2>8
    <3>2. next = c[l + 1] /\ next \in DOMAIN conf
      BY <1>2, <2>5, <3>1 DEF Chained
    <3>3. f[k + 1] = Append(s, next)
      BY <2>1, <2>2, <2>6, <3>2
    <3> HIDE DEF next
    <3>4. /\ Append(s, next) \in Seq(DOMAIN conf) /\ Len(Append(s, next)) = l + 1
          /\ \A i \in 1 .. l : Append(s, next)[i] = s[i]
          /\ Append(s, next)[l + 1] = next
      BY <2>4, <3>2
    <3>5. \A i \in 1 .. l + 1 : Append(s, next)[i] = c[i]
      BY <2>4, <3>2, <3>4
    <3>6. Reached(k + 1)
      BY <3>1, <3>3, <3>4, <3>5
    <3> QED  BY <1>2, <1>4, <2>1, <3>6
  <2> QED  BY <2>7, <2>8
<1>5. RecursionLimit \in S
  <2> HIDE DEF S
  <2>1. S \in SUBSET Nat
    BY DEF S
  <2>2. \A i \in 0 .. RecursionLimit : i \in S
    BY <1>2, <1>3, <1>4, <2>1, UpTo
  <2> QED  BY <1>2, <2>2
<1>6. /\ Chain(name) \in Seq(DOMAIN conf) /\ Len(Chain(name)) = n
      /\ \A i \in 1 .. n : Chain(name)[i] = c[i]
  BY <1>1, <1>2, <1>5
<1> HIDE DEF S
<1> QED  BY <1>2, <1>6

\* the definitions of K that write a value
ImageOrBuild(K) == {n \in DOMAIN K : K[n].image \/ K[n].build}
WithVolumes(K) == {n \in DOMAIN K : K[n].volumes}
WithEnvironment(K) == {n \in DOMAIN K : K[n].environment}
WithPorts(K) == {n \in DOMAIN K : K[n].ports}

\* n is the first of W that is in S, or None
FirstOf(n, W, S) ==
    \/ n = None /\ \A i \in 1 .. Len(W) : W[i] \notin S
    \/ \E i \in 1 .. Len(W) : /\ W[i] \in S /\ n = W[i]
                              /\ \A j \in 1 .. i - 1 : W[j] \notin S

\* ports are those of W that are in S, from the far end: g says which
PortsBy(S, ports, W, a, n) ==
    \E g \in [1 .. a -> 1 .. n] :
       /\ \A k \in 1 .. a : W[g[k]] \in S /\ ports[k] = W[g[k]]
       /\ \A j, k \in 1 .. a : j < k => g[k] < g[j]
       /\ \A i \in 1 .. n : W[i] \in S => \E k \in 1 .. a : g[k] = i
PortsAre(S, ports, W) == PortsBy(S, ports, W, Len(ports), Len(W))

\* d is what the definitions W of K say, nearest first
Means(K, d, W) ==
    /\ \E n : /\ FirstOf(n, W, ImageOrBuild(K))
              /\ d.image # None => d.image = n
              /\ d.build.by # None => d.build.by = n
              /\ n # None => d.image # None \/ d.build.by # None
    /\ FirstOf(d.volumes.by, W, WithVolumes(K))
    /\ \E n : FirstOf(n, W, WithEnvironment(K)) /\ (n # None => d.environment = n)
    /\ PortsAre(WithPorts(K), d.ports, W)
    /\ d.build.by = None => d.build = NoPath
    /\ d.volumes.by = None => d.volumes = NoPath
\* the same before environment and env_file are one
Exactly(K, d, W) == Means(K, d, W) /\ FirstOf(d.environment, W, WithEnvironment(K))

LEMMA ConcatIs ==
    ASSUME NEW S, NEW s \in Seq(S), NEW t \in Seq(S)
    PROVE  /\ s \o t \in Seq(S) /\ Len(s) \in Nat /\ Len(t) \in Nat
           /\ Len(s \o t) = Len(s) + Len(t)
           /\ \A i \in 1 .. Len(s) : (s \o t)[i] = s[i] /\ s[i] \in S
           /\ \A i \in 1 .. Len(t) : (s \o t)[Len(s) + i] = t[i] /\ t[i] \in S
<1>1. /\ s \o t \in Seq(S) /\ Len(s) \in Nat /\ Len(t) \in Nat
      /\ Len(s \o t) = Len(s) + Len(t)
      /\ \A i \in 1 .. Len(s) + Len(t) : (s \o t)[i] = IF i <= Len(s) THEN s[i]
                                                       ELSE t[i - Len(s)]
      /\ (\A i \in 1 .. Len(s) : s[i] \in S) /\ \A i \in 1 .. Len(t) : t[i] \in S
  BY ConcatProperties
<1>2. ASSUME NEW i \in 1 .. Len(s) PROVE (s \o t)[i] = s[i]
  <2>1. i \in 1 .. Len(s) + Len(t) /\ i <= Len(s)
    BY <1>1
  <2> QED  BY <1>1, <2>1
<1>3. ASSUME NEW i \in 1 .. Len(t) PROVE (s \o t)[Len(s) + i] = t[i]
  <2>1. /\ Len(s) + i \in 1 .. Len(s) + Len(t) /\ ~(Len(s) + i <= Len(s))
        /\ (Len(s) + i) - Len(s) = i
    BY <1>1
  <2> QED  BY <1>1, <2>1
<1> QED  BY <1>1, <1>2, <1>3

LEMMA FirstOfBoth ==
    ASSUME NEW V \in Seq(Nodes), NEW W \in Seq(Nodes), NEW S, NEW v, NEW w,
           FirstOf(v, V, S), FirstOf(w, W, S)
    PROVE  FirstOf(IF v # None THEN v ELSE w, V \o W, S)
<1> DEFINE U == V \o W
<1>1. PICK l \in Nat, m \in Nat : l = Len(V) /\ m = Len(W) /\ Len(U) = l + m
  BY ConcatIs
<1>2. /\ \A i \in 1 .. l : U[i] = V[i] /\ V[i] \in Nodes
      /\ \A i \in 1 .. m : U[l + i] = W[i]
  BY <1>1, ConcatIs
<1> HIDE DEF U
<1>3. ASSUME NEW i \in 1 .. l, V[i] \in S, v = V[i], \A j \in 1 .. i - 1 : V[j] \notin S
      PROVE  FirstOf(v, U, S) /\ v # None
  <2>1. i \in 1 .. l + m /\ \A j \in 1 .. i - 1 : j \in 1 .. l
    BY <1>1
  <2> QED  BY <1>1, <1>2, <1>3, <2>1, NoneIsNoNode DEF FirstOf
<1>4. ASSUME v = None, \A i \in 1 .. l : V[i] \notin S
      PROVE  FirstOf(w, U, S)
  <2>1. ASSUME NEW j \in 1 .. l + m
        PROVE  j \in 1 .. l \/ (j - l \in 1 .. m /\ j = l + (j - l))
    BY <1>1
  <2>2. CASE w = None /\ \A i \in 1 .. m : W[i] \notin S
    <3>1. \A j \in 1 .. l + m : U[j] \notin S
      BY <1>2, <1>4, <2>1, <2>2
    <3> QED  BY <1>1, <2>2, <3>1 DEF FirstOf
  <2>3. ASSUME NEW i \in 1 .. m, W[i] \in S, w = W[i], \A j \in 1 .. i - 1 : W[j] \notin S
        PROVE  FirstOf(w, U, S)
    <3>1. l + i \in 1 .. l + m /\ U[l + i] \in S /\ w = U[l + i]
      BY <1>1, <1>2, <2>3
    <3>2. ASSUME NEW j \in 1 .. (l + i) - 1 PROVE U[j] \notin S
      <4>1. CASE j \in 1 .. l
        BY <1>2, <1>4, <4>1
      <4>2. CASE j \notin 1 .. l
        <5>1. j - l \in 1 .. i - 1 /\ j = l + (j - l) /\ j - l \in 1 .. m
          BY <1>1, <4>2
        <5>2. PICK k \in 1 .. m : k \in 1 .. i - 1 /\ j = l + k
          BY <5>1
        <5> QED  BY <1>2, <2>3, <5>2
      <4> QED  BY <4>1, <4>2
    <3> QED  BY <1>1, <3>1, <3>2 DEF FirstOf
  <2> QED  BY <1>1, <2>2, <2>3 DEF FirstOf
<1>5. CASE \E i \in 1 .. l : V[i] \in S /\ v = V[i] /\ \A j \in 1 .. i - 1 : V[j] \notin S
  BY <1>3, <1>5 DEF U
<1>6. CASE v = None /\ \A i \in 1 .. l : V[i] \notin S
  BY <1>4, <1>6 DEF U
<1> QED  BY <1>1, <1>5, <1>6 DEF FirstOf

LEMMA NearestIs ==
    ASSUME NEW W \in Seq(Nodes), NEW S, NEW n, FirstOf(n, W, S)
    PROVE  Nearest(W, S) = n
<1>1. DOMAIN W = 1 .. Len(W) /\ Len(W) \in Nat
  OBVIOUS
<1>2. CASE n = None /\ \A i \in 1 .. Len(W) : W[i] \notin S
  <2>1. Where(W, S) = {}
    BY <1>1, <1>2 DEF Where
  <2> QED  BY <1>2, <2>1 DEF Nearest
<1>3. ASSUME NEW i \in 1 .. Len(W), W[i] \in S, n = W[i], \A j \in 1 .. i - 1 : W[j] \notin S
      PROVE  Nearest(W, S) = n
  <2>1. i \in Where(W, S) /\ Where(W, S) \subseteq 1 .. Len(W)
    BY <1>1, <1>3 DEF Where
  <2>2. \A j \in Where(W, S) : i <= j
    BY <1>1, <1>3 DEF Where
  <2>3. Min(Where(W, S)) \in Where(W, S) /\ Min(Where(W, S)) <= i
    BY <2>1, <2>2 DEF Min
  <2>4. Min(Where(W, S)) = i
    BY <1>1, <2>1, <2>2, <2>3
  <2> QED  BY <1>3, <2>1, <2>4 DEF Nearest
<1> QED  BY <1>2, <1>3 DEF FirstOf

LEMMA PortsOfBoth ==
    ASSUME NEW S, NEW V \in Seq(Nodes), NEW W \in Seq(Nodes), NEW q \in Seq(Nodes),
           NEW p \in Seq(Nodes), PortsAre(S, q, V), PortsAre(S, p, W)
    PROVE  PortsAre(S, p \o q, V \o W)
<1> DEFINE U == V \o W
           r == p \o q
<1>1. PICK l \in Nat, m \in Nat : l = Len(V) /\ m = Len(W) /\ Len(U) = l + m
  BY ConcatIs
<1>2. PICK a \in Nat, b \in Nat : a = Len(p) /\ b = Len(q) /\ Len(r) = a + b
  BY ConcatIs
<1>3. /\ \A i \in 1 .. l : U[i] = V[i]
      /\ \A i \in 1 .. m : U[l + i] = W[i]
      /\ \A i \in 1 .. a : r[i] = p[i]
      /\ \A i \in 1 .. b : r[a + i] = q[i]
  BY <1>1, <1>2, ConcatIs
<1>4. PICK f \in [1 .. b -> 1 .. l] :
         /\ \A k \in 1 .. b : V[f[k]] \in S /\ q[k] = V[f[k]]
         /\ \A j, k \in 1 .. b : j < k => f[k] < f[j]
         /\ \A i \in 1 .. l : V[i] \in S => \E k \in 1 .. b : f[k] = i
  <2>1. PortsBy(S, q, V, b, l)
    BY <1>1, <1>2 DEF PortsAre
  <2> QED  BY <2>1 DEF PortsBy
<1>5. PICK g \in [1 .. a -> 1 .. m] :
         /\ \A k \in 1 .. a : W[g[k]] \in S /\ p[k] = W[g[k]]
         /\ \A j, k \in 1 .. a : j < k => g[k] < g[j]
         /\ \A i \in 1 .. m : W[i] \in S => \E k \in 1 .. a : g[k] = i
  <2>1. PortsBy(S, p, W, a, m)
    BY <1>1, <1>2 DEF PortsAre
  <2> QED  BY <2>1 DEF PortsBy
<1> HIDE DEF U, r
<1> DEFINE h == [k \in 1 .. a + b |-> IF k <= a THEN l + g[k] ELSE f[k - a]]
<1>6. /\ \A k \in 1 .. a : k \in 1 .. a + b /\ h[k] = l + g[k] /\ g[k] \in 1 .. m
      /\ \A k \in 1 .. b : a + k \in 1 .. a + b /\ h[a + k] = f[k] /\ f[k] \in 1 .. l
  <2>1. ASSUME NEW k \in 1 .. a PROVE k \in 1 .. a + b /\ h[k] = l + g[k] /\ g[k] \in 1 .. m
    <3>1. k \in 1 .. a + b /\ k <= a
      BY <1>2
    <3> QED  BY <3>1
  <2>2. ASSUME NEW k \in 1 .. b
        PROVE  a + k \in 1 .. a + b /\ h[a + k] = f[k] /\ f[k] \in 1 .. l
    <3>1. a + k \in 1 .. a + b /\ ~(a + k <= a) /\ (a + k) - a = k
      BY <1>2
    <3> QED  BY <3>1
  <2> QED  BY <2>1, <2>2
<1> HIDE DEF h
<1>7. \A k \in 1 .. a + b : k \in 1 .. a \/ \E j \in 1 .. b : k = a + j
  <2> SUFFICES ASSUME NEW k \in 1 .. a + b, k \notin 1 .. a PROVE \E j \in 1 .. b : k = a + j
    OBVIOUS
  <2>1. k - a \in 1 .. b /\ k = a + (k - a)
    BY <1>2
  <2> QED  BY <2>1
<1>8. h \in [1 .. a + b -> 1 .. l + m]
  <2>1. \A k \in 1 .. a + b : h[k] \in 1 .. l + m
    <3>1. \A k \in 1 .. a : h[k] \in 1 .. l + m
      BY <1>1, <1>6
    <3>2. ASSUME NEW k \in 1 .. b PROVE h[a + k] \in 1 .. l + m
      <4>1. h[a + k] = f[k] /\ f[k] \in 1 .. l
        BY <1>6
      <4> QED  BY <1>1, <4>1
    <3> QED  BY <1>7, <3>1, <3>2
  <2> QED  BY <2>1 DEF h
<1>9. ASSUME NEW k \in 1 .. a + b PROVE U[h[k]] \in S /\ r[k] = U[h[k]]
  <2>1. CASE k \in 1 .. a
    <3>1. h[k] = l + g[k] /\ g[k] \in 1 .. m
      BY <1>6, <2>1
    <3>2. U[h[k]] = W[g[k]] /\ r[k] = p[k]
      BY <1>3, <2>1, <3>1
    <3> QED  BY <1>5, <2>1, <3>2
  <2>2. ASSUME NEW j \in 1 .. b, k = a + j PROVE U[h[k]] \in S /\ r[k] = U[h[k]]
    <3>1. h[k] = f[j] /\ f[j] \in 1 .. l
      BY <1>6, <2>2
    <3>2. U[h[k]] = V[f[j]] /\ r[k] = q[j]
      BY <1>3, <2>2, <3>1
    <3> QED  BY <1>4, <3>2
  <2> QED  BY <1>7, <2>1, <2>2
<1>10. ASSUME NEW j \in 1 .. a + b, NEW k \in 1 .. a + b, j < k PROVE h[k] < h[j]
  <2>1. CASE j \in 1 .. a /\ k \in 1 .. a
    <3>1. /\ h[j] = l + g[j] /\ g[j] \in 1 .. m
          /\ h[k] = l + g[k] /\ g[k] \in 1 .. m
      BY <1>6, <2>1
    <3>2. g[k] < g[j]
      BY <1>5, <1>10, <2>1
    <3> QED  BY <1>1, <3>1, <3>2, SMTT(30)
  <2>2. ASSUME j \in 1 .. a, NEW x \in 1 .. b, k = a + x PROVE h[k] < h[j]
    <3>1. h[k] \in 1 .. l /\ h[j] = l + g[j] /\ g[j] \in 1 .. m
      BY <1>6, <2>2
    <3> QED  BY <1>1, <3>1
  <2>3. ASSUME NEW x \in 1 .. b, NEW y \in 1 .. b, j = a + x, k = a + y PROVE h[k] < h[j]
    <3>1. x < y
      BY <1>2, <1>10, <2>3
    <3> QED  BY <1>4, <1>6, <2>3, <3>1
  <2>4. ASSUME k \in 1 .. a, NEW x \in 1 .. b, j = a + x PROVE FALSE
    BY <1>2, <1>10, <2>4
  <2> QED  BY <1>7, <2>1, <2>2, <2>3, <2>4
<1>11. ASSUME NEW i \in 1 .. l + m, U[i] \in S PROVE \E k \in 1 .. a + b : h[k] = i
  <2>1. CASE i \in 1 .. l
    <3>1. PICK k \in 1 .. b : f[k] = i
      BY <1>3, <1>4, <1>11, <2>1
    <3> QED  BY <1>6, <3>1
  <2>2. CASE i \notin 1 .. l
    <3>1. i - l \in 1 .. m /\ i = l + (i - l)
      BY <1>1, <2>2
    <3>2. PICK k \in 1 .. a : g[k] = i - l
      BY <1>3, <1>5, <1>11, <3>1, ZenonT(30)
    <3> QED  BY <1>6, <3>1, <3>2
  <2> QED  BY <2>1, <2>2
<1>12. PortsAre(S, r, U)
  <2>1. PortsBy(S, r, U, a + b, l + m)
    BY <1>8, <1>9, <1>10, <1>11 DEF PortsBy
  <2> QED  BY <1>1, <1>2, <2>1 DEF PortsAre, r, U
<1> QED  BY <1>12 DEF r, U

\* Ports in this order are where LoadedAsWritten looks for them.
LEMMA PortsCounted ==
    ASSUME NEW S, NEW W \in Seq(Nodes), NEW p \in Seq(Nodes), PortsAre(S, p, W)
    PROVE  LET ports == Where(W, S)
           IN /\ Len(p) = Cardinality(ports)
              /\ \A i \in ports : p[Cardinality({j \in ports : i <= j})] = W[i]
<1> DEFINE ports == Where(W, S)
<1>1. PICK n \in Nat, a \in Nat : n = Len(W) /\ a = Len(p) /\ DOMAIN W = 1 .. n
  OBVIOUS
<1>2. PICK g \in [1 .. a -> 1 .. n] :
         /\ \A k \in 1 .. a : W[g[k]] \in S /\ p[k] = W[g[k]]
         /\ \A j, k \in 1 .. a : j < k => g[k] < g[j]
         /\ \A i \in 1 .. n : W[i] \in S => \E k \in 1 .. a : g[k] = i
  <2>1. PortsBy(S, p, W, a, n)
    BY <1>1 DEF PortsAre
  <2> QED  BY <2>1 DEF PortsBy
<1>3. \A k \in 1 .. a : g[k] \in 1 .. n
  OBVIOUS
<1>4. ASSUME NEW k \in 0 .. a PROVE Cardinality({g[j] : j \in 1 .. k}) = k
  <2> DEFINE s == [j \in 1 .. k |-> g[j]]
  <2>1. \A j \in 1 .. k : j \in 1 .. a
    BY <1>1
  <2>2. k \in Nat /\ \A j \in 1 .. k : g[j] \in 1 .. n
    BY <1>1, <1>3, <2>1
  <2>3. s \in Seq(1 .. n) /\ Len(s) = k /\ DOMAIN s = 1 .. k
    BY <2>2
  <2>4. ASSUME NEW i \in 1 .. k, NEW j \in 1 .. k, s[i] = s[j] PROVE i = j
    <3>1. g[i] = g[j] /\ i \in 1 .. a /\ j \in 1 .. a
      BY <2>1, <2>4
    <3>2. g[i] \in Nat
      BY <1>3, <3>1
    <3> QED  BY <1>2, <3>1, <3>2
  <2>5. ToSet(s) = {g[j] : j \in 1 .. k}
    BY <2>3 DEF ToSet
  <2> HIDE DEF s
  <2> QED  BY <2>3, <2>4, <2>5, LengthIs
<1>5. ports = {g[k] : k \in 1 .. a}
  BY <1>1, <1>2, <1>3 DEF Where
<1>6. Len(p) = Cardinality(ports)
  <2>1. a \in 0 .. a
    BY <1>1
  <2> QED  BY <1>1, <1>4, <1>5, <2>1
<1>7. ASSUME NEW i \in ports PROVE p[Cardinality({j \in ports : i <= j})] = W[i]
  <2>1. PICK k \in 1 .. a : g[k] = i
    BY <1>5
  <2>2. \A l \in 1 .. a : i <= g[l] <=> l \in 1 .. k
    <3> SUFFICES ASSUME NEW l \in 1 .. a PROVE g[k] <= g[l] <=> l \in 1 .. k
      BY <2>1
    <3>1. g[k] \in Nat /\ g[l] \in Nat
      BY <1>3
    <3>2. l < k \/ l = k \/ k < l
      OBVIOUS
    <3>3. CASE l < k
      BY <1>2, <3>1, <3>3
    <3>4. CASE k < l
      BY <1>2, <3>1, <3>4
    <3>5. CASE l = k
      BY <3>1, <3>5
    <3> QED  BY <3>2, <3>3, <3>4, <3>5
  <2>3. \A l \in 1 .. k : l \in 1 .. a
    BY <1>1
  <2>4. {j \in ports : i <= j} = {g[l] : l \in 1 .. k}
    BY <1>5, <2>2, <2>3
  <2>5. Cardinality({j \in ports : i <= j}) = k
    <3>1. k \in 0 .. a
      BY <1>1
    <3> QED  BY <1>4, <2>4, <3>1
  <2> QED  BY <1>2, <2>1, <2>5
<1> QED  BY <1>6, <1>7

LEMMA WrittenMeans ==
    ASSUME ConfOK, NEW n \in DOMAIN conf
    PROVE  Exactly(conf, Written(n), <<n>>)
<1>1. /\ Len(<<n>>) = 1 /\ <<n>>[1] = n /\ n # None
      /\ conf[n] \in Definition
  BY ConfType, NoneIsNoNode
<1>2. \A S : FirstOf(IF n \in S THEN n ELSE None, <<n>>, S)
  <2> SUFFICES ASSUME NEW S PROVE FirstOf(IF n \in S THEN n ELSE None, <<n>>, S)
    OBVIOUS
  <2>1. 1 \in 1 .. Len(<<n>>) /\ \A i \in 1 .. Len(<<n>>) : i = 1
    BY <1>1
  <2> QED  BY <1>1, <2>1 DEF FirstOf
<1> DEFINE d == Written(n)
<1>3. /\ d.image = (IF conf[n].image THEN n ELSE None)
      /\ d.build = [by |-> IF conf[n].build THEN n ELSE None, against |-> None]
      /\ d.volumes = [by |-> IF conf[n].volumes THEN n ELSE None, against |-> None]
      /\ d.environment = (IF conf[n].environment THEN n ELSE None)
      /\ d.ports = (IF conf[n].ports THEN <<n>> ELSE <<>>)
  BY DEF Written
<1> HIDE DEF d
<1>4. PortsAre(WithPorts(conf), d.ports, <<n>>)
  <2>1. CASE n \in WithPorts(conf)
    <3>1. d.ports = <<n>>
      BY <1>3, <2>1 DEF WithPorts
    <3> DEFINE g == [k \in 1 .. 1 |-> 1]
    <3>2. g \in [1 .. 1 -> 1 .. 1] /\ g[1] = 1 /\ \A k \in 1 .. 1 : k = 1
      OBVIOUS
    <3> HIDE DEF g
    <3> QED  BY <1>1, <2>1, <3>1, <3>2 DEF PortsAre, PortsBy
  <2>2. CASE n \notin WithPorts(conf)
    <3>1. d.ports = <<>> /\ Len(<<>>) = 0
      BY <1>3, <2>2 DEF WithPorts
    <3> DEFINE g == [k \in 1 .. 0 |-> 1]
    <3>2. g \in [1 .. 0 -> 1 .. 1] /\ 1 .. 0 = {} /\ \A k \in 1 .. 1 : k = 1
      OBVIOUS
    <3> HIDE DEF g
    <3> QED  BY <1>1, <2>2, <3>1, <3>2 DEF PortsAre, PortsBy
  <2> QED  BY <2>1, <2>2
<1>5. /\ FirstOf(d.volumes.by, <<n>>, WithVolumes(conf))
      /\ FirstOf(d.environment, <<n>>, WithEnvironment(conf))
  <2>1. /\ n \in WithVolumes(conf) <=> conf[n].volumes
        /\ n \in WithEnvironment(conf) <=> conf[n].environment
    BY DEF WithVolumes, WithEnvironment
  <2>2. /\ d.volumes.by = (IF n \in WithVolumes(conf) THEN n ELSE None)
        /\ d.environment = (IF n \in WithEnvironment(conf) THEN n ELSE None)
    BY <1>3, <2>1
  <2> QED  BY <1>2, <2>2
<1>6. \E m : /\ FirstOf(m, <<n>>, ImageOrBuild(conf))
             /\ d.image # None => d.image = m
             /\ d.build.by # None => d.build.by = m
             /\ m # None => d.image # None \/ d.build.by # None
  <2> DEFINE m == IF n \in ImageOrBuild(conf) THEN n ELSE None
  <2>1. FirstOf(m, <<n>>, ImageOrBuild(conf))
    BY <1>2
  <2>2. n \in ImageOrBuild(conf) <=> conf[n].image \/ conf[n].build
    BY DEF ImageOrBuild
  <2> QED  BY <1>1, <1>3, <2>1, <2>2
<1>7. (d.build.by = None => d.build = NoPath) /\ (d.volumes.by = None => d.volumes = NoPath)
  BY <1>1, <1>3 DEF NoPath
<1> QED  BY <1>4, <1>5, <1>6, <1>7 DEF Exactly, Means, d

LEMMA MergeMeans ==
    ASSUME NEW base \in Dict, NEW over \in Dict, NEW V \in Seq(Nodes), NEW W \in Seq(Nodes),
           Means(conf, base, W), Exactly(conf, over, V)
    PROVE  LET d == merge_service_dicts(base, over)
           IN Means(conf, d, V \o W) /\ (Exactly(conf, base, W) => Exactly(conf, d, V \o W))
<1> DEFINE d == merge_service_dicts(base, over)
           U == V \o W
<1>1. /\ d.image = (IF over.build.by # None THEN over.image
                    ELSE Prefer(over.image, base.image, None))
      /\ d.build = (IF over.image # None THEN over.build
                    ELSE Prefer(over.build, base.build, NoPath))
      /\ d.volumes = Prefer(over.volumes, base.volumes, NoPath)
      /\ d.environment = Prefer(over.environment, base.environment, None)
      /\ d.ports = base.ports \o over.ports
  BY DEF merge_service_dicts
<1>2. /\ Means(conf, over, V) /\ FirstOf(over.environment, V, WithEnvironment(conf))
      /\ base.ports \in Seq(Nodes) /\ over.ports \in Seq(Nodes)
  BY DEF Exactly, Dict
<1>3. NoPath.by = None
  BY DEF NoPath
<1> HIDE DEF d, U
<1>4. PICK v : /\ FirstOf(v, V, ImageOrBuild(conf))
               /\ over.image # None => over.image = v
               /\ over.build.by # None => over.build.by = v
               /\ v # None => over.image # None \/ over.build.by # None
  BY <1>2 DEF Means
<1>5. PICK w : /\ FirstOf(w, W, ImageOrBuild(conf))
               /\ base.image # None => base.image = w
               /\ base.build.by # None => base.build.by = w
               /\ w # None => base.image # None \/ base.build.by # None
  BY DEF Means
<1>6. /\ over.build.by = None => over.build = NoPath
      /\ over.volumes.by = None => over.volumes = NoPath
      /\ base.build.by = None => base.build = NoPath
      /\ base.volumes.by = None => base.volumes = NoPath
  BY <1>2 DEF Means
<1>7. \E n : /\ FirstOf(n, U, ImageOrBuild(conf))
             /\ d.image # None => d.image = n
             /\ d.build.by # None => d.build.by = n
             /\ n # None => d.image # None \/ d.build.by # None
  <2> DEFINE n == IF v # None THEN v ELSE w
  <2>1. FirstOf(n, U, ImageOrBuild(conf))
    BY <1>4, <1>5, FirstOfBoth DEF U
  <2>2. CASE v # None
    <3>1. d.image = over.image \/ (over.build.by = None /\ over.image = None)
      BY <1>1 DEF Prefer
    <3>2. over.image # None \/ over.build.by # None
      BY <1>4, <2>2
    <3>3. d.image = over.image /\ d.build = over.build
      BY <1>1, <1>3, <3>1, <3>2 DEF Prefer
    <3> QED  BY <1>4, <2>1, <2>2, <3>2, <3>3
  <2>3. CASE v = None
    <3>1. over.image = None /\ over.build.by = None /\ over.build = NoPath
      BY <1>4, <1>6, <2>3
    <3>2. d.image = base.image /\ d.build = base.build
      BY <1>1, <3>1 DEF Prefer
    <3> QED  BY <1>5, <2>1, <2>3, <3>2
  <2> QED  BY <2>2, <2>3
<1>8. /\ FirstOf(d.volumes.by, U, WithVolumes(conf))
      /\ d.volumes.by = None => d.volumes = NoPath
  <2>1. /\ FirstOf(over.volumes.by, V, WithVolumes(conf))
        /\ FirstOf(base.volumes.by, W, WithVolumes(conf))
    BY <1>2 DEF Means
  <2>2. FirstOf(IF over.volumes.by # None THEN over.volumes.by ELSE base.volumes.by, U,
                WithVolumes(conf))
    BY <2>1, FirstOfBoth DEF U
  <2>3. d.volumes = IF over.volumes.by # None THEN over.volumes ELSE base.volumes
    BY <1>1, <1>3, <1>6 DEF Prefer
  <2>4. d.volumes.by = IF over.volumes.by # None THEN over.volumes.by ELSE base.volumes.by
    BY <2>3
  <2> QED  BY <1>6, <2>2, <2>3, <2>4
<1>9. d.build.by = None => d.build = NoPath
  BY <1>1, <1>6 DEF Prefer
<1>10. PortsAre(WithPorts(conf), d.ports, U)
  <2>1. PortsAre(WithPorts(conf), over.ports, V) /\ PortsAre(WithPorts(conf), base.ports, W)
    BY <1>2 DEF Means
  <2> QED  BY <1>1, <1>2, <2>1, PortsOfBoth DEF U
<1>11. \E n : FirstOf(n, U, WithEnvironment(conf)) /\ (n # None => d.environment = n)
  <2>1. PICK x : FirstOf(x, W, WithEnvironment(conf)) /\ (x # None => base.environment = x)
    BY DEF Means
  <2>2. FirstOf(IF over.environment # None THEN over.environment ELSE x, U,
                WithEnvironment(conf))
    BY <1>2, <2>1, FirstOfBoth DEF U
  <2>3. d.environment = IF over.environment # None THEN over.environment ELSE base.environment
    BY <1>1 DEF Prefer
  <2> QED  BY <2>1, <2>2, <2>3
<1>12. ASSUME Exactly(conf, base, W) PROVE FirstOf(d.environment, U, WithEnvironment(conf))
  <2>1. FirstOf(IF over.environment # None THEN over.environment ELSE base.environment, U,
                WithEnvironment(conf))
    BY <1>2, <1>12, FirstOfBoth DEF U, Exactly
  <2> QED  BY <1>1, <2>1 DEF Prefer
<1>13. Means(conf, d, U)
  BY <1>7, <1>8, <1>9, <1>10, <1>11 DEF Means
<1> QED  BY <1>12, <1>13 DEF Exactly, d, U

\* the definitions a service_dict is made of, nearest first
Own(K, waiting) ==
    IF Len(waiting) = 1 /\ OverrideOf(waiting[1][2]) \in DOMAIN K
    THEN <<OverrideOf(waiting[1][2]), waiting[1]>> ELSE <<waiting[Len(waiting)]>>

\* a path is relative to the file it is written in
Near(path) == path.by # None => Directory(path.against) = Directory(path.by[1])

LEMMA ServiceDictMeans ==
    ASSUME ConfOK, NEW waiting, Calls(waiting)
    PROVE  /\ Own(conf, waiting) \in Seq(Nodes)
           /\ Exactly(conf, service_dict(waiting), Own(conf, waiting))
<1>1. /\ Len(waiting) \in Nat \ {0} /\ waiting[1] \in DOMAIN conf
      /\ waiting[Len(waiting)] \in DOMAIN conf /\ DOMAIN conf \subseteq Nodes
  BY CallsAre, ConfType
<1>2. CASE Len(waiting) = 1 /\ HasOverride(waiting[1][2])
  <2> DEFINE o == OverrideOf(waiting[1][2])
             m == waiting[1]
  <2>1. o \in DOMAIN conf /\ m \in DOMAIN conf /\ o \in Nodes /\ m \in Nodes
    BY <1>1, <1>2 DEF HasOverride
  <2>2. Own(conf, waiting) = <<o, m>>
    BY <1>2 DEF Own, HasOverride
  <2>3. service_dict(waiting) = merge_service_dicts(Written(m), Written(o))
    BY <1>2, ServiceDictIs
  <2> HIDE DEF o, m
  <2>4. <<o>> \o <<m>> = <<o, m>> /\ <<o>> \in Seq(Nodes) /\ <<m>> \in Seq(Nodes)
        /\ <<o, m>> \in Seq(Nodes)
    <3>1. /\ <<o>> \in Seq(Nodes) /\ <<m>> \in Seq(Nodes) /\ <<o, m>> \in Seq(Nodes)
          /\ Len(<<o>>) = 1 /\ Len(<<m>>) = 1 /\ <<o>>[1] = o /\ <<m>>[1] = m
      BY <2>1
    <3>2. PICK u \in Seq(Nodes) : u = <<o>> \o <<m>>
      BY <3>1, ConcatIs
    <3>3. Len(u) = 2 /\ u[1] = o /\ u[1 + 1] = m
      BY <3>1, <3>2, ConcatIs
    <3>4. u = <<o, m>>
      BY <3>3
    <3> QED  BY <3>1, <3>2, <3>4
  <2>5. /\ Written(m) \in Dict /\ Written(o) \in Dict
        /\ Exactly(conf, Written(m), <<m>>) /\ Exactly(conf, Written(o), <<o>>)
    BY <2>1, WrittenType, WrittenMeans
  <2>6. Exactly(conf, merge_service_dicts(Written(m), Written(o)), <<o>> \o <<m>>)
    BY <2>4, <2>5, MergeMeans DEF Exactly
  <2> QED  BY <2>2, <2>3, <2>4, <2>6
<1>3. CASE ~(Len(waiting) = 1 /\ HasOverride(waiting[1][2]))
  <2>1. Own(conf, waiting) = <<waiting[Len(waiting)]>>
    BY <1>3 DEF Own, HasOverride
  <2>2. service_dict(waiting) = Written(waiting[Len(waiting)])
    BY <1>3, ServiceDictIs
  <2> QED  BY <1>1, <2>1, <2>2, WrittenMeans
<1> QED  BY <1>2, <1>3

\* A path that is not resolved yet is of the file it will be resolved against.
LEMMA OwnPaths ==
    ASSUME ConfOK, NEW waiting, Calls(waiting)
    PROVE  LET d == service_dict(waiting)
               near(path) == path.by # None => Directory(waiting[Len(waiting)][1])
                                                 = Directory(path.by[1])
           IN near(d.build) /\ near(d.volumes)
<1>1. /\ Len(waiting) \in Nat \ {0} /\ waiting[1] \in DOMAIN conf /\ waiting[1][1] = Main
      /\ waiting[Len(waiting)] \in DOMAIN conf
  BY CallsAre DEF Calls
<1>2. \A n : /\ Written(n).build.by \in {n, None} /\ Written(n).volumes.by \in {n, None}
  BY DEF Written
<1>3. CASE Len(waiting) = 1 /\ HasOverride(waiting[1][2])
  <2> DEFINE o == OverrideOf(waiting[1][2])
             m == waiting[1]
  <2>1. service_dict(waiting) = merge_service_dicts(Written(m), Written(o))
    BY <1>3, ServiceDictIs
  <2>2. Directory(m[1]) = Main /\ Directory(o[1]) = Main
    BY <1>1 DEF Directory, OverrideOf
  <2> HIDE DEF o, m
  <2>3. /\ service_dict(waiting).build \in {Written(m).build, Written(o).build}
        /\ service_dict(waiting).volumes \in {Written(m).volumes, Written(o).volumes}
    BY <2>1 DEF merge_service_dicts, Prefer
  <2>4. /\ service_dict(waiting).build.by \in {m, o, None}
        /\ service_dict(waiting).volumes.by \in {m, o, None}
    BY <1>2, <2>3
  <2> QED  BY <1>3, <2>2, <2>4 DEF m
<1>4. CASE ~(Len(waiting) = 1 /\ HasOverride(waiting[1][2]))
  <2>1. service_dict(waiting) = Written(waiting[Len(waiting)])
    BY <1>4, ServiceDictIs
  <2> QED  BY <1>2, <2>1
<1> QED  BY <1>3, <1>4

LEMMA ResolveMeans ==
    ASSUME NEW d \in Dict, NEW W, Exactly(conf, d, W)
    PROVE  Means(conf, resolve_environment(d), W)
<1> DEFINE e == resolve_environment(d)
<1>1. /\ e.build = d.build /\ e.volumes = d.volumes /\ e.image = d.image /\ e.ports = d.ports
      /\ e.environment = Prefer(d.environment, d.env_file, None)
  BY EnvironmentType
<1> HIDE DEF e
<1>2. \E n : FirstOf(n, W, WithEnvironment(conf)) /\ (n # None => e.environment = n)
  BY <1>1 DEF Exactly, Prefer
<1>3. Means(conf, e, W)
  BY <1>1, <1>2 DEF Exactly, Means
<1> QED  BY <1>3 DEF e

\* Resolving the paths changes nothing else, and leaves every path next to its
\* file that was, or that comes from the file it is resolved against.
LEMMA ProcessMeans ==
    ASSUME NEW d \in Dict, NEW file \in Files, NEW W, Means(conf, d, W)
    PROVE  Means(conf, process_container_options(d, file), W)
<1> DEFINE e == process_container_options(d, file)
<1>1. /\ e.image = d.image /\ e.ports = d.ports /\ e.environment = d.environment
      /\ e.build = (IF d.build.by # None /\ d.build.against = None
                    THEN [d.build EXCEPT !.against = file] ELSE d.build)
      /\ e.volumes = (IF d.volumes.by # None /\ d.volumes.against = None
                      THEN [d.volumes EXCEPT !.against = file] ELSE d.volumes)
  BY ProcessType
<1>2. d.build \in Path /\ d.volumes \in Path
  BY DEF Dict
<1> HIDE DEF e
<1>3. /\ e.build.by = d.build.by /\ e.volumes.by = d.volumes.by
      /\ e.build.by = None => e.build = d.build
      /\ e.volumes.by = None => e.volumes = d.volumes
  BY <1>1, <1>2 DEF Path
<1>4. Means(conf, e, W)
  BY <1>1, <1>3 DEF Means
<1> QED  BY <1>4 DEF e

LEMMA ProcessNear ==
    ASSUME NEW d \in Dict, NEW file \in Files,
           \A path \in {d.build, d.volumes} :
              path.by # None => IF path.against = None
                                THEN Directory(file) = Directory(path.by[1])
                                ELSE Near(path)
    PROVE  LET e == process_container_options(d, file) IN Near(e.build) /\ Near(e.volumes)
<1> DEFINE e == process_container_options(d, file)
<1>1. /\ e.build = (IF d.build.by # None /\ d.build.against = None
                    THEN [d.build EXCEPT !.against = file] ELSE d.build)
      /\ e.volumes = (IF d.volumes.by # None /\ d.volumes.against = None
                      THEN [d.volumes EXCEPT !.against = file] ELSE d.volumes)
  BY ProcessType
<1> HIDE DEF e
<1>2. \A path \in {d.build, d.volumes} :
         Near(IF path.by # None /\ path.against = None
              THEN [path EXCEPT !.against = file] ELSE path)
  <2> SUFFICES ASSUME NEW path \in {d.build, d.volumes}
               PROVE  Near(IF path.by # None /\ path.against = None
                           THEN [path EXCEPT !.against = file] ELSE path)
    OBVIOUS
  <2>1. path \in Path
    BY DEF Dict
  <2>2. CASE path.by # None /\ path.against = None
    <3>1. [path EXCEPT !.against = file].by = path.by
          /\ [path EXCEPT !.against = file].against = file
      BY <2>1 DEF Path
    <3> QED  BY <2>2, <3>1 DEF Near
  <2>3. CASE ~(path.by # None /\ path.against = None)
    BY <2>3 DEF Near
  <2> QED  BY <2>2, <2>3
<1> QED  BY <1>1, <1>2 DEF e

\* A dictionary that is returned says what the definitions from the call that
\* waits to the end of the chain say; a loaded service, what all of them do.
DictOK(K, waiting, d) ==
    /\ \E c, n : /\ Chained(K, c, waiting[1][2], n) /\ Len(waiting) <= n
                 /\ \A i \in 1 .. Len(waiting) : c[i] = waiting[i]
                 /\ Means(K, d, Own(K, waiting) \o SubSeq(c, Len(waiting) + 1, n))
    /\ Near(d.build) /\ Near(d.volumes)
Through(K, name, c) ==
    IF OverrideOf(name) \in DOMAIN K THEN <<OverrideOf(name)>> \o c ELSE c
LoadedOK(K, name, d) ==
    /\ \E c, n : Chained(K, c, name, n) /\ Means(K, d, Through(K, name, c))
    /\ SchemaAllows(d) /\ Near(d.build) /\ Near(d.volumes)

WrittenOK ==
    /\ dict # None => DictOK(conf, calls, dict)
    /\ \A name \in DOMAIN loaded : LoadedOK(conf, name, loaded[name])

LEMMA ReadAsWritten ==
    LoadOK /\ ChainOK /\ WrittenOK /\ make_service_dict => WrittenOK'
<1> SUFFICES ASSUME LoadOK, ChainOK, WrittenOK, make_service_dict PROVE WrittenOK'
  OBVIOUS
<1>1. /\ UNCHANGED <<conf, calls, loaded>> /\ ConfOK /\ Calls(calls) /\ calls # <<>>
      /\ ExtendsOf(calls) = None
      /\ dict' = process_container_options(resolve_environment(service_dict(calls)), Top[1])
  BY DEF make_service_dict, LoadOK
<1>2. PICK n \in Nat \ {0} : n = Len(calls)
  BY <1>1, CallsAre
<1>3. Chained(conf, calls, calls[1][2], n)
  <2>1. calls \in Seq(DOMAIN conf) /\ calls[1] = <<Main, calls[1][2]>>
    BY <1>1, CallsAre DEF Calls
  <2>2. /\ n \in 1 .. RecursionLimit
        /\ \A i \in 1 .. n - 1 : calls[i + 1] = Extends(calls, i)
    BY <1>1, <1>2, LimitAssumption DEF ChainOK
  <2>3. Extends(calls, n) \notin DOMAIN conf
    BY <1>1, <1>2, ExtendsOfIs, ConfType, NoneIsNoNode
  <2> QED  BY <1>2, <2>1, <2>2, <2>3, ExtendsSame DEF Chained
<1> DEFINE sd == service_dict(calls)
           d == resolve_environment(sd)
           W == Own(conf, calls)
<1>4. /\ sd \in Dict /\ sd.build.against = None /\ sd.volumes.against = None
      /\ W \in Seq(Nodes) /\ Exactly(conf, sd, W)
  BY <1>1, ServiceDictType, ServiceDictMeans
<1>5. /\ sd.build.by # None => Directory(Top[1]) = Directory(sd.build.by[1])
      /\ sd.volumes.by # None => Directory(Top[1]) = Directory(sd.volumes.by[1])
  BY <1>1, OwnPaths DEF Top
<1>6. Top[1] \in Files
  BY <1>1, CallsAre, ConfType DEF Top, Nodes
<1> HIDE DEF sd, W
<1>7. d \in Dict /\ Means(conf, d, W) /\ d.build = sd.build /\ d.volumes = sd.volumes
  BY <1>4, EnvironmentType, ResolveMeans
<1> HIDE DEF d
<1>8. dict' = process_container_options(d, Top[1])
  BY <1>1 DEF d, sd
<1>9. Means(conf, dict', W) /\ Near(dict'.build) /\ Near(dict'.volumes)
  <2>1. Means(conf, dict', W)
    BY <1>6, <1>7, <1>8, ProcessMeans
  <2>2. \A path \in {d.build, d.volumes} :
           path.by # None => IF path.against = None
                             THEN Directory(Top[1]) = Directory(path.by[1])
                             ELSE Near(path)
    BY <1>4, <1>5, <1>7
  <2>3. /\ Near(process_container_options(d, Top[1]).build)
        /\ Near(process_container_options(d, Top[1]).volumes)
    BY <1>6, <1>7, <2>2, ProcessNear
  <2> QED  BY <1>8, <2>1, <2>3
<1>10. W \o SubSeq(calls, n + 1, n) = W
  <2>1. SubSeq(calls, n + 1, n) = <<>>
    BY SubSeqEmpty
  <2> QED  BY <1>4, <2>1, ConcatEmptySeq
<1>11. DictOK(conf, calls, dict')
  <2>1. Means(conf, dict', Own(conf, calls) \o SubSeq(calls, n + 1, n))
    BY <1>9, <1>10 DEF W
  <2> SUFFICES \E c, k : /\ Chained(conf, c, calls[1][2], k) /\ Len(calls) <= k
                         /\ \A i \in 1 .. Len(calls) : c[i] = calls[i]
                         /\ Means(conf, dict', Own(conf, calls)
                                               \o SubSeq(c, Len(calls) + 1, k))
    BY <1>9 DEF DictOK
  <2>2. Len(calls) <= n /\ Len(calls) = n
    BY <1>2
  <2>3. Means(conf, dict', Own(conf, calls) \o SubSeq(calls, Len(calls) + 1, n))
    BY <2>1, <2>2
  <2> QED  BY <1>3, <2>2, <2>3
<1> QED  BY <1>1, <1>11 DEF WrittenOK

LEMMA ReturnedAsWritten == LoadOK /\ WrittenOK /\ return_dict => WrittenOK'
<1> SUFFICES ASSUME LoadOK, WrittenOK, return_dict PROVE WrittenOK'
  OBVIOUS
<1>1. /\ UNCHANGED conf /\ ConfOK /\ Calls(calls) /\ calls # <<>> /\ dict # None
      /\ DictIn(dict, FilesOf) /\ DictOK(conf, calls, dict)
  BY DEF return_dict, LoadOK, WrittenOK
<1>2. PICK m \in Nat \ {0} : m = Len(calls)
  BY <1>1, CallsAre
<1>3. PICK c, n :
         /\ Chained(conf, c, calls[1][2], n) /\ m <= n
         /\ \A i \in 1 .. m : c[i] = calls[i]
         /\ Means(conf, dict, Own(conf, calls) \o SubSeq(c, m + 1, n))
  BY <1>1, <1>2 DEF DictOK
<1>4. /\ n \in Nat /\ c \in Seq(DOMAIN conf) /\ Len(c) = n /\ c[1] = calls[1]
      /\ DOMAIN conf \subseteq Nodes /\ c \in Seq(Nodes)
  BY <1>1, <1>2, <1>3, ConfType, LimitAssumption DEF Chained
<1>5. \A i \in 1 .. n : SubSeq(c, i, n) = <<c[i]>> \o SubSeq(c, i + 1, n)
  BY <1>4, SubSeqRecursiveFirst
<1>6. ASSUME LoadEnds("refused") PROVE WrittenOK'
  BY <1>1, <1>6 DEF LoadEnds, WrittenOK
<1>7. ASSUME m = 1, SchemaAllows(dict), dict' = None,
             loaded' = [k \in DOMAIN loaded \cup {Top[2]} |->
                          IF k = Top[2] THEN dict ELSE loaded[k]]
      PROVE  WrittenOK'
  <2> DEFINE name == calls[1][2]
             rest == SubSeq(c, 2, n)
  <2>1. Top[2] = name /\ DOMAIN loaded' = DOMAIN loaded \cup {name}
    BY <1>2, <1>7 DEF Top
  <2>2. \A k \in DOMAIN loaded' : loaded'[k] = IF k = name THEN dict ELSE loaded[k]
    BY <1>7, <2>1
  <2>3. c = <<c[1]>> \o rest /\ rest \in Seq(Nodes)
    <3>1. SubSeq(c, 1, n) = c
      BY <1>4, SubSeqFull
    <3>2. SubSeq(c, 1, n) = <<c[1]>> \o SubSeq(c, 2, n)
      BY <1>2, <1>3, <1>4, <1>5
    <3>3. \A i \in 2 .. n : c[i] \in Nodes
      BY <1>4
    <3>4. rest \in Seq(Nodes)
      BY <1>4, <3>3, SubSeqProperties
    <3> QED  BY <3>1, <3>2, <3>4
  <2>4. c[1] \in Nodes /\ OverrideOf(name) \in DOMAIN conf => OverrideOf(name) \in Nodes
    BY <1>2, <1>3, <1>4
  <2>5. Own(conf, calls) \o rest = Through(conf, name, c)
    <3> HIDE DEF rest
    <3>1. CASE OverrideOf(name) \in DOMAIN conf
      <4> DEFINE o == OverrideOf(name)
      <4>1. Own(conf, calls) = <<o, c[1]>> /\ Through(conf, name, c) = <<o>> \o c
        BY <1>2, <1>4, <1>7, <3>1 DEF Own, Through
      <4> HIDE DEF o
      <4>2. <<o, c[1]>> = <<o>> \o <<c[1]>>
        OBVIOUS
      <4>3. <<o>> \in Seq(Nodes) /\ <<c[1]>> \in Seq(Nodes)
        BY <1>2, <1>3, <1>4, <3>1 DEF o
      <4>4. (<<o>> \o <<c[1]>>) \o rest = <<o>> \o (<<c[1]>> \o rest)
        BY <2>3, <4>3, ConcatAssociative
      <4> QED  BY <2>3, <4>1, <4>2, <4>4
    <3>2. CASE OverrideOf(name) \notin DOMAIN conf
      <4>1. Own(conf, calls) = <<c[1]>> /\ Through(conf, name, c) = c
        BY <1>2, <1>4, <1>7, <3>2 DEF Own, Through
      <4> QED  BY <2>3, <4>1
    <3> QED  BY <3>1, <3>2
  <2>6. LoadedOK(conf, name, dict)
    <3>1. Means(conf, dict, Own(conf, calls) \o rest)
      <4>1. m + 1 = 2
        BY <1>7
      <4> QED  BY <1>3, <4>1
    <3>2. Means(conf, dict, Through(conf, name, c))
      <4> HIDE DEF rest, name
      <4> QED  BY <2>5, <3>1
    <3> QED  BY <1>1, <1>3, <1>7, <3>2 DEF LoadedOK, DictOK
  <2>7. \A k \in DOMAIN loaded' : LoadedOK(conf, k, loaded'[k])
    BY <2>1, <2>2, <2>6 DEF WrittenOK
  <2> QED  BY <1>1, <1>7, <2>7 DEF WrittenOK
<1>8. ASSUME m # 1, UNCHANGED loaded,
             LET below == SubSeq(calls, 1, Len(calls) - 1) IN
             /\ calls' = below
             /\ dict' = process_container_options(
                           merge_service_dicts(dict, service_dict(below)),
                           below[Len(below)][1])
      PROVE  WrittenOK'
  <2> DEFINE below == SubSeq(calls, 1, Len(calls) - 1)
             sd == service_dict(below)
             file == below[Len(below)][1]
             V == Own(conf, below)
             W == SubSeq(c, m, n)
  <2>1. /\ Calls(below) /\ Len(below) = m - 1 /\ m - 1 \in Nat \ {0}
        /\ \A i \in 1 .. m - 1 : below[i] = calls[i]
    <3>1. calls \in Seq(DOMAIN conf) /\ calls[1][1] = Main /\ m - 1 \in Nat \ {0}
      BY <1>1, <1>2, <1>8 DEF Calls
    <3>2. /\ below \in Seq(DOMAIN conf) /\ Len(below) = m - 1
          /\ \A i \in 1 .. m - 1 : below[i] = calls[i]
      BY <1>1, <1>2, <3>1, AllButLast
    <3>3. below # <<>> /\ below[1] = calls[1]
      <4> HIDE DEF below
      <4> QED  BY <3>1, <3>2
    <3> QED  BY <3>1, <3>2, <3>3 DEF Calls
  <2>2. file \in Files
    <3>1. below[Len(below)] \in Nodes
      BY <1>1, <2>1, CallsAre, ConfType
    <3> HIDE DEF below
    <3> QED  BY <3>1 DEF Nodes
  <2>3. calls' = below /\ dict' = process_container_options(merge_service_dicts(dict, sd), file)
    BY <1>8
  <2> HIDE DEF below
  <2>4. /\ sd \in Dict /\ sd.build.against = None /\ sd.volumes.against = None
        /\ V \in Seq(Nodes) /\ Exactly(conf, sd, V)
        /\ sd.build.by # None => Directory(file) = Directory(sd.build.by[1])
        /\ sd.volumes.by # None => Directory(file) = Directory(sd.volumes.by[1])
    BY <1>1, <2>1, ServiceDictType, ServiceDictMeans, OwnPaths
  <2> HIDE DEF sd, V, file
  <2>5. Means(conf, dict, W) /\ W \in Seq(Nodes)
    <3>1. Own(conf, calls) = <<c[m]>>
      BY <1>2, <1>3, <1>8 DEF Own
    <3>2. W = <<c[m]>> \o SubSeq(c, m + 1, n)
      BY <1>2, <1>3, <1>4, <1>5
    <3>3. \A i \in m .. n : c[i] \in Nodes
      BY <1>2, <1>4
    <3>4. W \in Seq(Nodes)
      BY <1>2, <1>4, <3>3, SubSeqProperties
    <3> QED  BY <1>3, <3>1, <3>2, <3>4
  <2> DEFINE d == merge_service_dicts(dict, sd)
  <2>6. dict \in Dict /\ d \in Dict
    BY <1>1, <2>4, MergeType DEF DictIn
  <2>7. Means(conf, d, V \o W)
    BY <2>4, <2>5, <2>6, MergeMeans
  <2>8. /\ d.build \in {sd.build, dict.build} /\ d.volumes \in {sd.volumes, dict.volumes}
    BY DEF merge_service_dicts, Prefer
  <2>9. \A path \in {d.build, d.volumes} :
           path.by # None => IF path.against = None
                             THEN Directory(file) = Directory(path.by[1])
                             ELSE Near(path)
    <3>1. \A path \in {dict.build, dict.volumes} :
             path.by # None => path.against # None /\ Near(path)
      <4>1. None \notin FilesOf
        BY <1>1, ConfType, MainAssumption DEF None
      <4> QED  BY <1>1, <4>1 DEF DictOK, DictIn, Resolved
    <3> HIDE DEF d
    <3> QED  BY <2>4, <2>8, <3>1
  <2> HIDE DEF d
  <2>10. dict' = process_container_options(d, file)
    BY <2>3 DEF d
  <2>11. Means(conf, dict', V \o W) /\ Near(dict'.build) /\ Near(dict'.volumes)
    BY <2>2, <2>6, <2>7, <2>9, <2>10, ProcessMeans, ProcessNear
  <2>12. DictOK(conf, below, dict')
    <3>1. Len(below) + 1 = m /\ Len(below) <= n /\ below[1] = c[1]
      BY <1>2, <1>3, <1>4, <2>1
    <3>2. \A i \in 1 .. Len(below) : c[i] = below[i]
      BY <1>2, <1>3, <2>1
    <3>3. Chained(conf, c, below[1][2], n)
      BY <1>3, <1>4, <3>1
    <3> QED  BY <2>11, <3>1, <3>2, <3>3 DEF DictOK, V
  <2> QED  BY <1>1, <1>8, <2>3, <2>12 DEF WrittenOK
<1> QED  BY <1>2, <1>6, <1>7, <1>8 DEF return_dict

LEMMA WrittenOKNext == LoadOK /\ ChainOK /\ WrittenOK /\ [Next]_pvars => WrittenOK'
<1> SUFFICES ASSUME LoadOK, ChainOK, WrittenOK, [Next]_pvars PROVE WrittenOK'
  OBVIOUS
<1>1. ASSUME UNCHANGED <<conf, loaded>>, dict' = None PROVE WrittenOK'
  BY <1>1 DEF WrittenOK
<1>2. ASSUME UNCHANGED <<conf, calls, dict, loaded>> PROVE WrittenOK'
  BY <1>2 DEF WrittenOK
<1>3. CASE load_service
  <2>1. dict = None
    BY <1>3 DEF load_service, LoadOK
  <2> QED  BY <1>1, <1>3, <2>1 DEF load_service
<1>4. CASE resolve_extends
  <2>1. UNCHANGED <<conf, loaded>> /\ dict' = None
    BY <1>4 DEF resolve_extends, LoadEnds
  <2> QED  BY <1>1, <2>1
<1>5. CASE make_service_dict \/ return_dict
  BY <1>5, ReadAsWritten, ReturnedAsWritten
<1>6. CASE Sort \/ up
  BY <1>2, <1>6, Stages
<1>7. CASE UNCHANGED lvars
  BY <1>2, <1>7 DEF lvars
<1> QED  BY <1>3, <1>4, <1>5, <1>6, <1>7 DEF Next, Load, Terminated, pvars

LEMMA WrittenIsLoaded == LoadOK /\ WrittenOK => LoadedAsWritten
<1> SUFFICES ASSUME LoadOK, WrittenOK, NEW name \in DOMAIN loaded
             PROVE  LET d == loaded[name]
                        W == Writers(name)
                        ports == Where(W, WithPorts(conf))
                    IN /\ d.image # None => d.image = Nearest(W, ImageOrBuild(conf))
                       /\ d.build.by # None => d.build.by = Nearest(W, ImageOrBuild(conf))
                       /\ d.image # None \/ d.build.by # None
                       /\ d.volumes.by = Nearest(W, WithVolumes(conf))
                       /\ Near(d.build) /\ Near(d.volumes)
                       /\ Nearest(W, WithEnvironment(conf)) # None =>
                             d.environment = Nearest(W, WithEnvironment(conf))
                       /\ Len(d.ports) = Cardinality(ports)
                       /\ \A i \in ports :
                             d.ports[Cardinality({j \in ports : i <= j})] = W[i]
  BY DEF LoadedAsWritten, ImageOrBuild, WithPorts, WithVolumes, WithEnvironment, Near
<1> DEFINE W == Writers(name)
<1>1. PICK d : d = loaded[name]
  OBVIOUS
<1>2. d \in Dict /\ LoadedOK(conf, name, d) /\ ConfOK
  BY <1>1 DEF LoadOK, WrittenOK, DictIn
<1>3. PICK c, n : Chained(conf, c, name, n) /\ Means(conf, d, Through(conf, name, c))
  BY <1>2 DEF LoadedOK
<1>4. W = Through(conf, name, c) /\ W \in Seq(Nodes)
  <2>1. Chain(name) = c
    BY <1>2, <1>3, ChainIs
  <2>2. c \in Seq(Nodes)
    BY <1>2, <1>3, ConfType DEF Chained
  <2>3. W = Through(conf, name, c)
    BY <2>1 DEF Writers, Through, OverrideOf
  <2>4. OverrideOf(name) \in DOMAIN conf => <<OverrideOf(name)>> \o c \in Seq(Nodes)
    BY <1>2, <2>2, ConfType
  <2> QED  BY <2>2, <2>3, <2>4 DEF Through
<1> HIDE DEF W
<1>5. Means(conf, d, W)
  BY <1>3, <1>4
<1>6. /\ d.image # None => d.image = Nearest(W, ImageOrBuild(conf))
      /\ d.build.by # None => d.build.by = Nearest(W, ImageOrBuild(conf))
  <2>1. PICK k : /\ FirstOf(k, W, ImageOrBuild(conf))
                 /\ d.image # None => d.image = k
                 /\ d.build.by # None => d.build.by = k
    BY <1>5 DEF Means
  <2> QED  BY <1>4, <2>1, NearestIs
<1>7. d.volumes.by = Nearest(W, WithVolumes(conf))
  <2>1. FirstOf(d.volumes.by, W, WithVolumes(conf))
    BY <1>5 DEF Means
  <2> QED  BY <1>4, <2>1, NearestIs
<1>8. Nearest(W, WithEnvironment(conf)) # None =>
         d.environment = Nearest(W, WithEnvironment(conf))
  <2>1. PICK k : FirstOf(k, W, WithEnvironment(conf)) /\ (k # None => d.environment = k)
    BY <1>5 DEF Means
  <2> QED  BY <1>4, <2>1, NearestIs
<1>9. LET ports == Where(W, WithPorts(conf))
      IN /\ Len(d.ports) = Cardinality(ports)
         /\ \A i \in ports : d.ports[Cardinality({j \in ports : i <= j})] = W[i]
  <2>1. PortsAre(WithPorts(conf), d.ports, W) /\ d.ports \in Seq(Nodes)
    BY <1>2, <1>5 DEF Means, Dict
  <2>2. PICK S, p : S = WithPorts(conf) /\ p = d.ports
    OBVIOUS
  <2>3. PortsAre(S, p, W) /\ p \in Seq(Nodes)
    BY <2>1, <2>2
  <2>4. LET ports == Where(W, S)
        IN /\ Len(p) = Cardinality(ports)
           /\ \A i \in ports : p[Cardinality({j \in ports : i <= j})] = W[i]
    BY <1>4, <2>3, PortsCounted
  <2> QED  BY <2>2, <2>4
<1>10. (d.image # None \/ d.build.by # None) /\ Near(d.build) /\ Near(d.volumes)
  BY <1>2 DEF LoadedOK, SchemaAllows
<1> QED  BY <1>1, <1>6, <1>7, <1>8, <1>9, <1>10 DEF W

\* A loaded service is what its definition, the override file and the chain of
\* extends say: each value the nearest definition's, an image or a build
\* whichever is nearer, all the ports from the far end, paths relative to the
\* file they are written in.
THEOREM ReadAsItIsWritten == Spec => []LoadedAsWritten
<1>1. Init => WrittenOK
  BY DEF Init, WrittenOK
<1> QED  BY <1>1, LoadOKInit, LoadOKNext, ChainOKInit, ChainOKNext, WrittenOKNext,
            WrittenIsLoaded, PTL DEF Spec
===============================================================================
