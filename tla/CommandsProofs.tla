--------------------------- MODULE CommandsProofs ---------------------------
(***************************************************************************)
(* What the commands on a service promise however they overlap: for any    *)
(* number of commands and ups, any containers the service may begin with,  *)
(* any refusals and deaths.                                                *)
(*                                                                         *)
(* HalfMadeInv: whatever has been created and not started is in the hands  *)
(* of somebody who starts it with his next call, unless something has gone *)
(* wrong; that never becomes untrue again, for what went wrong stays in    *)
(* the answers (CommandStaysWrong, UpStaysWrong).                          *)
(*                                                                         *)
(* The other two are about commands and ups given in turns (OneAtATime).   *)
(* VolumesInv: the containers with the volumes have the least number, so a *)
(* command that chooses by number comes to them last; there is one without *)
(* the volumes only after an up failed when it had renamed a container;    *)
(* and whoever is at work keeps one of the first (UpKeeps, CommandKeeps).  *)
(* ScalesInv: how many run, with those still to be started, created or     *)
(* stopped, is what the scale was asked for (Counts).                      *)
(***************************************************************************)
EXTENDS Commands, ConvergenceProofs, FiniteSetTheorems

CommandsTyped == CommandsTypeOK /\ Indices

OneOff == [number : Nat, started : BOOLEAN]

LEMMA TypedToo == CommandsTyped => Typed
BY DEF CommandsTyped, CommandsTypeOK, Typed

LEMMA CommandLocals == CommandsTyped => \A c \in Clients :
                           /\ cmd[c] \in Command
                           /\ cmd[c].pc # "start_one_off" =>
                                 /\ cmd[c].todo \subseteq DOMAIN containers
                                 /\ cmd[c].made \subseteq DOMAIN containers
BY DEF CommandsTyped, CommandsTypeOK

\* Any set of containers that were created is finite.
LEMMA FinitelyMany ==
    ASSUME TypeOK, NEW S \in SUBSET DOMAIN containers
    PROVE  IsFiniteSet(S) /\ Cardinality(S) \in Nat
<1>1. Len(containers) \in Nat /\ DOMAIN containers = 1 .. Len(containers)
  BY DEF TypeOK
<1>2. IsFiniteSet(1 .. Len(containers))
  BY <1>1, FS_Interval
<1> QED BY <1>1, <1>2, FS_Subset, FS_CardinalityType

\* A command changes containers only where they are, or adds to them.
LEMMA TypedWithMore ==
    ASSUME Typed, UNCHANGED <<image, up>>, containers' \in Seq(Container),
           DOMAIN containers \subseteq DOMAIN containers'
    PROVE  Typed'
<1>1. image' \in 1 .. Images /\ up' \in [Ups -> Up]
  BY DEF Typed, TypeOK
<1>2. \A r \in Ups : up'[r].todo \subseteq DOMAIN containers'
  BY DEF Typed, TypeOK
<1>3. Indices'
  BY DEF Typed, Indices
<1> QED BY <1>1, <1>2, <1>3 DEF Typed, TypeOK

LEMMA CommandsTypedAfter ==
    ASSUME CommandsTyped, Typed', DOMAIN containers \subseteq DOMAIN containers',
           UNCHANGED <<overlap>>, oneOffs' \in Seq(OneOff),
           NEW c \in Clients, NEW u \in Command, cmd' = [cmd EXCEPT ![c] = u],
           u.pc # "start_one_off" =>
              u.todo \subseteq DOMAIN containers' /\ u.made \subseteq DOMAIN containers'
    PROVE  CommandsTyped'
<1>1. cmd' \in [Clients -> Command]
  BY DEF CommandsTyped, CommandsTypeOK
<1>2. cmd'[c] = u /\ \A d \in Clients : d # c => cmd'[d] = cmd[d]
  BY DEF CommandsTyped, CommandsTypeOK
<1>3. ASSUME NEW d \in Clients, cmd'[d].pc # "start_one_off"
      PROVE  cmd'[d].todo \cup cmd'[d].made \subseteq DOMAIN containers'
  <2>1. CASE d = c
    BY <1>2, <1>3, <2>1
  <2>2. CASE d # c
    BY <1>2, <1>3, <2>2, CommandLocals
  <2> QED BY <2>1, <2>2
<1> QED BY <1>1, <1>3 DEF CommandsTyped, CommandsTypeOK, Typed, OneOff

\* Where a command is when it has ended.
Ended(c, result) ==
    [cmd[c] EXCEPT !.pc = "done", !.result = result, !.todo = {}, !.numbers = {},
                   !.made = {}, !.desired = 0, !.running = 0]

LEMMA EndedIs ==
    ASSUME CommandsTyped, NEW c \in Clients, NEW result \in {"ok", "refused", "failed"}
    PROVE  /\ Ended(c, result) \in Command
           /\ Ended(c, result).pc = "done" /\ Ended(c, result).result = result
           /\ Ended(c, result).todo = {} /\ Ended(c, result).made = {}
           /\ Ended(c, result).errors = cmd[c].errors
<1>1. cmd[c] \in Command
  BY CommandLocals
<1> QED BY <1>1 DEF Ended, Command

LEMMA CmdEndIs ==
    ASSUME CommandsTyped, NEW c \in Clients, NEW result, CmdEnd(c, result)
    PROVE  cmd' = [cmd EXCEPT ![c] = Ended(c, result)]
BY DEF CmdEnd, Ended

LEMMA CmdEndIsTyped ==
    ASSUME CommandsTyped, Typed', DOMAIN containers \subseteq DOMAIN containers',
           UNCHANGED <<overlap>>, oneOffs' \in Seq(OneOff),
           NEW c \in Clients, NEW result \in {"ok", "refused", "failed"}, CmdEnd(c, result)
    PROVE  CommandsTyped'
BY EndedIs, CmdEndIs, CommandsTypedAfter

\* A command reads, and goes on or ends.
LEMMA UnchangedIsTyped ==
    ASSUME CommandsTyped, UNCHANGED vars
    PROVE  Typed'
BY TypedToo DEF vars, Typed, TypeOK, Indices

LEMMA ListedIs ==
    ASSUME NEW kind \in Eachs
    PROVE  Listed(kind) \subseteq Existing
BY DEF Listed, Eachs, RunningOnes

\* The types, step by step.
LEMMA ForEachIsTyped ==
    ASSUME CommandsTyped, NEW c \in Clients, NEW kind \in Eachs, for_each(c, kind)
    PROVE  CommandsTyped'
<1>1. /\ Typed' /\ UNCHANGED <<overlap, oneOffs, containers>>
      /\ oneOffs \in Seq(OneOff)
  BY UnchangedIsTyped DEF for_each, vars, CommandsTyped, CommandsTypeOK, OneOff
<1>2. CASE CmdEnd(c, "ok")
  BY <1>1, <1>2, CmdEndIsTyped
<1>3. CASE ~CmdEnd(c, "ok")
  <2> DEFINE u == [cmd[c] EXCEPT !.pc = kind, !.todo = Listed(kind)]
  <2>1. cmd' = [cmd EXCEPT ![c] = u] /\ cmd[c].pc = "idle"
    BY <1>3 DEF for_each
  <2>2. Listed(kind) \subseteq DOMAIN containers /\ DOMAIN containers \subseteq Nat
    BY ListedIs, TypedToo, ExistingAre
  <2>3. u \in Command /\ u.todo = Listed(kind) /\ u.made = cmd[c].made
    BY <2>2, CommandLocals DEF Command
  <2> HIDE DEF u
  <2>4. cmd[c].made \subseteq DOMAIN containers
    BY <2>1, CommandLocals
  <2> QED BY <1>1, <2>1, <2>2, <2>3, <2>4, CommandsTypedAfter
<1> QED BY <1>2, <1>3

\* What changes the status of a container changes nothing of its type.
LEMMA CallKeepsTypes ==
    ASSUME CommandsTyped, UNCHANGED <<image, up>>,
           \/ UNCHANGED containers
           \/ \E k \in DOMAIN containers, s \in Statuses : Set(k, "status", s)
    PROVE  Typed' /\ DOMAIN containers' = DOMAIN containers
<1>1. Typed /\ containers \in Seq(Container)
  BY TypedToo DEF Typed, TypeOK
<1>2. containers' \in Seq(Container) /\ DOMAIN containers' = DOMAIN containers
  BY <1>1, SetStatus
<1> QED BY <1>1, <1>2, TypedWithMore

LEMMA OneOfThemIsTyped ==
    ASSUME CommandsTyped, NEW c \in Clients, one_of_them(c)
    PROVE  CommandsTyped'
<1> DEFINE kind == cmd[c].pc
<1>1. PICK k \in cmd[c].todo :
          IF ~Accepts(kind, k) THEN CmdEnd(c, "refused") /\ UNCHANGED containers
          ELSE /\ IF kind = "start" /\ Running(k) THEN UNCHANGED containers
                  ELSE Set(k, "status", IF kind = "pause" THEN "paused" ELSE "running")
               /\ IF cmd[c].todo = {k} THEN CmdEnd(c, "ok")
                  ELSE cmd' = [cmd EXCEPT ![c].todo = @ \ {k}]
  BY DEF one_of_them
<1>2. /\ kind \in Eachs /\ k \in DOMAIN containers
      /\ UNCHANGED <<image, up, overlap, oneOffs>>
      /\ oneOffs \in Seq(OneOff)
  BY CommandLocals DEF one_of_them, Eachs, CommandsTyped, CommandsTypeOK, OneOff
<1>3. Typed' /\ DOMAIN containers' = DOMAIN containers
  BY <1>1, <1>2, CallKeepsTypes DEF Statuses
<1>4. CASE CmdEnd(c, "refused") \/ CmdEnd(c, "ok")
  BY <1>2, <1>3, <1>4, CmdEndIsTyped
<1>5. CASE ~CmdEnd(c, "refused") /\ ~CmdEnd(c, "ok")
  <2> DEFINE u == [cmd[c] EXCEPT !.todo = cmd[c].todo \ {k}]
  <2>1. cmd' = [cmd EXCEPT ![c] = u]
    BY <1>1, <1>5
  <2>2. u \in Command /\ u.todo \subseteq cmd[c].todo /\ u.made = cmd[c].made /\ u.pc = kind
    BY CommandLocals DEF Command
  <2> HIDE DEF u
  <2>3. u.todo \subseteq DOMAIN containers /\ u.made \subseteq DOMAIN containers
    BY <1>2, <2>2, CommandLocals DEF Eachs
  <2> QED BY <1>2, <1>3, <2>1, <2>2, <2>3, CommandsTypedAfter
<1> QED BY <1>4, <1>5

LEMMA ScaleIsTyped ==
    ASSUME CommandsTyped, NEW c \in Clients, NEW n \in Desired, scale(c, n)
    PROVE  CommandsTyped'
<1> DEFINE num == Cardinality(RunningOnes)
<1>1. /\ Typed' /\ UNCHANGED <<overlap, oneOffs, containers>>
      /\ oneOffs \in Seq(OneOff)
  BY UnchangedIsTyped DEF scale, vars, CommandsTyped, CommandsTypeOK, OneOff
<1>2. /\ RunningOnes \subseteq DOMAIN containers /\ DOMAIN containers \subseteq Nat
      /\ num \in Nat /\ n \in Nat
  <2>1. RunningOnes \subseteq DOMAIN containers
    BY TypedToo, ExistingAre DEF RunningOnes
  <2> QED BY <2>1, FinitelyMany, TypedToo, ExistingAre, DesiredAssumption
          DEF CommandsTyped, CommandsTypeOK
<1> HIDE DEF num
<1>3. cmd[c].pc = "idle" /\ cmd[c] \in Command /\ cmd[c].made \subseteq DOMAIN containers
      /\ cmd[c].todo \subseteq DOMAIN containers
  BY CommandLocals DEF scale
<1>4. CASE CmdEnd(c, "ok")
  BY <1>1, <1>4, CmdEndIsTyped
<1>5. CASE cmd' = [cmd EXCEPT ![c].pc = "list_stopped", ![c].desired = n, ![c].running = num]
  <2> DEFINE u == [cmd[c] EXCEPT !.pc = "list_stopped", !.desired = n, !.running = num]
  <2>1. cmd' = [cmd EXCEPT ![c] = u]
    BY <1>5
  <2>2. u \in Command /\ u.todo = cmd[c].todo /\ u.made = cmd[c].made
    BY <1>2, <1>3 DEF Command
  <2> HIDE DEF u
  <2> QED BY <1>1, <1>3, <2>1, <2>2, CommandsTypedAfter
<1>6. CASE \E S \in Last(num - n, RunningOnes) :
              cmd' = [cmd EXCEPT ![c].pc = "stopping", ![c].desired = n, ![c].todo = S]
  <2>1. PICK S \in Last(num - n, RunningOnes) :
              cmd' = [cmd EXCEPT ![c].pc = "stopping", ![c].desired = n, ![c].todo = S]
    BY <1>6
  <2>2. S \subseteq RunningOnes
    BY DEF Last
  <2> DEFINE u == [cmd[c] EXCEPT !.pc = "stopping", !.desired = n, !.todo = S]
  <2>3. cmd' = [cmd EXCEPT ![c] = u]
    BY <2>1
  <2>4. u \in Command /\ u.todo = S /\ u.made = cmd[c].made
    BY <1>2, <1>3, <2>2 DEF Command, Phases
  <2> HIDE DEF u
  <2> QED BY <1>1, <1>2, <1>3, <2>2, <2>3, <2>4, CommandsTypedAfter
<1> QED BY <1>4, <1>5, <1>6 DEF scale, num

LEMMA ListStoppedIsTyped ==
    ASSUME CommandsTyped, NEW c \in Clients, list_stopped(c)
    PROVE  CommandsTyped'
<1> DEFINE missing == cmd[c].desired - cmd[c].running
           stopped == {k \in Existing : ~Running(k)}
<1>1. /\ Typed' /\ UNCHANGED <<overlap, oneOffs, containers>>
      /\ oneOffs \in Seq(OneOff)
  BY UnchangedIsTyped DEF list_stopped, vars, CommandsTyped, CommandsTypeOK, OneOff
<1>2. /\ cmd[c].pc = "list_stopped" /\ cmd[c] \in Command
      /\ cmd[c].made \subseteq DOMAIN containers /\ cmd[c].todo \subseteq DOMAIN containers
  BY CommandLocals DEF list_stopped
<1>4. CASE At(c, "next_number")
  <2> DEFINE u == [cmd[c] EXCEPT !.pc = "next_number"]
  <2>1. cmd' = [cmd EXCEPT ![c] = u]
    BY <1>4 DEF At
  <2>2. u \in Command /\ u.todo = cmd[c].todo /\ u.made = cmd[c].made
    BY <1>2 DEF Command
  <2> HIDE DEF u
  <2> QED BY <1>1, <1>2, <2>1, <2>2, CommandsTypedAfter
<1>5. ASSUME NEW S \in IF Cardinality(stopped) > missing THEN First(missing, stopped)
                       ELSE {stopped},
             cmd' = [cmd EXCEPT ![c].pc = "starting", ![c].todo = S,
                                ![c].running = @ + Cardinality(S)]
      PROVE  CommandsTyped'
  <2>1. S \subseteq stopped /\ stopped \subseteq DOMAIN containers
    BY TypedToo, ExistingAre DEF First
  <2> HIDE DEF stopped, missing
  <2>2. /\ S \subseteq DOMAIN containers /\ DOMAIN containers \subseteq Nat
        /\ Cardinality(S) \in Nat
    BY <2>1, FinitelyMany, TypedToo, ExistingAre DEF CommandsTyped, CommandsTypeOK
  <2> DEFINE all == cmd[c].running + Cardinality(S)
             u == [cmd[c] EXCEPT !.pc = "starting", !.todo = S, !.running = all]
  <2>3. cmd' = [cmd EXCEPT ![c] = u]
    BY <1>5
  <2>4. all \in Nat
    BY <1>2, <2>2 DEF Command
  <2> HIDE DEF all
  <2>5. u \in Command /\ u.todo = S /\ u.made = cmd[c].made
    BY <1>2, <2>2, <2>4 DEF Command, Phases
  <2> HIDE DEF u
  <2> QED BY <1>1, <1>2, <2>2, <2>3, <2>5, CommandsTypedAfter
<1> HIDE DEF stopped, missing
<1> QED BY <1>4, <1>5 DEF list_stopped, stopped, missing

LEMMA NextNumberStepIsTyped ==
    ASSUME CommandsTyped, NEW c \in Clients, next_number(c)
    PROVE  CommandsTyped'
<1> DEFINE N == NextNumber .. NextNumber + cmd[c].desired - cmd[c].running - 1
           u == [cmd[c] EXCEPT !.pc = "creating", !.numbers = N]
<1>1. /\ Typed' /\ UNCHANGED <<overlap, oneOffs, containers>>
      /\ oneOffs \in Seq(OneOff)
  BY UnchangedIsTyped DEF next_number, vars, CommandsTyped, CommandsTypeOK, OneOff
<1>2. /\ cmd[c].pc = "next_number" /\ cmd[c] \in Command
      /\ cmd[c].made \subseteq DOMAIN containers /\ cmd[c].todo \subseteq DOMAIN containers
      /\ cmd' = [cmd EXCEPT ![c] = u]
  BY CommandLocals DEF next_number
<1>3. N \subseteq Nat
  <2>1. NextNumber \in Nat
    BY NextNumberIsNat DEF CommandsTyped, CommandsTypeOK
  <2>2. cmd[c].desired \in Nat /\ cmd[c].running \in Nat
    BY <1>2 DEF Command
  <2> HIDE DEF NextNumber
  <2> QED BY <2>1, <2>2
<1> HIDE DEF N
<1>4. u \in Command /\ u.todo = cmd[c].todo /\ u.made = cmd[c].made
  BY <1>2, <1>3 DEF Command, Phases
<1> HIDE DEF u
<1> QED BY <1>1, <1>2, <1>4, CommandsTypedAfter

\* A container that scale creates.
Numbered(i) ==
    [status |-> "created", own |-> TRUE, image |-> image, number |-> i,
     data |-> Len(containers) + 1]

LEMMA NumberedIs ==
    ASSUME TypeOK, NEW i \in Nat
    PROVE  /\ Numbered(i) \in Container /\ Numbered(i).status = "created"
           /\ Numbered(i).number = i /\ Numbered(i).data = Len(containers) + 1
           /\ Numbered(i).own
BY DEF Numbered, Container, TypeOK

LEMMA CreateNumberIs ==
    ASSUME CommandsTyped, NEW c \in Clients, create_number(c)
    PROVE  \E i \in cmd[c].numbers :
              \/ /\ NameTaken /\ UNCHANGED containers
                 /\ cmd' = [cmd EXCEPT ![c] =
                       [cmd[c] EXCEPT !.numbers = cmd[c].numbers \ {i}, !.errors = TRUE]]
              \/ /\ ~NameTaken /\ containers' = Append(containers, Numbered(i))
                 /\ cmd' = [cmd EXCEPT ![c] =
                       [cmd[c] EXCEPT !.numbers = cmd[c].numbers \ {i},
                                      !.made = cmd[c].made \cup {Len(containers) + 1}]]
BY ZenonT(30) DEF create_number, Numbered

LEMMA CreateNumberIsTyped ==
    ASSUME CommandsTyped, NEW c \in Clients, create_number(c)
    PROVE  CommandsTyped'
<1>1. /\ UNCHANGED <<image, up, overlap, oneOffs>> /\ oneOffs \in Seq(OneOff)
      /\ cmd[c] \in Command /\ cmd[c].made \subseteq DOMAIN containers
      /\ cmd[c].todo \subseteq DOMAIN containers /\ Typed /\ TypeOK
  BY CommandLocals, TypedToo DEF create_number, CommandsTyped, CommandsTypeOK, OneOff
<1>2. PICK i \in cmd[c].numbers :
              \/ /\ NameTaken /\ UNCHANGED containers
                 /\ cmd' = [cmd EXCEPT ![c] =
                       [cmd[c] EXCEPT !.numbers = cmd[c].numbers \ {i}, !.errors = TRUE]]
              \/ /\ ~NameTaken /\ containers' = Append(containers, Numbered(i))
                 /\ cmd' = [cmd EXCEPT ![c] =
                       [cmd[c] EXCEPT !.numbers = cmd[c].numbers \ {i},
                                      !.made = cmd[c].made \cup {Len(containers) + 1}]]
  BY CreateNumberIs
<1>3. CASE UNCHANGED containers /\
           cmd' = [cmd EXCEPT ![c] =
              [cmd[c] EXCEPT !.numbers = cmd[c].numbers \ {i}, !.errors = TRUE]]
  <2> DEFINE u == [cmd[c] EXCEPT !.numbers = cmd[c].numbers \ {i}, !.errors = TRUE]
  <2>1. u \in Command /\ u.todo = cmd[c].todo /\ u.made = cmd[c].made
    BY <1>1 DEF Command
  <2>2. cmd' = [cmd EXCEPT ![c] = u]
    BY <1>3
  <2> HIDE DEF u
  <2>3. Typed'
    BY <1>1, <1>3, TypedWithMore DEF TypeOK
  <2> QED BY <1>1, <1>3, <2>1, <2>2, <2>3, CommandsTypedAfter
<1>4. CASE containers' = Append(containers, Numbered(i)) /\
           cmd' = [cmd EXCEPT ![c] =
              [cmd[c] EXCEPT !.numbers = cmd[c].numbers \ {i},
                             !.made = cmd[c].made \cup {Len(containers) + 1}]]
  <2> DEFINE u == [cmd[c] EXCEPT !.numbers = cmd[c].numbers \ {i},
                                 !.made = cmd[c].made \cup {Len(containers) + 1}]
  <2>1. i \in Nat /\ containers \in Seq(Container) /\ Numbered(i) \in Container
    <3>1. i \in Nat
      BY <1>1 DEF Command
    <3> QED BY <1>1, <3>1, NumberedIs DEF TypeOK
  <2>2. /\ containers' \in Seq(Container)
        /\ DOMAIN containers' = DOMAIN containers \cup {Len(containers) + 1}
    BY <1>4, <2>1, AppendContainer
  <2>3. Len(containers) + 1 \in Nat
    BY <2>1
  <2>4. /\ u \in Command /\ u.todo = cmd[c].todo
        /\ u.made = cmd[c].made \cup {Len(containers) + 1}
    BY <1>1, <2>3 DEF Command
  <2>5. cmd' = [cmd EXCEPT ![c] = u]
    BY <1>4
  <2> HIDE DEF u
  <2>6. Typed'
    BY <1>1, <2>2, TypedWithMore
  <2> QED BY <1>1, <2>2, <2>4, <2>5, <2>6, CommandsTypedAfter
<1> QED BY <1>2, <1>3, <1>4

LEMMA StartNumberIsTyped ==
    ASSUME CommandsTyped, NEW c \in Clients, start_number(c)
    PROVE  CommandsTyped'
<1>1. PICK k \in cmd[c].made :
          /\ IF Operable(k) THEN Set(k, "status", "running") ELSE UNCHANGED containers
          /\ cmd' = [cmd EXCEPT ![c].made = @ \ {k}, ![c].errors = @ \/ ~Operable(k)]
  BY DEF start_number
<1>2. /\ UNCHANGED <<image, up, overlap, oneOffs>> /\ oneOffs \in Seq(OneOff)
      /\ cmd[c] \in Command /\ cmd[c].made \subseteq DOMAIN containers
      /\ cmd[c].todo \subseteq DOMAIN containers /\ k \in DOMAIN containers
  BY CommandLocals DEF start_number, CommandsTyped, CommandsTypeOK, OneOff
<1>3. Typed' /\ DOMAIN containers' = DOMAIN containers
  BY <1>1, <1>2, CallKeepsTypes DEF Statuses
<1> DEFINE u == [cmd[c] EXCEPT !.made = cmd[c].made \ {k},
                               !.errors = cmd[c].errors \/ ~Operable(k)]
<1>4. cmd' = [cmd EXCEPT ![c] = u]
  BY <1>1
<1>5. u \in Command /\ u.todo = cmd[c].todo /\ u.made = cmd[c].made \ {k}
  <2>1. (cmd[c].errors \/ ~Operable(k)) \in BOOLEAN
    BY Zenon
  <2> HIDE DEF Operable
  <2> QED BY <1>2, <2>1 DEF Command
<1> HIDE DEF u
<1> QED BY <1>2, <1>3, <1>4, <1>5, CommandsTypedAfter

LEMMA InParallelIsTyped ==
    ASSUME CommandsTyped, NEW c \in Clients, in_parallel(c)
    PROVE  CommandsTyped'
<1> DEFINE phase == cmd[c].pc
<1>1. PICK k \in cmd[c].todo :
          \/ /\ Lets(phase, k)
             /\ Set(k, "status", Target(phase))
             /\ cmd' = [cmd EXCEPT ![c].todo = @ \ {k}]
          \/ /\ ~Lets(phase, k) \/ CallErrors
             /\ cmd' = [cmd EXCEPT ![c].todo = @ \ {k}, ![c].errors = TRUE]
             /\ UNCHANGED containers
  BY DEF in_parallel
<1>2. /\ phase \in {"starting", "stopping", "removing"}
      /\ UNCHANGED <<image, up, overlap, oneOffs>> /\ oneOffs \in Seq(OneOff)
      /\ cmd[c] \in Command
  BY CommandLocals DEF in_parallel, Phases, CommandsTyped, CommandsTypeOK, OneOff
<1>3. /\ cmd[c].todo \subseteq DOMAIN containers /\ k \in DOMAIN containers
      /\ cmd[c].made \subseteq DOMAIN containers /\ Target(phase) \in Statuses
  BY <1>2, CommandLocals DEF Target, Statuses
<1>4. Typed' /\ DOMAIN containers' = DOMAIN containers
  BY <1>1, <1>2, <1>3, CallKeepsTypes
<1>5. PICK e \in BOOLEAN :
         cmd' = [cmd EXCEPT ![c] = [cmd[c] EXCEPT !.todo = cmd[c].todo \ {k}, !.errors = e]]
  <2>1. [cmd[c] EXCEPT !.todo = cmd[c].todo \ {k}] =
           [cmd[c] EXCEPT !.todo = cmd[c].todo \ {k}, !.errors = cmd[c].errors]
    BY <1>2 DEF Command
  <2>2. cmd[c].errors \in BOOLEAN
    BY <1>2 DEF Command
  <2>3. CASE cmd' = [cmd EXCEPT ![c].todo = @ \ {k}]
    BY <2>1, <2>2, <2>3
  <2>4. CASE cmd' = [cmd EXCEPT ![c].todo = @ \ {k}, ![c].errors = TRUE]
    BY <2>4
  <2> QED BY <1>1, <2>3, <2>4
<1> DEFINE u == [cmd[c] EXCEPT !.todo = cmd[c].todo \ {k}, !.errors = e]
<1>6. u \in Command /\ u.todo = cmd[c].todo \ {k} /\ u.made = cmd[c].made
  BY <1>2 DEF Command
<1>7. cmd' = [cmd EXCEPT ![c] = u]
  BY <1>5
<1> HIDE DEF u, phase
<1> QED BY <1>2, <1>3, <1>4, <1>6, <1>7, CommandsTypedAfter

LEMMA JoinIsTyped ==
    ASSUME CommandsTyped, NEW c \in Clients, join(c)
    PROVE  CommandsTyped'
<1>1. /\ Typed' /\ UNCHANGED <<overlap, oneOffs, containers>>
      /\ oneOffs \in Seq(OneOff) /\ cmd[c].todo = {} /\ cmd[c].made = {}
      /\ cmd[c] \in Command
  BY UnchangedIsTyped, CommandLocals
     DEF join, vars, CommandsTyped, CommandsTypeOK, OneOff
<1>2. CASE CmdEnd(c, "ok")
  BY <1>1, <1>2, CmdEndIsTyped
<1>3. ASSUME NEW pc \in {"next_number", "remove_stopped"}, At(c, pc)
      PROVE  CommandsTyped'
  <2> DEFINE u == [cmd[c] EXCEPT !.pc = pc]
  <2>1. cmd' = [cmd EXCEPT ![c] = u]
    BY <1>3 DEF At
  <2>2. u \in Command /\ u.todo = {} /\ u.made = {}
    BY <1>1 DEF Command
  <2> HIDE DEF u
  <2> QED BY <1>1, <2>1, <2>2, CommandsTypedAfter
<1> QED BY <1>2, <1>3 DEF join

LEMMA RemoveStoppedIsTyped ==
    ASSUME CommandsTyped, NEW c \in Clients, remove_stopped(c)
    PROVE  CommandsTyped'
<1> DEFINE stopped == {k \in Existing : ~Running(k)}
           u == [cmd[c] EXCEPT !.pc = "removing", !.todo = stopped]
<1>1. /\ Typed' /\ UNCHANGED <<overlap, oneOffs, containers>>
      /\ oneOffs \in Seq(OneOff) /\ cmd[c].made \subseteq DOMAIN containers
      /\ cmd[c] \in Command
  BY UnchangedIsTyped, CommandLocals
     DEF remove_stopped, vars, CommandsTyped, CommandsTypeOK, OneOff
<1>2. cmd' = [cmd EXCEPT ![c] = u]
  BY DEF remove_stopped
<1>3. stopped \subseteq DOMAIN containers /\ DOMAIN containers \subseteq Nat
  BY TypedToo, ExistingAre
<1> HIDE DEF stopped
<1>4. u \in Command /\ u.todo = stopped /\ u.made = cmd[c].made
  BY <1>1, <1>3 DEF Command, Phases
<1> HIDE DEF u
<1> QED BY <1>1, <1>2, <1>3, <1>4, CommandsTypedAfter

\* run names its container by the next number of all one-off containers.
LEMMA NextOneOffIsNat ==
    ASSUME oneOffs \in Seq(OneOff)
    PROVE  NextOneOff \in Nat
<1> SUFFICES ASSUME oneOffs # <<>> PROVE NextOneOff \in Nat
  BY DEF NextOneOff
<1> DEFINE f == [i \in 1 .. Len(oneOffs) |-> oneOffs[i].number]
<1>1. Len(oneOffs) \in Nat /\ DOMAIN oneOffs = 1 .. Len(oneOffs) /\ 1 .. Len(oneOffs) # {}
  OBVIOUS
<1>2. ASSUME NEW i \in 1 .. Len(oneOffs) PROVE oneOffs[i].number \in Nat
  <2>1. oneOffs[i] \in OneOff
    BY <1>1
  <2> QED BY <2>1 DEF OneOff
<1>3. f \in [1 .. Len(oneOffs) -> Nat]
  BY <1>2
<1>4. \E k \in 1 .. Len(oneOffs) : \A l \in 1 .. Len(oneOffs) : f[l] <= f[k]
  BY <1>1, <1>3, GreatestValue
<1>5. \E n \in NumbersOf(oneOffs) : \A m \in NumbersOf(oneOffs) : m <= n
  BY <1>1, <1>4 DEF NumbersOf
<1>6. NumbersOf(oneOffs) \subseteq Nat
  BY <1>1, <1>2 DEF NumbersOf
<1> QED BY <1>5, <1>6 DEF NextOneOff

LEMMA RunIsTyped ==
    ASSUME CommandsTyped, NEW c \in Clients, run(c)
    PROVE  CommandsTyped'
<1> DEFINE u == [cmd[c] EXCEPT !.pc = "run", !.numbers = {NextOneOff}]
<1>1. /\ Typed' /\ UNCHANGED <<overlap, oneOffs, containers>>
      /\ oneOffs \in Seq(OneOff) /\ cmd[c] \in Command
      /\ cmd[c].made \subseteq DOMAIN containers /\ cmd[c].todo \subseteq DOMAIN containers
      /\ cmd' = [cmd EXCEPT ![c] = u]
  BY UnchangedIsTyped, CommandLocals
     DEF run, vars, CommandsTyped, CommandsTypeOK, OneOff
<1>2. NextOneOff \in Nat
  BY <1>1, NextOneOffIsNat
<1>3. u \in Command /\ u.todo = cmd[c].todo /\ u.made = cmd[c].made
  BY <1>1, <1>2 DEF Command
<1> HIDE DEF u
<1> QED BY <1>1, <1>3, CommandsTypedAfter

LEMMA CreateOneOffIsTyped ==
    ASSUME CommandsTyped, NEW c \in Clients, create_one_off(c)
    PROVE  CommandsTyped'
<1>1. /\ Typed' /\ UNCHANGED <<overlap, containers>>
      /\ oneOffs \in Seq(OneOff) /\ cmd[c] \in Command
  BY UnchangedIsTyped, CommandLocals
     DEF create_one_off, vars, CommandsTyped, CommandsTypeOK, OneOff
<1>2. CASE CmdEnd(c, "failed") /\ UNCHANGED oneOffs
  BY <1>1, <1>2, CmdEndIsTyped
<1>3. CASE ~(CmdEnd(c, "failed") /\ UNCHANGED oneOffs)
  <2> DEFINE n == CHOOSE n \in cmd[c].numbers : TRUE
             u == [cmd[c] EXCEPT !.pc = "start_one_off", !.made = {Len(oneOffs) + 1}]
  <2>1. /\ ~(cmd[c].numbers \subseteq NumbersOf(oneOffs))
        /\ oneOffs' = Append(oneOffs, [number |-> n, started |-> FALSE])
        /\ cmd' = [cmd EXCEPT ![c] = u]
    BY <1>3 DEF create_one_off
  <2>2. n \in Nat
    <3>1. n \in cmd[c].numbers
      BY <2>1
    <3> QED BY <1>1, <3>1 DEF Command
  <2> HIDE DEF n
  <2>3. [number |-> n, started |-> FALSE] \in OneOff
    BY <2>2 DEF OneOff
  <2>4. oneOffs' \in Seq(OneOff) /\ Len(oneOffs) + 1 \in Nat
    BY <1>1, <2>1, <2>3
  <2>5. u \in Command /\ u.pc = "start_one_off"
    BY <1>1, <2>4 DEF Command
  <2> HIDE DEF u
  <2> QED BY <1>1, <2>1, <2>4, <2>5, CommandsTypedAfter
<1> QED BY <1>2, <1>3

LEMMA StartOneOffIsTyped ==
    ASSUME CommandsTyped, NEW c \in Clients, start_one_off(c)
    PROVE  CommandsTyped'
<1>1. /\ Typed' /\ UNCHANGED <<overlap, containers>>
      /\ oneOffs \in Seq(OneOff)
  BY UnchangedIsTyped DEF start_one_off, vars, CommandsTyped, CommandsTypeOK, OneOff
<1>2. CmdEnd(c, "ok") \/ CmdEnd(c, "failed")
  BY DEF start_one_off
<1>3. oneOffs' \in Seq(OneOff)
  <2>1. CASE UNCHANGED oneOffs
    BY <1>1, <2>1
  <2>2. CASE oneOffs' = [i \in DOMAIN oneOffs |->
                [oneOffs[i] EXCEPT !.started = @ \/ i \in cmd[c].made]]
    <3>1. ASSUME NEW i \in DOMAIN oneOffs
          PROVE  [oneOffs[i] EXCEPT !.started = @ \/ i \in cmd[c].made] \in OneOff
      <4>1. oneOffs[i] \in OneOff
        BY <1>1
      <4>2. (oneOffs[i].started \/ i \in cmd[c].made) \in BOOLEAN
        BY Zenon
      <4> QED BY <4>1, <4>2 DEF OneOff
    <3>2. DOMAIN oneOffs = 1 .. Len(oneOffs) /\ Len(oneOffs) \in Nat
      BY <1>1
    <3> QED BY <2>2, <3>1, <3>2
  <2> QED BY <2>1, <2>2 DEF start_one_off
<1> QED BY <1>1, <1>2, <1>3, CmdEndIsTyped

LEMMA ProjectContainersIsTyped ==
    ASSUME CommandsTyped, NEW c \in Clients, project_containers(c) \/ Die(c)
    PROVE  CommandsTyped'
<1>1. /\ Typed' /\ UNCHANGED <<overlap, oneOffs, containers>>
      /\ oneOffs \in Seq(OneOff) /\ CmdEnd(c, "failed")
  BY UnchangedIsTyped DEF project_containers, Die, vars, CommandsTyped, CommandsTypeOK, OneOff
<1> QED BY <1>1, CmdEndIsTyped

LEMMA CommandIsTyped ==
    ASSUME CommandsTyped, NEW c \in Clients, CommandBegin(c) \/ CommandStep(c) \/ Die(c)
    PROVE  CommandsTyped'
BY ForEachIsTyped, ScaleIsTyped, RunIsTyped, ProjectContainersIsTyped, OneOfThemIsTyped,
   ListStoppedIsTyped, NextNumberStepIsTyped, CreateNumberIsTyped, StartNumberIsTyped,
   InParallelIsTyped, JoinIsTyped, RemoveStoppedIsTyped, CreateOneOffIsTyped,
   StartOneOffIsTyped DEF CommandBegin, CommandStep

\* An up, or whatever else changes only what Convergence has.
LEMMA OthersAreTyped ==
    ASSUME CommandsTyped, Typed', UNCHANGED <<overlap, oneOffs, cmd>>,
           DOMAIN containers \subseteq DOMAIN containers'
    PROVE  CommandsTyped'
BY DEF CommandsTyped, CommandsTypeOK, Typed

\* The calls of an up: it changes the status of a container, renames one, or
\* creates one.
StatusCall == \E k \in Existing, s \in {"running", "exited", "removed"} : Set(k, "status", s)
RenameCall(r) == up[r].at \in Existing /\ Set(up[r].at, "own", FALSE)

LEMMA UpCalls ==
    ASSUME NEW r \in Ups, Step(r)
    PROVE  \/ UNCHANGED containers
           \/ StatusCall
           \/ rename(r) /\ RenameCall(r)
           \/ /\ create(r) \/ renew(r)
              /\ \E number, data : containers' = Append(containers, Fresh(number, data))
<1>1. CASE duplicate_containers(r) \/ convergence_plan(r)
  BY <1>1 DEF duplicate_containers, convergence_plan
<1>2. CASE stop_duplicate(r) \/ remove_duplicate(r)
  BY <1>2 DEF stop_duplicate, remove_duplicate, Refused, Operable, StatusCall
<1>3. CASE create(r) \/ renew(r)
  <2>1. PICK number, data, pc : Create(r, number, data, pc)
    BY <1>3 DEF create, renew
  <2> QED BY <1>3, <2>1 DEF Create, Refused, Fresh
<1>4. CASE start_created(r) \/ start_renewed(r)
  BY <1>4 DEF start_created, start_renewed, Refused, Operable, StatusCall
<1>5. CASE start(r) \/ recreate(r)
  <2>1. PICK k \in up[r].todo, s \in {"running", "exited"} :
           UNCHANGED containers \/ (k \in Existing /\ Set(k, "status", s))
    BY <1>5 DEF start, recreate, Refused, Operable
  <2> QED BY <2>1 DEF StatusCall
<1>6. CASE rename(r)
  BY <1>6 DEF rename, Refused, RenameCall
<1>7. CASE remove_old(r)
  BY <1>7 DEF remove_old, Refused, StatusCall
<1> QED BY <1>1, <1>2, <1>3, <1>4, <1>5, <1>6, <1>7 DEF Step

LEMMA UpStepGrows ==
    ASSUME Typed, NEW r \in Ups, Step(r)
    PROVE  DOMAIN containers \subseteq DOMAIN containers'
<1>1. containers \in Seq(Container) /\ DOMAIN containers = 1 .. Len(containers)
  BY DEF Typed, TypeOK
<1>2. ASSUME NEW number, NEW data, containers' = Append(containers, Fresh(number, data))
      PROVE  DOMAIN containers \subseteq DOMAIN containers'
  BY <1>1, <1>2
<1> QED BY <1>2, UpCalls DEF StatusCall, RenameCall, Set

LEMMA UpStepIsTyped ==
    ASSUME CommandsTyped, NEW r \in Ups, up_step(r)
    PROVE  CommandsTyped'
<1>1. UNCHANGED <<overlap, oneOffs, cmd>> /\ Typed
  BY TypedToo DEF up_step
<1>2. CASE Refused(r) /\ UNCHANGED image
  BY <1>1, <1>2, RefusedIsTyped, OthersAreTyped DEF Refused
<1>3. CASE Step(r)
  BY <1>1, <1>3, StepIsTyped, UpStepGrows, OthersAreTyped
<1> QED BY <1>2, <1>3 DEF up_step

LEMMA BeginUpIsTyped ==
    ASSUME CommandsTyped, NEW r \in Ups, NEW strategy \in Strategies, begin_up(r, strategy)
    PROVE  CommandsTyped'
BY TypedToo, BeginIsTyped, OthersAreTyped DEF begin_up, Begin

LEMMA AroundIsTyped == ASSUME CommandsTyped, Around PROVE CommandsTyped'
<1>1. UNCHANGED <<overlap, oneOffs, cmd>> /\ Typed
  BY TypedToo DEF Around
<1>2. ASSUME NEW r \in Ups, Fail(r) PROVE CommandsTyped'
  BY <1>1, <1>2, FailIsTyped, OthersAreTyped DEF Fail
<1>3. CASE Rebuild
  BY <1>1, <1>3, RebuildIsTyped, OthersAreTyped DEF Rebuild
<1>4. ASSUME NEW k \in DOMAIN containers, Exit(k) PROVE CommandsTyped'
  BY <1>1, <1>4, ExitIsTyped, OthersAreTyped DEF Exit, Set
<1> QED BY <1>2, <1>3, <1>4 DEF Around

LEMMA CommandsNextIsTyped == CommandsTyped /\ [CommandsNext]_cvars => CommandsTyped'
<1> SUFFICES ASSUME CommandsTyped, [CommandsNext]_cvars PROVE CommandsTyped'
  OBVIOUS
<1>1. CASE UNCHANGED cvars
  <2>1. UNCHANGED <<overlap, oneOffs, cmd, containers>> /\ UNCHANGED vars
    BY <1>1 DEF cvars, vars
  <2> QED BY <2>1, UnchangedIsTyped, OthersAreTyped
<1>2. CASE AllDone
  BY <1>1, <1>2 DEF AllDone
<1> QED BY <1>1, <1>2, CommandIsTyped, BeginUpIsTyped, UpStepIsTyped, AroundIsTyped
        DEF CommandsNext

LEMMA CommandsInitIsTyped == CommandsInit => CommandsTyped
<1> SUFFICES ASSUME CommandsInit PROVE CommandsTyped
  OBVIOUS
<1> DEFINE deployed == [status |-> "running", own |-> TRUE, image |-> 1,
                        number |-> 1, data |-> 1]
           idle == [pc |-> "idle", desired |-> 0, todo |-> {}, numbers |-> {},
                    made |-> {}, running |-> 0, errors |-> FALSE, result |-> "none"]
<1>1. image \in 1 .. Images /\ containers \in Seq(Container)
  <2>1. deployed \in Container
    BY ImagesAssumption DEF Container
  <2>2. containers = <<>> \/ containers = <<deployed>>
    BY DEF CommandsInit, Start
  <2> HIDE DEF deployed
  <2>3. containers \in Seq(Container)
    <3>1. <<>> \in Seq(Container)
      OBVIOUS
    <3>2. Append(<<>>, deployed) \in Seq(Container) /\ Append(<<>>, deployed) = <<deployed>>
      BY <2>1, <3>1
    <3> QED BY <2>2, <3>1, <3>2
  <2>4. image = 1
    BY DEF CommandsInit, Start
  <2> QED BY <2>3, <2>4, ImagesAssumption
<1>2. \A r \in Ups : up[r] \in Up /\ up[r].todo = {} /\ up[r].pc = "idle"
  BY DEF CommandsInit, Start, Up, PCs
<1>3. up \in [Ups -> Up]
  BY <1>2 DEF CommandsInit, Start
<1>4. idle \in Command
  BY DEF Command
<1>5. cmd = [c \in Clients |-> idle]
  BY DEF CommandsInit
<1>6. \A c \in Clients : cmd[c].todo = {} /\ cmd[c].made = {}
  BY <1>5
<1> HIDE DEF idle
<1>7. cmd \in [Clients -> Command]
  BY <1>4, <1>5
<1>8. oneOffs \in Seq(OneOff) /\ overlap \in 1 .. AtATime
  BY DEF CommandsInit
<1> QED BY <1>1, <1>2, <1>3, <1>6, <1>7, <1>8
        DEF CommandsTyped, CommandsTypeOK, TypeOK, Indices, OneOff

LEMMA CommandsTypedHolds == CommandsSpec => []CommandsTyped
BY CommandsInitIsTyped, CommandsNextIsTyped, PTL DEF CommandsSpec

\* However many commands and ups overlap, and whatever fails, the containers,
\* the commands and the ups keep their types, and a command touches only
\* containers that were created.
THEOREM CommandsTypeCorrect == CommandsSpec => []CommandsTypeOK
<1>1. CommandsTyped => CommandsTypeOK
  BY DEF CommandsTyped
<1> QED BY <1>1, CommandsTypedHolds, PTL

(***************************************************************************)
(* What is created is started                                              *)
(***************************************************************************)
Bad(result) == result \in {"refused", "failed"}

\* somebody was refused, failed or died
SomethingWrong ==
    \/ \E c \in Clients : Bad(cmd[c].result) \/ cmd[c].errors
    \/ \E r \in Ups : Bad(up[r].result)

\* whoever has an answer takes no other step
Answered ==
    /\ \A c \in Clients : Bad(cmd[c].result) => cmd[c].pc = "done"
    /\ \A r \in Ups : Bad(up[r].result) => up[r].pc = "done"

StartsNext(r, k) == up[r].pc \in {"start_created", "start_renewed"} /\ up[r].new = k
MadeBy(c, k) == cmd[c].pc = "creating" /\ k \in cmd[c].made
Created(k) == containers[k].status = "created"
OneOffOf(c, i) == cmd[c].pc = "start_one_off" /\ i \in cmd[c].made

\* somebody is about to start whatever has been created
SomebodyStarts ==
    \A k \in DOMAIN containers :
       Created(k) => (\E r \in Ups : StartsNext(r, k)) \/ (\E c \in Clients : MadeBy(c, k))
SomebodyStartsOneOffs ==
    \A i \in DOMAIN oneOffs :
       oneOffs[i].started \/ \E c \in Clients : OneOffOf(c, i)

HalfMadeInv ==
    /\ Answered
    /\ SomethingWrong \/ (SomebodyStarts /\ SomebodyStartsOneOffs)

\* A step of a command is a step of one that has not ended, and of no other;
\* an error is not forgotten.
LEMMA CommandFrame ==
    ASSUME CommandsTyped, NEW c \in Clients, CommandBegin(c) \/ CommandStep(c) \/ Die(c)
    PROVE  /\ cmd[c].pc # "done" /\ UNCHANGED up
           /\ \A d \in Clients : d # c => cmd'[d] = cmd[d]
           /\ cmd[c].errors => cmd'[c].errors
           /\ cmd'[c].pc = "done" \/ cmd'[c].result = cmd[c].result
<1>1. cmd \in [Clients -> Command] /\ cmd[c] \in Command
  BY DEF CommandsTyped, CommandsTypeOK
<1>2. ASSUME NEW result, CmdEnd(c, result)
      PROVE  /\ \A d \in Clients : d # c => cmd'[d] = cmd[d]
             /\ cmd'[c].errors = cmd[c].errors /\ cmd'[c].pc = "done"
  <2>1. cmd' = [cmd EXCEPT ![c] = Ended(c, result)]
    BY <1>2, CmdEndIs
  <2>2. Ended(c, result).errors = cmd[c].errors /\ Ended(c, result).pc = "done"
    BY <1>1 DEF Ended, Command
  <2> QED BY <1>1, <2>1, <2>2
<1>3. CASE \E kind \in Eachs : for_each(c, kind)
  <2>1. PICK kind \in Eachs : for_each(c, kind)
    BY <1>3
  <2> QED BY <1>1, <1>2, <2>1 DEF for_each, Command, vars
<1>4. CASE \E n \in Desired : scale(c, n)
  <2>1. PICK n \in Desired : scale(c, n)
    BY <1>4
  <2> QED BY <1>1, <1>2, <2>1 DEF scale, Command, vars
<1>5. CASE run(c) \/ project_containers(c) \/ Die(c)
  BY <1>1, <1>2, <1>5 DEF run, project_containers, Die, Command, vars
<1>6. CASE one_of_them(c)
  BY <1>1, <1>2, <1>6 DEF one_of_them, Command, Eachs
<1>7. CASE list_stopped(c) \/ next_number(c) \/ join(c) \/ remove_stopped(c)
  <2>1. CASE list_stopped(c)
    <3>1. CASE At(c, "next_number")
      BY <1>1, <1>2, <2>1, <3>1, ZenonT(30) DEF list_stopped, At, Command, vars
    <3>2. ASSUME NEW S,
                 cmd' = [cmd EXCEPT ![c].pc = "starting", ![c].todo = S,
                                    ![c].running = @ + Cardinality(S)]
          PROVE  /\ \A d \in Clients : d # c => cmd'[d] = cmd[d]
                 /\ cmd'[c].errors = cmd[c].errors /\ cmd'[c].result = cmd[c].result
      <4> DEFINE u == [cmd[c] EXCEPT !.pc = "starting", !.todo = S,
                                     !.running = cmd[c].running + Cardinality(S)]
      <4>1. cmd' = [cmd EXCEPT ![c] = u]
        BY <3>2
      <4>2. u.errors = cmd[c].errors /\ u.result = cmd[c].result
        BY <1>1 DEF Command
      <4> HIDE DEF u
      <4> QED BY <1>1, <4>1, <4>2
    <3> QED BY <2>1, <3>1, <3>2 DEF list_stopped, vars
  <2>2. CASE next_number(c)
    <3> DEFINE N == NextNumber .. NextNumber + cmd[c].desired - cmd[c].running - 1
    <3>1. /\ cmd' = [cmd EXCEPT ![c].pc = "creating", ![c].numbers = N] /\ UNCHANGED up
          /\ cmd[c].pc = "next_number"
      BY <2>2 DEF next_number, vars
    <3> HIDE DEF N
    <3> QED BY <1>1, <3>1 DEF Command
  <2>3. CASE join(c)
    BY <1>1, <1>2, <2>3 DEF join, At, Command, vars
  <2>4. CASE remove_stopped(c)
    BY <1>1, <1>2, <2>4 DEF remove_stopped, Command, vars
  <2> QED BY <1>7, <2>1, <2>2, <2>3, <2>4
<1>8. CASE create_number(c) \/ start_number(c)
  <2>1. CASE create_number(c)
    <3>1. PICK i \in cmd[c].numbers :
              \/ cmd' = [cmd EXCEPT ![c] =
                    [cmd[c] EXCEPT !.numbers = cmd[c].numbers \ {i}, !.errors = TRUE]]
              \/ cmd' = [cmd EXCEPT ![c] =
                    [cmd[c] EXCEPT !.numbers = cmd[c].numbers \ {i},
                                   !.made = cmd[c].made \cup {Len(containers) + 1}]]
      BY <2>1, CreateNumberIs
    <3> QED BY <1>1, <2>1, <3>1, SMTT(30) DEF create_number, Command
  <2>2. CASE start_number(c)
    BY <1>1, <2>2 DEF start_number, Command
  <2> QED BY <1>8, <2>1, <2>2
<1>9. CASE in_parallel(c)
  BY <1>1, <1>9 DEF in_parallel, Command, Phases
<1>10. CASE create_one_off(c) \/ start_one_off(c)
  BY <1>1, <1>2, <1>10 DEF create_one_off, start_one_off, Command, vars
<1> QED BY <1>3, <1>4, <1>5, <1>6, <1>7, <1>8, <1>9, <1>10 DEF CommandBegin, CommandStep

\* The same for an up.
LEMMA UpFrame ==
    ASSUME Typed, NEW r \in Ups, Step(r) \/ Fail(r) \/ (Refused(r) /\ Active(r))
    PROVE  /\ up[r].pc # "done"
           /\ \A s \in Ups : s # r => up'[s] = up[s]
<1>1. up \in [Ups -> Up]
  BY DEF Typed, TypeOK
<1> QED BY <1>1
        DEF Step, Fail, duplicate_containers, stop_duplicate, remove_duplicate,
        convergence_plan, create, start_created, start, recreate, rename, renew,
        start_renewed, remove_old, Refused, End, Goto, Loop, Execute, Create, Active

LEMMA CommandStaysWrong ==
    ASSUME CommandsTyped, Answered, NEW c \in Clients,
           CommandBegin(c) \/ CommandStep(c) \/ Die(c)
    PROVE  /\ Answered'
           /\ SomethingWrong => SomethingWrong'
           /\ ~SomethingWrong' => ~Bad(cmd'[c].result) /\ ~cmd'[c].errors
<1>1. /\ cmd[c].pc # "done" /\ UNCHANGED up
      /\ \A d \in Clients : d # c => cmd'[d] = cmd[d]
      /\ cmd[c].errors => cmd'[c].errors
      /\ cmd'[c].pc = "done" \/ cmd'[c].result = cmd[c].result
  BY CommandFrame
<1>2. ~Bad(cmd[c].result)
  BY <1>1 DEF Answered
<1> QED BY <1>1, <1>2 DEF Answered, SomethingWrong

LEMMA UpStaysWrong ==
    ASSUME CommandsTyped, Answered, NEW r \in Ups, UNCHANGED cmd,
           Step(r) \/ Fail(r) \/ (Refused(r) /\ Active(r)),
           Bad(up'[r].result) => up'[r].pc = "done"
    PROVE  /\ Answered'
           /\ SomethingWrong => SomethingWrong'
           /\ ~SomethingWrong' => ~Bad(up'[r].result)
<1>1. up[r].pc # "done" /\ \A s \in Ups : s # r => up'[s] = up[s]
  BY TypedToo, UpFrame
<1>2. ~Bad(up[r].result)
  BY <1>1 DEF Answered
<1> QED BY <1>1, <1>2 DEF Answered, SomethingWrong

\* A call that starts, pauses, stops or removes a container, or renames it,
\* leaves none that was created and not started but those there were.
LEMMA NoneCreated ==
    ASSUME Typed,
           \/ UNCHANGED containers
           \/ \E k \in DOMAIN containers, s \in Statuses \ {"created"} : Set(k, "status", s)
           \/ \E k \in DOMAIN containers : Set(k, "own", FALSE)
    PROVE  /\ DOMAIN containers' = DOMAIN containers
           /\ \A l \in DOMAIN containers : Created(l)' => Created(l)
           /\ \A k \in DOMAIN containers, s \in Statuses \ {"created"} :
                 Set(k, "status", s) => ~Created(k)'
<1>1. containers \in Seq(Container)
  BY DEF Typed, TypeOK
<1>2. ASSUME NEW k \in DOMAIN containers, NEW s \in Statuses \ {"created"},
             Set(k, "status", s)
      PROVE  /\ DOMAIN containers' = DOMAIN containers /\ ~Created(k)'
             /\ \A l \in DOMAIN containers : Created(l)' => Created(l)
  <2>1. /\ DOMAIN containers' = DOMAIN containers
        /\ containers'[k] = [containers[k] EXCEPT !.status = s]
        /\ \A l \in DOMAIN containers : l # k => containers'[l] = containers[l]
    BY <1>1, <1>2, SetStatus
  <2>2. containers'[k].status = s
    BY <1>1, <2>1 DEF Container
  <2> QED BY <2>1, <2>2 DEF Created
<1>3. ASSUME NEW k \in DOMAIN containers, Set(k, "own", FALSE)
      PROVE  /\ DOMAIN containers' = DOMAIN containers
             /\ \A l \in DOMAIN containers : Created(l)' => Created(l)
  <2>1. /\ DOMAIN containers' = DOMAIN containers
        /\ containers'[k] = [containers[k] EXCEPT !.own = FALSE]
        /\ \A l \in DOMAIN containers : l # k => containers'[l] = containers[l]
    BY <1>1, <1>3, SetOwn
  <2>2. containers'[k].status = containers[k].status
    BY <1>1, <2>1 DEF Container
  <2> QED BY <2>1, <2>2 DEF Created
<1>4. CASE UNCHANGED containers
  <2>1. /\ DOMAIN containers' = DOMAIN containers
        /\ \A l \in DOMAIN containers : Created(l)' => Created(l)
    BY <1>4 DEF Created
  <2> QED BY <2>1, <1>2
<1>5. \A k \in DOMAIN containers, s \in Statuses \ {"created"} :
         Set(k, "status", s) => ~Created(k)'
  BY <1>2
<1> QED BY <1>2, <1>3, <1>4, <1>5

\* What a command does leaves what the others will start to them.
LEMMA SomebodyStartsAfter ==
    ASSUME CommandsTyped, SomebodyStarts, NEW c \in Clients,
           UNCHANGED up, \A d \in Clients : d # c => cmd'[d] = cmd[d],
           DOMAIN containers' = DOMAIN containers,
           \A l \in DOMAIN containers : Created(l)' => Created(l),
           \A l \in DOMAIN containers : Created(l)' /\ MadeBy(c, l) => MadeBy(c, l)'
    PROVE  SomebodyStarts'
<1> SUFFICES ASSUME NEW k \in DOMAIN containers', Created(k)'
             PROVE  (\E r \in Ups : StartsNext(r, k)') \/ (\E d \in Clients : MadeBy(d, k)')
  BY DEF SomebodyStarts
<1>1. k \in DOMAIN containers /\ Created(k)
  OBVIOUS
<1>2. (\E r \in Ups : StartsNext(r, k)) \/ (\E d \in Clients : MadeBy(d, k))
  BY <1>1 DEF SomebodyStarts
<1>3. ASSUME NEW r \in Ups, StartsNext(r, k) PROVE StartsNext(r, k)'
  BY <1>3 DEF StartsNext
<1>4. ASSUME NEW d \in Clients, MadeBy(d, k) PROVE MadeBy(d, k)'
  BY <1>1, <1>4 DEF MadeBy
<1> QED BY <1>2, <1>3, <1>4

LEMMA SomebodyStartsOneOffsAfter ==
    ASSUME SomebodyStartsOneOffs, NEW c \in Clients, UNCHANGED oneOffs,
           \A d \in Clients : d # c => cmd'[d] = cmd[d],
           cmd[c].pc # "start_one_off"
    PROVE  SomebodyStartsOneOffs'
BY DEF SomebodyStartsOneOffs, OneOffOf

\* Steps of a command that creates no container.
LEMMA OtherCommandsHalfMade ==
    ASSUME CommandsTyped, SomebodyStarts, SomebodyStartsOneOffs, NEW c \in Clients,
           CommandBegin(c) \/ CommandStep(c) \/ Die(c),
           ~create_number(c), ~start_number(c), ~create_one_off(c), ~start_one_off(c),
           ~Bad(cmd'[c].result)
    PROVE  SomebodyStarts' /\ SomebodyStartsOneOffs'
<1>1. /\ UNCHANGED up /\ \A d \in Clients : d # c => cmd'[d] = cmd[d]
  BY CommandFrame
<1>2. /\ cmd \in [Clients -> Command] /\ cmd[c] \in Command /\ ~Die(c) /\ Typed
      /\ cmd[c].pc # "start_one_off" => cmd[c].todo \subseteq DOMAIN containers
  <2>1. cmd \in [Clients -> Command]
    BY DEF CommandsTyped, CommandsTypeOK
  <2>2. ASSUME Die(c) PROVE FALSE
    <3>1. CmdEnd(c, "failed")
      BY <2>2 DEF Die
    <3>2. cmd'[c].result = "failed"
      BY <2>1, <3>1, EndedIs, CmdEndIs
    <3> QED BY <3>2 DEF Bad
  <2> QED BY <2>1, <2>2, TypedToo, CommandLocals
<1>3. /\ UNCHANGED oneOffs
      /\ cmd[c].pc # "start_one_off"
      /\ \/ UNCHANGED containers
         \/ \E k \in DOMAIN containers, s \in Statuses \ {"created"} : Set(k, "status", s)
      /\ \A l \in DOMAIN containers : MadeBy(c, l) => MadeBy(c, l)'
  <2>1. CASE \E kind \in Eachs : for_each(c, kind)
    BY <2>1 DEF for_each, MadeBy, vars
  <2>2. CASE \E n \in Desired : scale(c, n)
    BY <2>2 DEF scale, MadeBy, vars
  <2>3. CASE run(c) \/ project_containers(c)
    BY <2>3 DEF run, project_containers, MadeBy, vars
  <2>4. CASE one_of_them(c)
    <3>1. PICK k \in cmd[c].todo, s \in {"paused", "running"} :
             UNCHANGED containers \/ Set(k, "status", s)
      BY <2>4 DEF one_of_them
    <3>2. cmd[c].pc \in Eachs /\ UNCHANGED oneOffs /\ k \in DOMAIN containers
      BY <1>2, <2>4 DEF one_of_them, Eachs
    <3> QED BY <3>1, <3>2 DEF Statuses, Eachs, MadeBy
  <2>5. CASE list_stopped(c) \/ next_number(c) \/ remove_stopped(c)
    BY <2>5 DEF list_stopped, next_number, remove_stopped, MadeBy, vars
  <2>6. CASE join(c)
    BY <2>6 DEF join, MadeBy, vars
  <2>7. CASE in_parallel(c)
    <3>1. PICK k \in cmd[c].todo : UNCHANGED containers \/ Set(k, "status", Target(cmd[c].pc))
      BY <2>7 DEF in_parallel
    <3>2. /\ cmd[c].pc \in {"starting", "stopping", "removing"} /\ UNCHANGED oneOffs
          /\ k \in DOMAIN containers
      BY <1>2, <2>7 DEF in_parallel, Phases
    <3>3. Target(cmd[c].pc) \in Statuses \ {"created"}
      BY <3>2 DEF Target, Statuses
    <3> QED BY <3>1, <3>2, <3>3 DEF MadeBy
  <2> QED BY <1>2, <2>1, <2>2, <2>3, <2>4, <2>5, <2>6, <2>7 DEF CommandBegin, CommandStep
<1>4. /\ DOMAIN containers' = DOMAIN containers
      /\ \A l \in DOMAIN containers : Created(l)' => Created(l)
  BY <1>2, <1>3, NoneCreated
<1> QED BY <1>1, <1>3, <1>4, SomebodyStartsAfter, SomebodyStartsOneOffsAfter

LEMMA CreateNumberHalfMade ==
    ASSUME CommandsTyped, SomebodyStarts, SomebodyStartsOneOffs, NEW c \in Clients,
           create_number(c), ~cmd'[c].errors
    PROVE  SomebodyStarts' /\ SomebodyStartsOneOffs'
<1>1. /\ UNCHANGED <<up, oneOffs>> /\ cmd[c].pc = "creating"
      /\ \A d \in Clients : d # c => cmd'[d] = cmd[d]
  BY CommandFrame DEF create_number, CommandStep
<1>2. /\ cmd \in [Clients -> Command] /\ cmd[c] \in Command
      /\ containers \in Seq(Container) /\ TypeOK
  BY DEF CommandsTyped, CommandsTypeOK, TypeOK
<1>3. PICK i \in cmd[c].numbers :
              \/ cmd' = [cmd EXCEPT ![c] =
                    [cmd[c] EXCEPT !.numbers = cmd[c].numbers \ {i}, !.errors = TRUE]]
              \/ /\ containers' = Append(containers, Numbered(i))
                 /\ cmd' = [cmd EXCEPT ![c] =
                       [cmd[c] EXCEPT !.numbers = cmd[c].numbers \ {i},
                                      !.made = cmd[c].made \cup {Len(containers) + 1}]]
  BY CreateNumberIs
<1> DEFINE refused == [cmd[c] EXCEPT !.numbers = cmd[c].numbers \ {i}, !.errors = TRUE]
           created == [cmd[c] EXCEPT !.numbers = cmd[c].numbers \ {i},
                                     !.made = cmd[c].made \cup {Len(containers) + 1}]
<1>4. /\ refused.errors = TRUE /\ created.pc = "creating"
      /\ created.made = cmd[c].made \cup {Len(containers) + 1}
  BY <1>1, <1>2 DEF Command
<1>5. /\ containers' = Append(containers, Numbered(i))
      /\ cmd'[c].made = cmd[c].made \cup {Len(containers) + 1} /\ cmd'[c].pc = "creating"
  <2>1. \/ cmd' = [cmd EXCEPT ![c] = refused]
        \/ /\ containers' = Append(containers, Numbered(i))
           /\ cmd' = [cmd EXCEPT ![c] = created]
    BY <1>3
  <2> HIDE DEF refused, created
  <2>2. cmd' # [cmd EXCEPT ![c] = refused]
    BY <1>2, <1>4
  <2> QED BY <1>2, <1>4, <2>1, <2>2
<1>6. Numbered(i) \in Container
  <2>1. i \in Nat
    BY <1>2 DEF Command
  <2> QED BY <1>2, <2>1, NumberedIs
<1>7. /\ DOMAIN containers' = DOMAIN containers \cup {Len(containers) + 1}
      /\ \A l \in DOMAIN containers : containers'[l] = containers[l]
  BY <1>2, <1>5, <1>6, AppendContainer
<1>8. SomebodyStarts'
  <2> SUFFICES ASSUME NEW k \in DOMAIN containers', Created(k)'
               PROVE  (\E r \in Ups : StartsNext(r, k)') \/ (\E d \in Clients : MadeBy(d, k)')
    BY DEF SomebodyStarts
  <2>1. CASE k = Len(containers) + 1
    <3>1. MadeBy(c, k)'
      BY <1>5, <2>1 DEF MadeBy
    <3> QED BY <3>1
  <2>2. CASE k \in DOMAIN containers
    <3>1. (\E r \in Ups : StartsNext(r, k)) \/ (\E d \in Clients : MadeBy(d, k))
      BY <1>7, <2>2 DEF SomebodyStarts, Created
    <3>2. ASSUME NEW r \in Ups, StartsNext(r, k) PROVE StartsNext(r, k)'
      BY <1>1, <3>2 DEF StartsNext
    <3>3. ASSUME NEW d \in Clients, MadeBy(d, k) PROVE MadeBy(d, k)'
      BY <1>1, <1>5, <3>3 DEF MadeBy
    <3> QED BY <3>1, <3>2, <3>3
  <2> QED BY <1>7, <2>1, <2>2
<1> QED BY <1>1, <1>8, SomebodyStartsOneOffsAfter

LEMMA StartNumberHalfMade ==
    ASSUME CommandsTyped, SomebodyStarts, SomebodyStartsOneOffs, NEW c \in Clients,
           start_number(c), ~cmd'[c].errors
    PROVE  SomebodyStarts' /\ SomebodyStartsOneOffs'
<1>1. /\ UNCHANGED <<up, oneOffs>> /\ cmd[c].pc = "creating"
      /\ \A d \in Clients : d # c => cmd'[d] = cmd[d]
  BY CommandFrame DEF start_number, CommandStep
<1>2. /\ cmd \in [Clients -> Command] /\ cmd[c] \in Command /\ Typed
      /\ cmd[c].made \subseteq DOMAIN containers
  BY <1>1, TypedToo, CommandLocals DEF CommandsTyped, CommandsTypeOK
<1>3. PICK k \in cmd[c].made :
          /\ IF Operable(k) THEN Set(k, "status", "running") ELSE UNCHANGED containers
          /\ cmd' = [cmd EXCEPT ![c].made = @ \ {k}, ![c].errors = @ \/ ~Operable(k)]
  BY DEF start_number
<1>4. cmd'[c].errors = (cmd[c].errors \/ ~Operable(k)) /\ cmd'[c].made = cmd[c].made \ {k}
      /\ cmd'[c].pc = "creating"
  BY <1>1, <1>2, <1>3 DEF Command
<1>5. Set(k, "status", "running")
  BY <1>3, <1>4
<1>6. /\ DOMAIN containers' = DOMAIN containers
      /\ \A l \in DOMAIN containers : Created(l)' => Created(l)
      /\ ~Created(k)'
  BY <1>2, <1>5, NoneCreated DEF Statuses
<1>7. \A l \in DOMAIN containers : Created(l)' /\ MadeBy(c, l) => MadeBy(c, l)'
  BY <1>4, <1>6 DEF MadeBy
<1> QED BY <1>1, <1>6, <1>7, SomebodyStartsAfter, SomebodyStartsOneOffsAfter

LEMMA CreateOneOffHalfMade ==
    ASSUME CommandsTyped, SomebodyStarts, SomebodyStartsOneOffs, NEW c \in Clients,
           create_one_off(c), ~Bad(cmd'[c].result)
    PROVE  SomebodyStarts' /\ SomebodyStartsOneOffs'
<1>1. /\ UNCHANGED <<up, containers>> /\ cmd[c].pc = "run"
      /\ \A d \in Clients : d # c => cmd'[d] = cmd[d]
  BY CommandFrame DEF create_one_off, CommandStep, vars
<1>2. /\ cmd \in [Clients -> Command] /\ cmd[c] \in Command /\ oneOffs \in Seq(OneOff)
  BY DEF CommandsTyped, CommandsTypeOK, OneOff
<1>3. ~CmdEnd(c, "failed")
  BY <1>2, EndedIs, CmdEndIs DEF Bad
<1>4. PICK n : oneOffs' = Append(oneOffs, [number |-> n, started |-> FALSE])
  BY <1>3 DEF create_one_off
<1>5. cmd'[c].pc = "start_one_off" /\ cmd'[c].made = {Len(oneOffs) + 1}
  BY <1>2, <1>3 DEF create_one_off, Command
<1>6. SomebodyStarts'
  BY <1>1, SomebodyStartsAfter DEF MadeBy, Created
<1>7. SomebodyStartsOneOffs'
  <2> SUFFICES ASSUME NEW i \in DOMAIN oneOffs'
               PROVE  oneOffs'[i].started \/ \E d \in Clients : OneOffOf(d, i)'
    BY DEF SomebodyStartsOneOffs
  <2>1. CASE i = Len(oneOffs) + 1
    <3>1. OneOffOf(c, i)'
      BY <1>5, <2>1 DEF OneOffOf
    <3> QED BY <3>1
  <2>2. CASE i # Len(oneOffs) + 1
    <3>1. i \in DOMAIN oneOffs /\ oneOffs'[i] = oneOffs[i]
      BY <1>2, <1>4, <2>2
    <3>2. oneOffs[i].started \/ \E d \in Clients : OneOffOf(d, i)
      BY <3>1 DEF SomebodyStartsOneOffs
    <3>3. ASSUME NEW d \in Clients, OneOffOf(d, i) PROVE OneOffOf(d, i)'
      BY <1>1, <3>3 DEF OneOffOf
    <3> QED BY <3>1, <3>2, <3>3
  <2> QED BY <2>1, <2>2
<1> QED BY <1>6, <1>7

LEMMA StartOneOffHalfMade ==
    ASSUME CommandsTyped, SomebodyStarts, SomebodyStartsOneOffs, NEW c \in Clients,
           start_one_off(c), ~Bad(cmd'[c].result)
    PROVE  SomebodyStarts' /\ SomebodyStartsOneOffs'
<1>1. /\ UNCHANGED <<up, containers>> /\ cmd[c].pc = "start_one_off"
      /\ \A d \in Clients : d # c => cmd'[d] = cmd[d]
  BY CommandFrame DEF start_one_off, CommandStep, vars
<1>2. /\ cmd \in [Clients -> Command] /\ cmd[c] \in Command /\ oneOffs \in Seq(OneOff)
  BY DEF CommandsTyped, CommandsTypeOK, OneOff
<1>3. ~CmdEnd(c, "failed")
  BY <1>2, EndedIs, CmdEndIs DEF Bad
<1>4. oneOffs' = [i \in DOMAIN oneOffs |->
                     [oneOffs[i] EXCEPT !.started = @ \/ i \in cmd[c].made]]
  BY <1>3 DEF start_one_off
<1>5. SomebodyStarts'
  BY <1>1, SomebodyStartsAfter DEF MadeBy, Created
<1>6. SomebodyStartsOneOffs'
  <2> SUFFICES ASSUME NEW i \in DOMAIN oneOffs'
               PROVE  oneOffs'[i].started \/ \E d \in Clients : OneOffOf(d, i)'
    BY DEF SomebodyStartsOneOffs
  <2>1. i \in DOMAIN oneOffs /\ oneOffs[i] \in OneOff
    BY <1>2, <1>4
  <2>2. oneOffs'[i].started = (oneOffs[i].started \/ i \in cmd[c].made)
    BY <1>4, <2>1 DEF OneOff
  <2>3. oneOffs[i].started \/ \E d \in Clients : OneOffOf(d, i)
    BY <2>1 DEF SomebodyStartsOneOffs
  <2>4. ASSUME NEW d \in Clients, OneOffOf(d, i) PROVE OneOffOf(d, i)' \/ i \in cmd[c].made
    BY <1>1, <2>4 DEF OneOffOf
  <2> QED BY <2>2, <2>3, <2>4
<1> QED BY <1>5, <1>6

LEMMA CommandHalfMade ==
    ASSUME CommandsTyped, HalfMadeInv, NEW c \in Clients,
           CommandBegin(c) \/ CommandStep(c) \/ Die(c)
    PROVE  HalfMadeInv'
<1>1. /\ Answered'
      /\ SomethingWrong => SomethingWrong'
      /\ ~SomethingWrong' => ~Bad(cmd'[c].result) /\ ~cmd'[c].errors
  BY CommandStaysWrong DEF HalfMadeInv
<1>2. ASSUME ~SomethingWrong' PROVE SomebodyStarts' /\ SomebodyStartsOneOffs'
  BY <1>1, <1>2, OtherCommandsHalfMade, CreateNumberHalfMade, StartNumberHalfMade,
     CreateOneOffHalfMade, StartOneOffHalfMade DEF HalfMadeInv
<1> QED BY <1>1, <1>2 DEF HalfMadeInv

\* An up starts what it has created in its next call, or is refused.
LEMMA UpHalfMade ==
    ASSUME CommandsTyped, SomebodyStarts, NEW r \in Ups, Step(r), UNCHANGED cmd,
           ~Bad(up'[r].result)
    PROVE  SomebodyStarts'
<1>1. Typed /\ containers \in Seq(Container) /\ up \in [Ups -> Up] /\ up[r] \in Up
  BY TypedToo DEF CommandsTyped, CommandsTypeOK, TypeOK
<1>2. \A s \in Ups : s # r => up'[s] = up[s]
  BY <1>1, UpFrame
<1>3. ~Refused(r)
  <2> SUFFICES ASSUME Refused(r) PROVE FALSE
    OBVIOUS
  <2>1. up'[r].result = "refused"
    BY <1>1 DEF Refused, End, Up
  <2> QED BY <2>1 DEF Bad
<1>4. ASSUME NEW k \in DOMAIN containers,
             (\E q \in Ups : StartsNext(q, k)) \/ (\E d \in Clients : MadeBy(d, k)),
             StartsNext(r, k) => StartsNext(r, k)'
      PROVE  (\E q \in Ups : StartsNext(q, k)') \/ (\E d \in Clients : MadeBy(d, k)')
  <2>1. ASSUME NEW q \in Ups, StartsNext(q, k) PROVE StartsNext(q, k)'
    BY <1>2, <1>4, <2>1 DEF StartsNext
  <2>2. ASSUME NEW d \in Clients, MadeBy(d, k) PROVE MadeBy(d, k)'
    BY <2>2 DEF MadeBy
  <2> QED BY <1>4, <2>1, <2>2
<1>5. CASE create(r) \/ renew(r)
  <2>1. PICK number, data :
           \E pc \in {"start_created", "start_renewed"} : Create(r, number, data, pc)
    BY <1>5 DEF create, renew
  <2>2. PICK pc \in {"start_created", "start_renewed"} :
           /\ containers' = Append(containers, Fresh(number, data))
           /\ up' = [up EXCEPT ![r] = AfterCreate(r, pc)]
    BY <1>3, <2>1 DEF Create, Fresh, AfterCreate
  <2>3. up'[r].pc = pc /\ up'[r].new = Len(containers) + 1
    BY <1>1, <2>2 DEF AfterCreate, Up
  <2> SUFFICES ASSUME NEW k \in DOMAIN containers', Created(k)'
               PROVE  (\E q \in Ups : StartsNext(q, k)') \/ (\E d \in Clients : MadeBy(d, k)')
    BY DEF SomebodyStarts
  <2>4. CASE k = Len(containers) + 1
    <3>1. StartsNext(r, k)'
      BY <2>3, <2>4 DEF StartsNext
    <3> QED BY <3>1
  <2>5. CASE k # Len(containers) + 1
    <3>1. k \in DOMAIN containers /\ containers'[k] = containers[k]
      BY <1>1, <2>2, <2>5
    <3>2. ~StartsNext(r, k)
      BY <1>5 DEF StartsNext, create, renew
    <3>3. (\E q \in Ups : StartsNext(q, k)) \/ (\E d \in Clients : MadeBy(d, k))
      BY <3>1 DEF SomebodyStarts, Created
    <3> QED BY <1>4, <3>1, <3>2, <3>3
  <2> QED BY <2>4, <2>5
<1>6. CASE ~(create(r) \/ renew(r))
  <2>1. \/ UNCHANGED containers
        \/ StatusCall
        \/ rename(r) /\ RenameCall(r)
    BY <1>6, UpCalls
  <2>2. \/ UNCHANGED containers
        \/ \E k \in DOMAIN containers, s \in Statuses \ {"created"} : Set(k, "status", s)
        \/ \E k \in DOMAIN containers : Set(k, "own", FALSE)
    BY <2>1, <1>1, ExistingAre DEF StatusCall, RenameCall, Statuses
  <2>3. /\ DOMAIN containers' = DOMAIN containers
        /\ \A l \in DOMAIN containers : Created(l)' => Created(l)
        /\ \A k \in DOMAIN containers, s \in Statuses \ {"created"} :
                 Set(k, "status", s) => ~Created(k)'
    BY <1>1, <2>2, NoneCreated
  <2>4. ASSUME NEW k \in DOMAIN containers, Created(k)'  PROVE ~StartsNext(r, k)
    <3> SUFFICES ASSUME StartsNext(r, k) PROVE FALSE
      OBVIOUS
    <3>1. Set(k, "status", "running")
      BY <1>3 DEF StartsNext, Step, duplicate_containers, stop_duplicate, remove_duplicate,
         convergence_plan, create, start_created, start, recreate, rename, renew,
         start_renewed, remove_old
    <3> QED BY <2>3, <2>4, <3>1 DEF Statuses
  <2> QED BY <1>4, <2>3, <2>4 DEF SomebodyStarts
<1> QED BY <1>5, <1>6

\* What a step of an up may answer.
LEMMA ResultOfStep ==
    ASSUME Typed, NEW r \in Ups, Step(r), ~Refused(r)
    PROVE  up'[r].result \in {"none", "ok", up[r].result}
<1>1. up \in [Ups -> Up] /\ up[r] \in Up
  BY DEF Typed, TypeOK
<1> USE <1>1 DEF Up
<1>2. ASSUME NEW rest, NEW pc, Loop(r, rest, pc)
      PROVE  up'[r].result \in {"none", "ok"}
  <2> DEFINE u == [up[r] EXCEPT !.todo = rest, !.pc = IF rest = {} THEN "done" ELSE pc,
                                !.result = IF rest = {} THEN "ok" ELSE "none"]
  <2>1. up' = [up EXCEPT ![r] = u]
    BY <1>2 DEF Loop
  <2>2. u.result \in {"none", "ok"}
    OBVIOUS
  <2> HIDE DEF u
  <2> QED BY <2>1, <2>2
<1>3. CASE duplicate_containers(r)
  BY <1>3 DEF duplicate_containers
<1>4. CASE convergence_plan(r)
  <2> DEFINE plan == PlanFor(up[r].strategy)
  <2>1. Execute(r, plan)
    BY <1>4 DEF convergence_plan
  <2> HIDE DEF plan
  <2> QED BY <2>1 DEF Execute, End
<1>5. CASE stop_duplicate(r) \/ remove_duplicate(r)
  BY <1>5 DEF stop_duplicate, remove_duplicate, Goto
<1>6. CASE create(r) \/ renew(r)
  <2>1. PICK number, data, pc : Create(r, number, data, pc)
    BY <1>6 DEF create, renew
  <2> QED BY <2>1 DEF Create
<1>7. CASE start(r) \/ remove_old(r)
  <2>1. PICK rest, pc : Loop(r, rest, pc)
    BY <1>7 DEF start, remove_old
  <2> QED BY <1>2, <2>1
<1>8. CASE start_created(r)
  BY <1>8 DEF start_created, End
<1>9. CASE recreate(r) \/ rename(r) \/ start_renewed(r)
  <2>1. CASE recreate(r)
    BY <2>1 DEF recreate, Goto
  <2>2. CASE rename(r)
    BY <2>2 DEF rename, Goto
  <2>3. CASE start_renewed(r)
    BY <2>3 DEF start_renewed, Goto
  <2> QED BY <1>9, <2>1, <2>2, <2>3
<1> QED BY <1>3, <1>4, <1>5, <1>6, <1>7, <1>8, <1>9 DEF Step

LEMMA UpStepHalfMade ==
    ASSUME CommandsTyped, HalfMadeInv, NEW r \in Ups, up_step(r)
    PROVE  HalfMadeInv'
<1>1. UNCHANGED <<cmd, oneOffs>> /\ Typed /\ up \in [Ups -> Up] /\ up[r] \in Up
  BY TypedToo DEF up_step, CommandsTyped, CommandsTypeOK, TypeOK
<1>2. Step(r) \/ (Refused(r) /\ Active(r))
  BY DEF up_step, Active
<1>3. Bad(up'[r].result) => up'[r].pc = "done"
  <2>1. up[r].pc # "done"
    BY <1>1, <1>2, UpFrame
  <2>2. ~Bad(up[r].result)
    BY <2>1 DEF HalfMadeInv, Answered
  <2>3. CASE Refused(r)
    BY <1>1, <2>3 DEF Refused, End, Up
  <2>4. CASE Step(r)
    BY <1>1, <2>2, <2>3, <2>4, ResultOfStep DEF Bad
  <2> QED BY <1>2, <2>3, <2>4
<1>4. /\ Answered'
      /\ SomethingWrong => SomethingWrong'
      /\ ~SomethingWrong' => ~Bad(up'[r].result)
  BY <1>1, <1>2, <1>3, UpStaysWrong DEF HalfMadeInv
<1>5. ASSUME ~SomethingWrong' PROVE SomebodyStarts'
  <2>1. Step(r)
    <3> SUFFICES ASSUME Refused(r) PROVE FALSE
      BY <1>2
    <3>1. up'[r].result = "refused"
      BY <1>1 DEF Refused, End, Up
    <3> QED BY <1>4, <1>5, <3>1 DEF Bad
  <2> QED BY <1>1, <1>4, <1>5, <2>1, UpHalfMade DEF HalfMadeInv
<1>6. SomebodyStartsOneOffs => SomebodyStartsOneOffs'
  BY <1>1 DEF SomebodyStartsOneOffs, OneOffOf
<1> QED BY <1>4, <1>5, <1>6 DEF HalfMadeInv

LEMMA OthersHalfMade ==
    ASSUME CommandsTyped, HalfMadeInv,
           \/ \E r \in Ups, strategy \in Strategies : begin_up(r, strategy)
           \/ Around
    PROVE  HalfMadeInv'
<1>1. UNCHANGED <<cmd, oneOffs>> /\ Typed /\ up \in [Ups -> Up]
  BY TypedToo DEF begin_up, Around, CommandsTyped, CommandsTypeOK, TypeOK
<1>2. SomebodyStartsOneOffs => SomebodyStartsOneOffs'
  BY <1>1 DEF SomebodyStartsOneOffs, OneOffOf
<1>3. ASSUME NEW r \in Ups, NEW strategy \in Strategies, begin_up(r, strategy)
      PROVE  HalfMadeInv'
  <2>1. /\ UNCHANGED containers /\ up[r].pc = "idle"
        /\ up'[r].pc = "duplicates" /\ up'[r].result = up[r].result
        /\ \A s \in Ups : s # r => up'[s] = up[s]
    BY <1>1, <1>3 DEF begin_up, Begin, Up
  <2>2. Answered' /\ (SomethingWrong => SomethingWrong')
    BY <1>1, <2>1 DEF HalfMadeInv, Answered, SomethingWrong, Bad
  <2>3. ASSUME SomebodyStarts PROVE SomebodyStarts'
    <3> SUFFICES ASSUME NEW k \in DOMAIN containers, Created(k)
                 PROVE  (\E q \in Ups : StartsNext(q, k)') \/ (\E d \in Clients : MadeBy(d, k)')
      BY <2>1 DEF SomebodyStarts, Created
    <3>1. (\E q \in Ups : StartsNext(q, k)) \/ (\E d \in Clients : MadeBy(d, k))
      BY <2>3 DEF SomebodyStarts
    <3>2. ASSUME NEW q \in Ups, StartsNext(q, k) PROVE StartsNext(q, k)'
      BY <2>1, <3>2 DEF StartsNext
    <3>3. ASSUME NEW d \in Clients, MadeBy(d, k) PROVE MadeBy(d, k)'
      BY <1>1, <3>3 DEF MadeBy
    <3> QED BY <3>1, <3>2, <3>3
  <2> QED BY <1>2, <2>2, <2>3 DEF HalfMadeInv
<1>4. ASSUME NEW r \in Ups, Fail(r) PROVE HalfMadeInv'
  <2>1. up'[r].result = "failed" /\ up'[r].pc = "done"
    BY <1>1, <1>4 DEF Fail, End, Up
  <2>2. Answered' /\ SomethingWrong'
    BY <1>1, <1>4, <2>1, UpStaysWrong DEF HalfMadeInv, SomethingWrong, Bad
  <2> QED BY <2>2 DEF HalfMadeInv
<1>5. CASE Rebuild
  <2>1. UNCHANGED <<containers, up>>
    BY <1>5 DEF Rebuild
  <2> QED BY <1>1, <1>2, <2>1
          DEF HalfMadeInv, Answered, SomethingWrong, SomebodyStarts, Created, StartsNext, MadeBy
<1>6. ASSUME NEW k \in DOMAIN containers, Exit(k) PROVE HalfMadeInv'
  <2>1. UNCHANGED up /\ Set(k, "status", "exited")
    BY <1>6 DEF Exit
  <2>2. /\ DOMAIN containers' = DOMAIN containers
        /\ \A l \in DOMAIN containers : Created(l)' => Created(l)
    BY <1>1, <2>1, NoneCreated DEF Statuses
  <2>3. SomebodyStarts => SomebodyStarts'
    BY <1>1, <2>1, <2>2 DEF SomebodyStarts, StartsNext, MadeBy
  <2> QED BY <1>1, <1>2, <2>1, <2>3 DEF HalfMadeInv, Answered, SomethingWrong
<1> QED BY <1>3, <1>4, <1>5, <1>6 DEF Around

LEMMA InitHalfMade == CommandsInit => HalfMadeInv
<1> SUFFICES ASSUME CommandsInit PROVE HalfMadeInv
  OBVIOUS
<1>1. /\ \A c \in Clients : cmd[c].result = "none"
      /\ \A r \in Ups : up[r].result = "none"
      /\ oneOffs = <<>>
  BY DEF CommandsInit, Start
<1>2. \A k \in DOMAIN containers : containers[k].status = "running"
  BY DEF CommandsInit, Start
<1> QED BY <1>1, <1>2
        DEF HalfMadeInv, Answered, Bad, SomebodyStarts, SomebodyStartsOneOffs, Created

LEMMA HalfMadeHolds == CommandsSpec => []HalfMadeInv
<1>1. CommandsTyped /\ HalfMadeInv /\ [CommandsNext]_cvars => HalfMadeInv'
  <2> SUFFICES ASSUME CommandsTyped, HalfMadeInv, [CommandsNext]_cvars PROVE HalfMadeInv'
    OBVIOUS
  <2>1. CASE UNCHANGED cvars \/ AllDone
    BY <2>1 DEF AllDone, cvars, vars, HalfMadeInv, Answered, SomethingWrong, SomebodyStarts,
       SomebodyStartsOneOffs, Created, StartsNext, MadeBy, OneOffOf
  <2> QED BY <2>1, CommandHalfMade, UpStepHalfMade, OthersHalfMade DEF CommandsNext
<1> QED BY <1>1, InitHalfMade, CommandsTypedHolds, PTL DEF CommandsSpec

\* However commands and ups overlap, every container and one-off container
\* that is created is started, unless a command or an up was refused, failed
\* or died: whoever creates one is on the way to starting it, and nobody else
\* can make the daemon refuse that silently.
THEOREM NothingIsHalfMade == CommandsSpec => []NothingHalfMade
<1>1. CommandsTyped /\ HalfMadeInv => NothingHalfMade
  <2> SUFFICES ASSUME CommandsTyped, HalfMadeInv, ~Busy,
                      \A c \in Clients : cmd[c].result \in {"none", "ok"} /\ ~cmd[c].errors,
                      \A r \in Ups : up[r].result \in {"none", "ok"}
               PROVE  /\ \A k \in Existing : containers[k].status # "created"
                      /\ \A i \in DOMAIN oneOffs : oneOffs[i].started
    BY DEF NothingHalfMade
  <2>1. SomebodyStarts /\ SomebodyStartsOneOffs
    BY DEF HalfMadeInv, SomethingWrong, Bad
  <2>2. /\ \A c \in Clients : cmd[c].pc \in {"idle", "done"}
        /\ \A r \in Ups : up[r].pc \in {"idle", "done"}
    BY DEF Busy, InProgress, Active
  <2> QED BY <2>1, <2>2 DEF SomebodyStarts, SomebodyStartsOneOffs, Created, StartsNext,
          MadeBy, OneOffOf, Existing
<1> QED BY <1>1, HalfMadeHolds, CommandsTypedHolds, PTL

(***************************************************************************)
(* The volumes, when commands and ups are given in turns                   *)
(***************************************************************************)
Commanding(c) == cmd[c].pc \notin {"idle", "done"}

OneAtATime ==
    /\ \A c, d \in Clients : Commanding(c) /\ Commanding(d) => c = d
    /\ \A r, s \in Ups : Active(r) /\ Active(s) => r = s
    /\ \A c \in Clients, r \in Ups : ~(Commanding(c) /\ Active(r))

Quiet ==
    /\ \A c \in Clients : ~cmd[c].errors
    /\ \A r, s \in FailedUps : r = s

\* the containers with the volumes, which are copies of the first one
Firsts == {k \in Existing : containers[k].data = 1}
Others == Existing \ Firsts

\* they are those with the least number
Numbers ==
    \A k \in Firsts, l \in Existing :
       /\ containers[k].number <= containers[l].number
       /\ containers[l].number = containers[k].number => l \in Firsts

SomeFirst == containers # <<>> => Firsts # {}

\* the container an up has replaced and is about to remove, or that it has
\* renamed and is about to replace
LeftBy(r, k) == up[r].pc \in {"start_renewed", "remove_old"} /\ up[r].at = k
RenamedBy(r, k) == up[r].pc = "renew" /\ up[r].at = k
Leaving(k) == \E r \in Ups : LeftBy(r, k)
Nameless(k) == \E r \in Ups : RenamedBy(r, k)

\* There is another container only when an up has failed after renaming, and
\* so has left its name free, and then only one.
OneOther ==
    /\ FailedUps = {} => Others = {}
    /\ \A k, l \in Others : k = l \/ Leaving(k) \/ Leaving(l)
    /\ \A k \in Existing : \/ containers[k].own \/ Leaving(k) \/ Nameless(k)
                           \/ k \in Firsts /\ FailedUps # {}

\* what an up will remove is not the last container with the volumes
UpKeeps(r) ==
    LET pc == up[r].pc IN
    /\ pc \in {"stop_duplicate", "remove_duplicate"} =>
          up[r].todo # {} /\ \E k \in Firsts : k \notin up[r].todo
    /\ pc = "create" => Existing = {}
    /\ pc \in {"renew", "start_renewed", "remove_old"} => up[r].at \in Existing
    /\ pc \in {"start_renewed", "remove_old"} =>
          /\ up[r].new \in Existing /\ up[r].new # up[r].at
          /\ containers[up[r].new].data = containers[up[r].at].data

\* nor what a command will: container k survives it
Keeps(c, k) ==
    LET pc == cmd[c].pc IN
    /\ pc = "starting" => Running(k) \/ k \in cmd[c].todo
    /\ pc \in {"next_number", "remove_stopped"} => Running(k)
    /\ pc = "creating" => Running(k) \/ k \in cmd[c].made
    /\ pc \in {"stopping", "removing"} => Running(k) /\ k \notin cmd[c].todo

CommandKeeps(c) ==
    /\ cmd[c].pc \in Phases \cup {"next_number", "remove_stopped"} =>
          Existing = {} \/ \E k \in Firsts : Keeps(c, k)
    /\ cmd[c].pc = "list_stopped" =>
          cmd[c].running = Cardinality(RunningOnes) /\ cmd[c].running < cmd[c].desired
    /\ cmd[c].pc = "creating" =>
          NameTaken \/ \A k \in Existing, i \in cmd[c].numbers : containers[k].number < i

Kept ==
    /\ Numbers /\ SomeFirst /\ OneOther
    /\ \A r \in Ups : UpKeeps(r)
    /\ \A c \in Clients : CommandKeeps(c)

VolumesInv == overlap = 1 => OneAtATime /\ (Quiet => Kept)

(***************************************************************************)
(* One at a time                                                           *)
(***************************************************************************)
\* With one at a time, whoever begins finds nobody else at work.
LEMMA NobodyAtWork ==
    ASSUME overlap = 1, OneAtATime, MayBegin
    PROVE  (\A c \in Clients : ~Commanding(c)) /\ (\A r \in Ups : ~Active(r))
<1> SUFFICES ASSUME NEW x \in InProgress PROVE FALSE
  BY DEF InProgress, Commanding
<1>1. InProgress = {x}
  BY DEF InProgress, Commanding, OneAtATime
<1>2. Cardinality(InProgress) = 1
  BY <1>1, FS_Singleton
<1> QED BY <1>2 DEF MayBegin

LEMMA CommandIsAtWork ==
    ASSUME NEW c \in Clients, CommandStep(c) \/ Die(c)
    PROVE  Commanding(c)
BY DEF CommandStep, Die, Commanding, one_of_them, list_stopped, next_number,
       create_number, start_number, in_parallel, join, remove_stopped, create_one_off,
       start_one_off, Eachs, Phases

LEMMA UpIsAtWork ==
    ASSUME NEW r \in Ups, up_step(r) \/ Fail(r)
    PROVE  Active(r)
BY DEF up_step, Step, Fail, Active, duplicate_containers, stop_duplicate, remove_duplicate,
       convergence_plan, create, start_created, start, recreate, rename, renew,
       start_renewed, remove_old

\* While a command is at work, or begins, no up is and no other command.
LEMMA CommandAlone ==
    ASSUME CommandsTyped, overlap = 1, OneAtATime,
           NEW c \in Clients, CommandBegin(c) \/ CommandStep(c) \/ Die(c)
    PROVE  /\ \A d \in Clients : d # c => ~Commanding(d) /\ cmd'[d] = cmd[d]
           /\ \A r \in Ups : ~Active(r)
           /\ UNCHANGED up
<1>1. /\ \A d \in Clients : d # c => cmd'[d] = cmd[d]
      /\ UNCHANGED up
  BY CommandFrame
<1>2. CASE CommandBegin(c)
  <2>1. MayBegin
    BY <1>2 DEF CommandBegin, for_each, scale, run, project_containers
  <2> QED BY <1>1, <2>1, NobodyAtWork
<1>3. CASE CommandStep(c) \/ Die(c)
  BY <1>1, <1>3, CommandIsAtWork DEF OneAtATime
<1> QED BY <1>2, <1>3

\* The same of an up.
LEMMA UpAlone ==
    ASSUME CommandsTyped, overlap = 1, OneAtATime, NEW r \in Ups,
           (\E strategy \in Strategies : begin_up(r, strategy)) \/ up_step(r) \/ Fail(r)
    PROVE  /\ \A s \in Ups : s # r => ~Active(s) /\ up'[s] = up[s]
           /\ \A c \in Clients : ~Commanding(c)
<1>1. Typed /\ up \in [Ups -> Up]
  BY TypedToo DEF Typed, TypeOK
<1>2. CASE \E strategy \in Strategies : begin_up(r, strategy)
  BY <1>1, <1>2, NobodyAtWork DEF begin_up, Begin
<1>3. CASE up_step(r) \/ Fail(r)
  <2>1. Active(r)
    BY <1>3, UpIsAtWork
  <2>2. \A s \in Ups : s # r => up'[s] = up[s]
    BY <1>1, <1>3, <2>1, UpFrame DEF up_step
  <2> QED BY <2>1, <2>2 DEF OneAtATime
<1> QED BY <1>2, <1>3

LEMMA OneAtATimeNext ==
    ASSUME CommandsTyped, overlap = 1, OneAtATime, CommandsNext
    PROVE  OneAtATime'
<1>1. ASSUME NEW c \in Clients, CommandBegin(c) \/ CommandStep(c) \/ Die(c)
      PROVE  OneAtATime'
  BY <1>1, CommandAlone DEF OneAtATime, Commanding, Active
<1>2. ASSUME NEW r \in Ups, UNCHANGED cmd,
             (\E strategy \in Strategies : begin_up(r, strategy)) \/ up_step(r) \/ Fail(r)
      PROVE  OneAtATime'
  BY <1>2, UpAlone DEF OneAtATime, Commanding, Active
<1>3. CASE UNCHANGED <<up, cmd>>
  BY <1>3 DEF OneAtATime, Commanding, Active
<1>4. CASE Around
  <2>1. CASE UNCHANGED up
    BY <1>3, <1>4, <2>1 DEF Around
  <2>2. CASE \E r \in Ups : Fail(r)
    BY <1>2, <1>4, <2>2 DEF Around
  <2> QED BY <1>4, <2>1, <2>2 DEF Around, Rebuild, Exit
<1>5. CASE AllDone
  BY <1>3, <1>5 DEF AllDone, cvars, vars
<1>6. ASSUME NEW r \in Ups, NEW strategy \in Strategies, begin_up(r, strategy)
      PROVE  OneAtATime'
  BY <1>2, <1>6 DEF begin_up
<1>7. ASSUME NEW r \in Ups, up_step(r) PROVE OneAtATime'
  BY <1>2, <1>7 DEF up_step
<1> QED BY <1>1, <1>4, <1>5, <1>6, <1>7 DEF CommandsNext

\* Nothing that has gone wrong is forgotten.
LEMMA QuietBefore ==
    ASSUME CommandsTyped, Answered, CommandsNext, Quiet'
    PROVE  Quiet
<1>1. ASSUME NEW c \in Clients, CommandBegin(c) \/ CommandStep(c) \/ Die(c)
      PROVE  Quiet
  <2>1. /\ UNCHANGED up
        /\ \A d \in Clients : d # c => cmd'[d] = cmd[d]
        /\ cmd[c].errors => cmd'[c].errors
    BY <1>1, CommandFrame
  <2>2. FailedUps' = FailedUps
    BY <2>1 DEF FailedUps
  <2> QED BY <2>1, <2>2 DEF Quiet
<1>2. ASSUME NEW r \in Ups, UNCHANGED cmd, up[r].pc # "done",
             \A s \in Ups : s # r => up'[s] = up[s]
      PROVE  Quiet
  <2>1. FailedUps \subseteq FailedUps'
    BY <1>2 DEF FailedUps, Answered, Bad
  <2> QED BY <1>2, <2>1 DEF Quiet
<1>3. CASE UNCHANGED <<up, cmd>>
  BY <1>3 DEF Quiet, FailedUps
<1>4. ASSUME NEW r \in Ups, NEW strategy \in Strategies, begin_up(r, strategy)
      PROVE  Quiet
  BY <1>2, <1>4 DEF begin_up, Begin, CommandsTyped, CommandsTypeOK, TypeOK
<1>5. ASSUME NEW r \in Ups, up_step(r) \/ Fail(r), UNCHANGED cmd PROVE Quiet
  <2>1. Active(r)
    BY <1>5, UpIsAtWork
  <2> QED BY <1>2, <1>5, <2>1, UpFrame, TypedToo DEF up_step
<1>6. CASE Around
  BY <1>3, <1>5, <1>6 DEF Around, Rebuild, Exit
<1>7. CASE AllDone
  BY <1>3, <1>7 DEF AllDone, cvars, vars
<1>8. ASSUME NEW r \in Ups, up_step(r) PROVE Quiet
  BY <1>5, <1>8 DEF up_step
<1> QED BY <1>1, <1>4, <1>6, <1>7, <1>8 DEF CommandsNext

(***************************************************************************)
(* What a call changes                                                     *)
(***************************************************************************)
\* The daemon has started, paused, stopped or removed container k.
LEMMA StatusChange ==
    ASSUME Typed, NEW k \in Existing, NEW s \in Statuses, Set(k, "status", s)
    PROVE  /\ Existing' = IF s = "removed" THEN Existing \ {k} ELSE Existing
           /\ containers # <<>> /\ containers' # <<>>
           /\ DOMAIN containers' = DOMAIN containers
           /\ containers'[k].status = s
           /\ \A l \in DOMAIN containers :
                 /\ containers'[l].own = containers[l].own
                 /\ containers'[l].number = containers[l].number
                 /\ containers'[l].data = containers[l].data
                 /\ l # k => containers'[l].status = containers[l].status
<1>1. k \in DOMAIN containers /\ containers \in Seq(Container)
  BY DEF Existing, Typed, TypeOK
<1>2. /\ DOMAIN containers' = DOMAIN containers
      /\ containers'[k] = [containers[k] EXCEPT !.status = s]
      /\ \A l \in DOMAIN containers : l # k => containers'[l] = containers[l]
  BY <1>1, SetStatus
<1>3. containers[k] \in Container
  BY <1>1
<1>4. /\ containers'[k].status = s
      /\ containers'[k].own = containers[k].own
      /\ containers'[k].number = containers[k].number
      /\ containers'[k].data = containers[k].data
  BY <1>2, <1>3 DEF Container
<1>5. Existing' = IF s = "removed" THEN Existing \ {k} ELSE Existing
  BY <1>2, <1>4 DEF Existing
<1>6. containers # <<>> /\ containers' # <<>>
  BY <1>1, <1>2
<1>7. ASSUME NEW l \in DOMAIN containers
      PROVE  /\ containers'[l].own = containers[l].own
             /\ containers'[l].number = containers[l].number
             /\ containers'[l].data = containers[l].data
             /\ l # k => containers'[l].status = containers[l].status
  BY <1>2, <1>4
<1> QED BY <1>2, <1>4, <1>5, <1>6, <1>7

\* An up has given container k a temporary name.
LEMMA NameChange ==
    ASSUME Typed, NEW k \in Existing, Set(k, "own", FALSE)
    PROVE  /\ Existing' = Existing /\ containers # <<>>
           /\ DOMAIN containers' = DOMAIN containers
           /\ \A l \in DOMAIN containers :
                 /\ l # k => containers'[l].own = containers[l].own
                 /\ containers'[l].number = containers[l].number
                 /\ containers'[l].data = containers[l].data
<1>1. k \in DOMAIN containers /\ containers \in Seq(Container)
  BY DEF Existing, Typed, TypeOK
<1>2. /\ DOMAIN containers' = DOMAIN containers
      /\ containers'[k] = [containers[k] EXCEPT !.own = FALSE]
      /\ \A l \in DOMAIN containers : l # k => containers'[l] = containers[l]
  BY <1>1, SetOwn
<1>3. containers[k] \in Container
  BY <1>1
<1>4. /\ containers'[k].status = containers[k].status
      /\ containers'[k].number = containers[k].number
      /\ containers'[k].data = containers[k].data
  BY <1>2, <1>3 DEF Container
<1>5. Existing' = Existing
  BY <1>2, <1>4 DEF Existing
<1>6. ASSUME NEW l \in DOMAIN containers
      PROVE  /\ l # k => containers'[l].own = containers[l].own
             /\ containers'[l].number = containers[l].number
             /\ containers'[l].data = containers[l].data
  BY <1>2, <1>4
<1>7. containers # <<>>
  BY <1>1
<1> QED BY <1>2, <1>5, <1>6, <1>7

\* A container was created.
LEMMA NewOne ==
    ASSUME Typed, NEW new \in Container, new.status = "created",
           containers' = Append(containers, new)
    PROVE  LET n == Len(containers) + 1 IN
           /\ n \in Nat /\ n \notin DOMAIN containers /\ containers' # <<>>
           /\ Existing' = Existing \cup {n} /\ containers'[n] = new
           /\ \A l \in DOMAIN containers : containers'[l] = containers[l]
<1>1. /\ containers' \in Seq(Container)
      /\ Len(containers) \in Nat
      /\ DOMAIN containers' = DOMAIN containers \cup {Len(containers) + 1}
      /\ Len(containers) + 1 \notin DOMAIN containers
      /\ containers'[Len(containers) + 1] = new
      /\ \A l \in DOMAIN containers : containers'[l] = containers[l]
  BY AppendContainer DEF Typed, TypeOK
<1>2. Existing' = Existing \cup {Len(containers) + 1}
  BY <1>1 DEF Existing
<1> QED BY <1>1, <1>2

\* Containers go, or only change their status: number and data stay.
LabelsStay ==
    /\ Existing' \subseteq Existing
    /\ \A l \in Existing' : /\ containers'[l].number = containers[l].number
                            /\ containers'[l].data = containers[l].data
OwnStays == \A l \in Existing' : containers'[l].own = containers[l].own

LEMMA FirstsStay ==
    ASSUME LabelsStay
    PROVE  /\ Firsts' = Firsts \cap Existing' /\ Others' = Others \cap Existing'
           /\ Numbers => Numbers'
<1>1. Firsts' = Firsts \cap Existing' /\ Others' = Others \cap Existing'
  BY DEF LabelsStay, Firsts, Others
<1>2. ASSUME Numbers PROVE Numbers'
  <2> SUFFICES ASSUME NEW k \in Firsts', NEW l \in Existing'
               PROVE  /\ containers'[k].number <= containers'[l].number
                      /\ containers'[l].number = containers'[k].number => l \in Firsts'
    BY DEF Numbers
  <2>1. k \in Firsts /\ k \in Existing' /\ l \in Existing
    BY <1>1 DEF LabelsStay
  <2>2. /\ containers[k].number <= containers[l].number
        /\ containers[l].number = containers[k].number => l \in Firsts
    BY <1>2, <2>1 DEF Numbers
  <2>3. /\ containers'[k].number = containers[k].number
        /\ containers'[l].number = containers[l].number
    BY <2>1 DEF LabelsStay
  <2> QED BY <1>1, <2>1, <2>2, <2>3
<1> QED BY <1>1, <1>2

\* Ups at rest keep what is kept.
LEMMA AtRest ==
    ASSUME NEW r \in Ups, ~Active(r)
    PROVE  /\ UpKeeps(r)
           /\ \A k : ~LeftBy(r, k) /\ ~RenamedBy(r, k)
BY DEF Active, UpKeeps, LeftBy, RenamedBy

LEMMA AtRestAfter ==
    ASSUME NEW r \in Ups, ~Active(r)'
    PROVE  /\ UpKeeps(r)'
           /\ \A k : ~LeftBy(r, k)' /\ ~RenamedBy(r, k)'
BY DEF Active, UpKeeps, LeftBy, RenamedBy

LEMMA CommandAtRest ==
    ASSUME NEW c \in Clients, ~Commanding(c)'
    PROVE  CommandKeeps(c)'
BY DEF Commanding, CommandKeeps, Phases

\* While no up is at work, containers may go as long as one of the first stays.
LEMMA OneOtherStays ==
    ASSUME OneOther, LabelsStay, OwnStays, UNCHANGED up
    PROVE  OneOther'
<1>1. Firsts' = Firsts \cap Existing' /\ Others' = Others \cap Existing' /\ Existing' \subseteq Existing
  BY FirstsStay DEF LabelsStay
<1>2. FailedUps' = FailedUps /\ \A k : (Leaving(k)' <=> Leaving(k)) /\ (Nameless(k)' <=> Nameless(k))
  BY DEF FailedUps, Leaving, Nameless, LeftBy, RenamedBy
<1>3. FailedUps' = {} => Others' = {}
  BY <1>1, <1>2 DEF OneOther
<1>4. \A k, l \in Others' : k = l \/ Leaving(k)' \/ Leaving(l)'
  BY <1>1, <1>2 DEF OneOther
<1>5. \A k \in Existing' : \/ containers'[k].own \/ Leaving(k)' \/ Nameless(k)'
                           \/ k \in Firsts' /\ FailedUps' # {}
  BY <1>1, <1>2 DEF OneOther, OwnStays
<1> QED BY <1>3, <1>4, <1>5 DEF OneOther

LEMMA KeptAfterCommand ==
    ASSUME Kept, NEW c \in Clients, UNCHANGED up,
           \A d \in Clients : d # c => ~Commanding(d) /\ cmd'[d] = cmd[d],
           \A r \in Ups : ~Active(r),
           LabelsStay, OwnStays, SomeFirst', CommandKeeps(c)'
    PROVE  Kept'
<1>1. Numbers' /\ OneOther'
  BY FirstsStay, OneOtherStays DEF Kept
<1>2. \A r \in Ups : UpKeeps(r)'
  <2>1. \A r \in Ups : ~Active(r)'
    BY DEF Active
  <2> QED BY <2>1, AtRestAfter
<1>3. \A d \in Clients : CommandKeeps(d)'
  <2>1. \A d \in Clients : d # c => ~Commanding(d)'
    BY DEF Commanding
  <2> QED BY <2>1, CommandAtRest
<1> QED BY <1>1, <1>2, <1>3 DEF Kept

\* A command that only reads, or ends, has to be looked at alone.
LEMMA KeptAfterReading ==
    ASSUME Kept, NEW c \in Clients, UNCHANGED <<up, containers>>,
           \A d \in Clients : d # c => ~Commanding(d) /\ cmd'[d] = cmd[d],
           \A r \in Ups : ~Active(r),
           CommandKeeps(c)'
    PROVE  Kept'
<1>1. Existing' = Existing /\ SomeFirst' /\ LabelsStay /\ OwnStays
  BY DEF Existing, SomeFirst, Kept, Firsts, LabelsStay, OwnStays
<1> QED BY <1>1, KeptAfterCommand

LEMMA EndedIsDone ==
    ASSUME CommandsTyped, NEW c \in Clients, NEW result, CmdEnd(c, result)
    PROVE  cmd'[c].pc = "done"
<1>1. cmd[c] \in Command /\ cmd \in [Clients -> Command]
  BY DEF CommandsTyped, CommandsTypeOK
<1>2. cmd' = [cmd EXCEPT ![c] = Ended(c, result)]
  BY CmdEndIs
<1> QED BY <1>1, <1>2 DEF Ended, Command

LEMMA EndedKeeps ==
    ASSUME CommandsTyped, NEW c \in Clients, NEW result, CmdEnd(c, result)
    PROVE  CommandKeeps(c)'
BY EndedIsDone, CommandAtRest DEF Commanding

(***************************************************************************)
(* The steps of the commands                                               *)
(***************************************************************************)
LEMMA NumbersAre ==
    ASSUME Typed
    PROVE  /\ \A k \in Existing : containers[k].number \in Nat /\ containers[k].data \in Nat
           /\ RunningOnes \subseteq DOMAIN containers
           /\ IsFiniteSet(RunningOnes) /\ Cardinality(RunningOnes) \in Nat
           /\ IsFiniteSet(Existing) /\ Cardinality(Existing) \in Nat
<1>1. containers \in Seq(Container) /\ Existing \subseteq DOMAIN containers
  BY ExistingAre DEF Typed, TypeOK
<1>2. \A k \in Existing : containers[k] \in Container
  BY <1>1
<1>3. RunningOnes \subseteq DOMAIN containers
  BY <1>1 DEF RunningOnes
<1> QED BY <1>1, <1>2, <1>3, FinitelyMany DEF Container, Typed

\* When no up is at work, there is at most one container without the volumes,
\* and whoever chooses containers by their numbers comes to it last.
LEMMA OneWithout ==
    ASSUME Kept, \A r \in Ups : ~Active(r)
    PROVE  \A k, l \in Others : k = l
BY AtRest DEF Kept, OneOther, Leaving

LEMMA LowestIsFirst ==
    ASSUME Typed, Kept, NEW S \in SUBSET Existing, NEW n \in Nat \ {0},
           NEW T \in First(n, S), NEW f \in Firsts, f \in S
    PROVE  T \cap Firsts # {}
<1>1. /\ T \subseteq S /\ Cardinality(T) = n
      /\ \A k \in T, l \in S \ T : containers[k].number <= containers[l].number
  BY DEF First
<1>2. PICK k \in T : TRUE
  <2> SUFFICES ASSUME T = {} PROVE FALSE
    OBVIOUS
  <2> QED BY <1>1, FS_EmptySet
<1>3. CASE f \in T
  BY <1>3
<1>4. CASE f \notin T
  <2>1. containers[k].number <= containers[f].number
    BY <1>1, <1>4
  <2>2. /\ containers[f].number <= containers[k].number
        /\ containers[k].number = containers[f].number => k \in Firsts
    BY <1>1 DEF Kept, Numbers
  <2>3. containers[k].number \in Nat /\ containers[f].number \in Nat
    BY <1>1, NumbersAre DEF Firsts
  <2> QED BY <1>1, <2>1, <2>2, <2>3
<1> QED BY <1>3, <1>4

\* A scale down lets a container with the volumes run, unless it is to zero.
LEMMA SomeFirstRunsOn ==
    ASSUME Typed, Kept, \A r \in Ups : ~Active(r),
           NEW n \in Nat \ {0}, n < Cardinality(RunningOnes),
           NEW S \in Last(Cardinality(RunningOnes) - n, RunningOnes)
    PROVE  \E k \in Firsts : Running(k) /\ k \notin S
<1> DEFINE R == RunningOnes
           num == Cardinality(R)
<1>1. num \in Nat /\ IsFiniteSet(R) /\ R \subseteq Existing
  BY NumbersAre DEF RunningOnes
<1>2. PICK f \in R : f \in Firsts
  <2> SUFFICES ASSUME R \cap Firsts = {} PROVE FALSE
    OBVIOUS
  <2>1. \A k, l \in R : k = l
    BY <1>1, OneWithout DEF Others
  <2>2. R = {} \/ \E k : R = {k}
    BY <2>1
  <2>3. num \in {0, 1}
    BY <2>2, FS_EmptySet, FS_Singleton
  <2> QED BY <1>1, <2>3
<1>3. PICK T \in First(num - (num - n), R) : S = R \ T
  BY DEF Last
<1>4. num - (num - n) = n
  BY <1>1
<1>5. T \cap Firsts # {} /\ T \subseteq R
  BY <1>1, <1>2, <1>3, <1>4, LowestIsFirst DEF First
<1> QED BY <1>3, <1>5 DEF RunningOnes

LEMMA ScaleKeeps ==
    ASSUME CommandsTyped, Kept, \A r \in Ups : ~Active(r), 0 \notin Desired,
           NEW c \in Clients, NEW n \in Desired, scale(c, n)
    PROVE  CommandKeeps(c)'
<1> DEFINE num == Cardinality(RunningOnes)
<1>1. cmd[c] \in Command /\ cmd \in [Clients -> Command] /\ Typed /\ num \in Nat
  BY TypedToo, NumbersAre DEF CommandsTyped, CommandsTypeOK
<1>2. n \in Nat \ {0} /\ UNCHANGED containers
  BY DesiredAssumption DEF scale, vars
<1>3. CASE CmdEnd(c, "ok")
  BY <1>3, EndedKeeps
<1>4. CASE n > num /\ cmd' = [cmd EXCEPT ![c].pc = "list_stopped", ![c].desired = n,
                                         ![c].running = num]
  <2>1. cmd'[c].pc = "list_stopped" /\ cmd'[c].desired = n /\ cmd'[c].running = num
    BY <1>1, <1>4 DEF Command
  <2>2. RunningOnes' = RunningOnes
    BY <1>2 DEF RunningOnes, Existing, Running
  <2> QED BY <1>2, <1>4, <2>1, <2>2 DEF CommandKeeps, Phases
<1>5. ASSUME n < num, NEW S \in Last(num - n, RunningOnes),
             cmd' = [cmd EXCEPT ![c].pc = "stopping", ![c].desired = n, ![c].todo = S]
      PROVE  CommandKeeps(c)'
  <2>1. cmd'[c].pc = "stopping" /\ cmd'[c].todo = S
    BY <1>1, <1>5 DEF Command
  <2>2. PICK k \in Firsts : Running(k) /\ k \notin S
    BY <1>1, <1>2, <1>5, SomeFirstRunsOn
  <2>3. k \in Firsts' /\ Keeps(c, k)'
    BY <1>2, <2>1, <2>2 DEF Firsts, Existing, Running, Keeps
  <2> QED BY <2>1, <2>3 DEF CommandKeeps
<1>6. n # num /\ ~(n > num) => n < num
  BY <1>1, <1>2
<1> HIDE DEF num
<1> QED BY <1>3, <1>4, <1>5, <1>6 DEF scale, num

\* Where the commands are that do not scale.
LEMMA NoScale ==
    ASSUME CommandsTyped, NEW c \in Clients,
           \/ \E kind \in Eachs : for_each(c, kind)
           \/ run(c) \/ project_containers(c) \/ Die(c)
           \/ create_one_off(c) \/ start_one_off(c) \/ one_of_them(c)
    PROVE  cmd'[c].pc \in Eachs \cup {"run", "start_one_off", "done"}
<1>1. cmd[c] \in Command /\ cmd \in [Clients -> Command]
  BY DEF CommandsTyped, CommandsTypeOK
<1>2. ASSUME NEW kind \in Eachs, for_each(c, kind)
      PROVE  cmd'[c].pc \in Eachs \cup {"run", "start_one_off", "done"}
  BY <1>1, <1>2, EndedIsDone DEF for_each, Command
<1>3. CASE run(c) \/ create_one_off(c) \/ one_of_them(c)
  BY <1>1, <1>3, EndedIsDone DEF run, create_one_off, one_of_them, Command
<1>4. CASE project_containers(c) \/ Die(c) \/ start_one_off(c)
  BY <1>4, EndedIsDone DEF project_containers, Die, start_one_off
<1> QED BY <1>2, <1>3, <1>4

LEMMA NoScaleKeeps ==
    ASSUME CommandsTyped, NEW c \in Clients,
           \/ \E kind \in Eachs : for_each(c, kind)
           \/ run(c) \/ project_containers(c) \/ Die(c)
           \/ create_one_off(c) \/ start_one_off(c) \/ one_of_them(c)
    PROVE  CommandKeeps(c)'
<1>1. cmd'[c].pc \in Eachs \cup {"run", "start_one_off", "done"}
  BY NoScale
<1> QED BY <1>1 DEF CommandKeeps, Phases, Eachs

LEMMA ListStoppedKeeps ==
    ASSUME CommandsTyped, Kept, NEW c \in Clients, list_stopped(c)
    PROVE  CommandKeeps(c)'
<1> DEFINE missing == cmd[c].desired - cmd[c].running
           stopped == {k \in Existing : ~Running(k)}
<1>1. /\ cmd[c] \in Command /\ cmd \in [Clients -> Command] /\ Typed
      /\ cmd[c].pc = "list_stopped" /\ UNCHANGED containers
      /\ cmd[c].desired \in Nat /\ cmd[c].running \in Nat
  BY TypedToo DEF CommandsTyped, CommandsTypeOK, list_stopped, vars, Command
<1>2. cmd[c].running = Cardinality(RunningOnes) /\ cmd[c].running < cmd[c].desired
  BY <1>1 DEF Kept, CommandKeeps
<1>3. missing \in Nat \ {0}
  BY <1>1, <1>2
<1>4. Firsts' = Firsts /\ Existing' = Existing /\ \A k : Running(k)' <=> Running(k)
  BY <1>1 DEF Firsts, Existing, Running
<1>5. ASSUME Existing # {} PROVE Firsts # {} /\ Firsts \subseteq Existing
  BY <1>1, <1>5, ExistingAre DEF Kept, SomeFirst, Firsts
<1>7. CASE Cardinality(Existing) = cmd[c].running /\ At(c, "next_number")
  <2>1. cmd'[c].pc = "next_number"
    BY <1>1, <1>7 DEF At, Command
  <2>2. RunningOnes = Existing
    BY <1>1, <1>2, <1>7, NumbersAre, FS_Subset DEF RunningOnes
  <2>3. Existing = {} \/ \E k \in Firsts : Running(k)
    BY <1>5, <2>2 DEF RunningOnes
  <2> QED BY <1>4, <2>1, <2>3 DEF CommandKeeps, Keeps, Phases
<1>8. ASSUME NEW S, S = stopped \/ S \in First(missing, stopped),
             cmd' = [cmd EXCEPT ![c].pc = "starting", ![c].todo = S,
                                ![c].running = @ + Cardinality(S)]
      PROVE  CommandKeeps(c)'
  <2>1. cmd'[c].pc = "starting" /\ cmd'[c].todo = S
    BY <1>1, <1>8 DEF Command
  <2>2. Existing = {} \/ \E k \in Firsts : Running(k) \/ k \in S
    <3> SUFFICES ASSUME NEW f \in Firsts, ~Running(f)
                 PROVE  \E k \in Firsts : k \in S
      BY <1>5
    <3>1. f \in stopped /\ stopped \subseteq Existing
      BY DEF Firsts
    <3> HIDE DEF stopped, missing
    <3> QED BY <1>1, <1>3, <1>8, <3>1, LowestIsFirst
  <2>3. Existing' = {} \/ \E k \in Firsts' : Keeps(c, k)'
    BY <1>4, <2>1, <2>2 DEF Keeps
  <2> QED BY <2>1, <2>3 DEF CommandKeeps
<1> HIDE DEF missing
<1>9. \/ Cardinality(Existing) = cmd[c].running /\ At(c, "next_number")
      \/ \E S \in (IF Cardinality(stopped) > missing THEN First(missing, stopped)
                   ELSE {stopped}) :
            cmd' = [cmd EXCEPT ![c].pc = "starting", ![c].todo = S,
                               ![c].running = @ + Cardinality(S)]
  BY DEF list_stopped, missing
<1> HIDE DEF stopped
<1> QED BY <1>7, <1>8, <1>9

\* The next number is above that of every container.
LEMMA NextNumberIsNext ==
    ASSUME TypeOK
    PROVE  NextNumber \in Nat /\ \A k \in Existing : containers[k].number < NextNumber
<1>1. NextNumber \in Nat
  BY NextNumberIsNat
<1> SUFFICES ASSUME Existing # {}
             PROVE  \A k \in Existing : containers[k].number < NextNumber
  BY <1>1
<1> DEFINE f == [k \in 1 .. Len(containers) |-> containers[k].number]
           greatest == CHOOSE k \in Existing : \A l \in Existing :
                          containers[l].number <= containers[k].number
<1>2. Len(containers) \in Nat /\ DOMAIN containers = 1 .. Len(containers)
  BY DEF TypeOK
<1>3. Existing \subseteq 1 .. Len(containers)
  BY <1>2 DEF Existing
<1>4. \A k \in 1 .. Len(containers) : containers[k].number \in Nat
  <2>1. \A k \in 1 .. Len(containers) : containers[k] \in Container
    BY <1>2 DEF TypeOK
  <2> QED BY <2>1 DEF Container
<1>5. f \in [1 .. Len(containers) -> Nat]
  BY <1>4
<1>6. \E k \in Existing : \A l \in Existing : f[l] <= f[k]
  BY <1>2, <1>3, <1>5, GreatestValue
<1>7. /\ greatest \in Existing
      /\ \A l \in Existing : containers[l].number <= containers[greatest].number
  BY <1>3, <1>6
<1>8. NextNumber = 1 + containers[greatest].number
  BY DEF NextNumber
<1> HIDE DEF greatest
<1> QED BY <1>3, <1>4, <1>7, <1>8

LEMMA NextNumberKeeps ==
    ASSUME CommandsTyped, Kept, NEW c \in Clients, next_number(c)
    PROVE  CommandKeeps(c)'
<1> DEFINE N == NextNumber .. NextNumber + cmd[c].desired - cmd[c].running - 1
<1>1. /\ cmd[c] \in Command /\ cmd \in [Clients -> Command] /\ TypeOK
      /\ cmd[c].pc = "next_number" /\ UNCHANGED containers
      /\ cmd' = [cmd EXCEPT ![c].pc = "creating", ![c].numbers = N]
  BY DEF CommandsTyped, CommandsTypeOK, next_number, vars
<1>2. \A k \in Existing, i \in N : containers[k].number < i
  <2>1. NextNumber \in Nat /\ \A k \in Existing : containers[k].number < NextNumber
    BY <1>1, NextNumberIsNext
  <2>2. \A k \in Existing : containers[k].number \in Nat
    BY <1>1, NumbersAre, TypedToo
  <2>3. cmd[c].desired \in Nat /\ cmd[c].running \in Nat
    BY <1>1 DEF Command
  <2> QED BY <2>1, <2>2, <2>3
<1> HIDE DEF N
<1>3. /\ cmd'[c].pc = "creating" /\ cmd'[c].numbers = N
  BY <1>1 DEF Command
<1>4. Firsts' = Firsts /\ Existing' = Existing /\ \A k : Running(k)' <=> Running(k)
  BY <1>1 DEF Firsts, Existing, Running
<1>5. Existing = {} \/ \E k \in Firsts : Running(k)
  BY <1>1 DEF Kept, CommandKeeps, Keeps
<1>6. Existing' = {} \/ \E k \in Firsts' : Keeps(c, k)'
  BY <1>3, <1>4, <1>5 DEF Keeps
<1> QED BY <1>1, <1>2, <1>3, <1>4, <1>6 DEF CommandKeeps

LEMMA JoinKeeps ==
    ASSUME CommandsTyped, Kept, NEW c \in Clients, join(c) \/ remove_stopped(c)
    PROVE  CommandKeeps(c)'
<1>1. cmd[c] \in Command /\ cmd \in [Clients -> Command] /\ UNCHANGED containers
  BY DEF CommandsTyped, CommandsTypeOK, join, remove_stopped, vars
<1>2. Firsts' = Firsts /\ Existing' = Existing /\ \A k : Running(k)' <=> Running(k)
  BY <1>1 DEF Firsts, Existing, Running
<1>3. CASE \E result : CmdEnd(c, result)
  BY <1>3, EndedKeeps
<1>4. ASSUME NEW pc \in {"next_number", "remove_stopped"}, At(c, pc), join(c)
      PROVE  CommandKeeps(c)'
  <2>1. cmd'[c].pc = pc
    BY <1>1, <1>4 DEF At, Command
  <2>2. Existing = {} \/ \E k \in Firsts : Keeps(c, k)
    BY <1>4 DEF join, Kept, CommandKeeps, Phases, At, CmdEnd
  <2>3. Existing = {} \/ \E k \in Firsts : Running(k)
    BY <1>4, <2>2 DEF join, Keeps, At, CmdEnd
  <2> QED BY <1>2, <1>4, <2>1, <2>3 DEF CommandKeeps, Keeps, Phases
<1>5. CASE remove_stopped(c)
  <2>1. /\ cmd[c].pc = "remove_stopped"
        /\ cmd'[c].pc = "removing" /\ cmd'[c].todo = {k \in Existing : ~Running(k)}
    BY <1>1, <1>5 DEF remove_stopped, Command
  <2>2. Existing = {} \/ \E k \in Firsts : Running(k)
    BY <2>1 DEF Kept, CommandKeeps, Keeps
  <2> QED BY <1>2, <2>1, <2>2 DEF CommandKeeps, Keeps
<1> QED BY <1>3, <1>4, <1>5 DEF join

\* Commands that change no container.
LEMMA ReadingKeeps ==
    ASSUME CommandsTyped, overlap = 1, OneAtATime, Kept, 0 \notin Desired, NEW c \in Clients,
           \/ \E kind \in Eachs : for_each(c, kind)
           \/ \E n \in Desired : scale(c, n)
           \/ run(c) \/ project_containers(c) \/ Die(c)
           \/ create_one_off(c) \/ start_one_off(c)
           \/ list_stopped(c) \/ next_number(c) \/ join(c) \/ remove_stopped(c)
    PROVE  Kept'
<1>1. CommandBegin(c) \/ CommandStep(c) \/ Die(c)
  BY DEF CommandBegin, CommandStep
<1>2. /\ \A d \in Clients : d # c => ~Commanding(d) /\ cmd'[d] = cmd[d]
      /\ \A r \in Ups : ~Active(r)
      /\ UNCHANGED up
  BY <1>1, CommandAlone
<1>3. UNCHANGED containers
  BY DEF for_each, scale, run, project_containers, Die, create_one_off, start_one_off,
         list_stopped, next_number, join, remove_stopped, vars
<1>4. CommandKeeps(c)'
  BY <1>2, NoScaleKeeps, ScaleKeeps, ListStoppedKeeps, NextNumberKeeps, JoinKeeps
<1> QED BY <1>2, <1>3, <1>4, KeptAfterReading

\* The first containers are still there after a call about another, or one that
\* does not remove any.
LEMMA StatusKeeps ==
    ASSUME CommandsTyped, overlap = 1, OneAtATime, Kept, NEW c \in Clients, CommandStep(c),
           NEW k \in Existing, NEW s \in Statuses, Set(k, "status", s),
           s = "removed" => \E f \in Firsts : f # k,
           CommandKeeps(c)'
    PROVE  Kept'
<1>1. /\ \A d \in Clients : d # c => ~Commanding(d) /\ cmd'[d] = cmd[d]
      /\ \A r \in Ups : ~Active(r)
      /\ UNCHANGED up /\ Typed
  BY CommandAlone, TypedToo
<1>2. /\ Existing' = IF s = "removed" THEN Existing \ {k} ELSE Existing
      /\ containers # <<>>
      /\ \A l \in DOMAIN containers :
            /\ containers'[l].own = containers[l].own
            /\ containers'[l].number = containers[l].number
            /\ containers'[l].data = containers[l].data
  BY <1>1, StatusChange
<1>3. LabelsStay /\ OwnStays
  BY <1>1, <1>2, ExistingAre DEF LabelsStay, OwnStays
<1>4. SomeFirst'
  <2>1. Firsts' = Firsts \cap Existing' /\ Firsts # {} /\ Firsts \subseteq Existing
    BY <1>2, <1>3, FirstsStay DEF Kept, SomeFirst, Firsts
  <2> QED BY <1>2, <2>1 DEF SomeFirst
<1> QED BY <1>1, <1>3, <1>4, KeptAfterCommand

LEMMA OneOfThemKeeps ==
    ASSUME CommandsTyped, overlap = 1, OneAtATime, Kept, NEW c \in Clients, one_of_them(c)
    PROVE  Kept'
<1>1. CommandKeeps(c)' /\ CommandStep(c)
  BY NoScaleKeeps DEF CommandStep
<1>2. /\ \A d \in Clients : d # c => ~Commanding(d) /\ cmd'[d] = cmd[d]
      /\ \A r \in Ups : ~Active(r)
      /\ UNCHANGED up
  BY <1>1, CommandAlone
<1>3. CASE UNCHANGED containers
  BY <1>1, <1>2, <1>3, KeptAfterReading
<1>4. ASSUME NEW k \in Existing, NEW s \in {"running", "paused"}, Set(k, "status", s)
      PROVE  Kept'
  BY <1>1, <1>4, StatusKeeps DEF Statuses
<1> QED BY <1>3, <1>4 DEF one_of_them, Accepts

LEMMA StartNumberKeeps ==
    ASSUME CommandsTyped, overlap = 1, OneAtATime, Kept, Quiet', NEW c \in Clients,
           start_number(c)
    PROVE  Kept'
<1>1. PICK k \in cmd[c].made :
         /\ IF Operable(k) THEN Set(k, "status", "running") ELSE UNCHANGED containers
         /\ cmd' = [cmd EXCEPT ![c].made = @ \ {k}, ![c].errors = @ \/ ~Operable(k)]
  BY DEF start_number
<1>2. /\ cmd \in [Clients -> Command] /\ cmd[c] \in Command /\ cmd[c].pc = "creating"
      /\ Typed /\ CommandStep(c)
  BY TypedToo DEF CommandsTyped, CommandsTypeOK, start_number, CommandStep
<1>3. /\ cmd'[c].pc = "creating" /\ cmd'[c].made = cmd[c].made \ {k}
      /\ cmd'[c].numbers = cmd[c].numbers
      /\ cmd'[c].errors = (cmd[c].errors \/ ~Operable(k))
  BY <1>1, <1>2 DEF Command
<1>4. Operable(k) /\ k \in Existing /\ Set(k, "status", "running")
  BY <1>1, <1>3 DEF Quiet, Operable
<1>5. /\ Existing' = Existing /\ containers'[k].status = "running" /\ LabelsStay /\ OwnStays
      /\ \A l \in Existing : l # k => containers'[l].status = containers[l].status
  BY <1>2, <1>4, StatusChange, ExistingAre DEF Statuses, LabelsStay, OwnStays
<1>6. Firsts' = Firsts
  BY <1>5, FirstsStay DEF Firsts
<1>7. Existing = {} \/ \E f \in Firsts : Running(f) \/ f \in cmd[c].made
  BY <1>2 DEF Kept, CommandKeeps, Keeps, Phases
<1>8. ASSUME NEW f \in Firsts, Running(f) \/ f \in cmd[c].made
      PROVE  Keeps(c, f)'
  BY <1>3, <1>5, <1>8 DEF Keeps, Running, Firsts
<1>9. Existing' = {} \/ \E f \in Firsts' : Keeps(c, f)'
  BY <1>5, <1>6, <1>7, <1>8
<1>10. NameTaken' \/ \A l \in Existing', i \in cmd'[c].numbers : containers'[l].number < i
  BY <1>2, <1>3, <1>5 DEF Kept, CommandKeeps, NameTaken, LabelsStay, OwnStays
<1>11. CommandKeeps(c)'
  BY <1>3, <1>9, <1>10 DEF CommandKeeps
<1> QED BY <1>2, <1>4, <1>11, StatusKeeps DEF Statuses

LEMMA InParallelKeeps ==
    ASSUME CommandsTyped, overlap = 1, OneAtATime, Kept, Quiet', NEW c \in Clients,
           in_parallel(c)
    PROVE  Kept'
<1> DEFINE phase == cmd[c].pc
<1>1. PICK k \in cmd[c].todo :
          \/ /\ Lets(phase, k)
             /\ Set(k, "status", Target(phase))
             /\ cmd' = [cmd EXCEPT ![c].todo = @ \ {k}]
          \/ cmd' = [cmd EXCEPT ![c].todo = @ \ {k}, ![c].errors = TRUE]
  BY DEF in_parallel
<1>2. /\ cmd \in [Clients -> Command] /\ cmd[c] \in Command
      /\ phase \in {"starting", "stopping", "removing"} /\ Typed /\ CommandStep(c)
  BY TypedToo DEF CommandsTyped, CommandsTypeOK, in_parallel, Phases, CommandStep
<1>3. Lets(phase, k) /\ Set(k, "status", Target(phase)) /\ cmd' = [cmd EXCEPT ![c].todo = @ \ {k}]
  <2>1. ~cmd'[c].errors
    BY DEF Quiet
  <2>2. ASSUME cmd' = [cmd EXCEPT ![c].todo = @ \ {k}, ![c].errors = TRUE]
        PROVE  cmd'[c].errors
    BY <1>2, <2>2 DEF Command
  <2> QED BY <1>1, <2>1, <2>2
<1>4. cmd'[c].pc = phase /\ cmd'[c].todo = cmd[c].todo \ {k}
  BY <1>2, <1>3 DEF Command
<1>5. k \in Existing /\ Target(phase) \in Statuses
  BY <1>2, <1>3 DEF Lets, Operable, Target, Statuses
<1>6. /\ Existing' = IF Target(phase) = "removed" THEN Existing \ {k} ELSE Existing
      /\ containers'[k].status = Target(phase) /\ LabelsStay /\ OwnStays
      /\ \A l \in Existing : l # k => containers'[l].status = containers[l].status
  BY <1>2, <1>3, <1>5, StatusChange, ExistingAre DEF LabelsStay, OwnStays
<1>7. PICK f \in Firsts : Keeps(c, f)
  BY <1>2, <1>5 DEF Kept, CommandKeeps, Phases
<1>8. phase # "starting" => f # k
  BY <1>2, <1>7 DEF Keeps
<1>9. f \in Firsts'
  BY <1>2, <1>6, <1>7, <1>8, FirstsStay DEF Firsts, Target
<1>10. Keeps(c, f)'
  BY <1>2, <1>4, <1>6, <1>7, <1>8 DEF Keeps, Running, Target, Firsts
<1>11. CommandKeeps(c)'
  BY <1>2, <1>4, <1>9, <1>10 DEF CommandKeeps
<1>12. Target(phase) = "removed" => f # k
  BY <1>2, <1>8 DEF Target
<1> HIDE DEF phase
<1> QED BY <1>2, <1>3, <1>5, <1>7, <1>11, <1>12, StatusKeeps

LEMMA CreateNumberKeeps ==
    ASSUME CommandsTyped, overlap = 1, OneAtATime, Kept, Quiet', NEW c \in Clients,
           create_number(c)
    PROVE  Kept'
<1> DEFINE n == Len(containers) + 1
<1>1. /\ cmd \in [Clients -> Command] /\ cmd[c] \in Command /\ cmd[c].pc = "creating"
      /\ Typed /\ TypeOK /\ CommandStep(c)
  BY TypedToo DEF CommandsTyped, CommandsTypeOK, create_number, CommandStep
<1>2. /\ \A d \in Clients : d # c => ~Commanding(d) /\ cmd'[d] = cmd[d]
      /\ \A r \in Ups : ~Active(r)
      /\ UNCHANGED up
  BY <1>1, CommandAlone
<1>3. PICK i \in cmd[c].numbers :
         /\ ~NameTaken /\ containers' = Append(containers, Numbered(i))
         /\ cmd' = [cmd EXCEPT ![c] =
               [cmd[c] EXCEPT !.numbers = cmd[c].numbers \ {i},
                              !.made = cmd[c].made \cup {Len(containers) + 1}]]
  <2>1. ~cmd'[c].errors
    BY DEF Quiet
  <2>2. ASSUME NEW i, cmd' = [cmd EXCEPT ![c] =
                 [cmd[c] EXCEPT !.numbers = cmd[c].numbers \ {i}, !.errors = TRUE]]
        PROVE  cmd'[c].errors
    BY <1>1, <2>2 DEF Command
  <2> QED BY <2>1, <2>2, CreateNumberIs
<1>4. /\ cmd'[c].pc = "creating" /\ cmd'[c].made = cmd[c].made \cup {n}
  BY <1>1, <1>3 DEF Command
<1>5. i \in Nat
  BY <1>1 DEF Command
<1>6. /\ n \in Nat /\ n \notin DOMAIN containers
      /\ Existing' = Existing \cup {n} /\ containers'[n] = Numbered(i)
      /\ \A l \in DOMAIN containers : containers'[l] = containers[l]
      /\ Numbered(i).number = i /\ Numbered(i).data = n /\ Numbered(i).own
  BY <1>1, <1>3, <1>5, NumberedIs, NewOne
<1>7. Existing \subseteq DOMAIN containers /\ n \notin Existing
  BY <1>1, <1>6, ExistingAre
<1>8. NameTaken'
  BY <1>6 DEF NameTaken
<1>9. \A r \in Ups : UpKeeps(r)' /\ \A k : ~LeftBy(r, k)' /\ ~RenamedBy(r, k)'
  BY <1>2, AtRestAfter DEF Active
<1>10. \A d \in Clients : d # c => CommandKeeps(d)'
  BY <1>2, CommandAtRest DEF Commanding
<1>11. FailedUps' = FailedUps
  BY <1>2 DEF FailedUps
<1> HIDE DEF n
<1>12. CASE Existing = {}
  <2>1. n = 1
    BY <1>12 DEF Kept, SomeFirst, Firsts, n
  <2>2. Existing' = {n} /\ Firsts' = {n} /\ Others' = {}
    BY <1>6, <1>12, <2>1 DEF Firsts, Others
  <2>3. containers'[n].number \in Nat
    BY <1>5, <1>6
  <2>4. Numbers' /\ SomeFirst'
    BY <2>2, <2>3 DEF Numbers, SomeFirst
  <2>5. OneOther'
    BY <1>6, <2>2 DEF OneOther
  <2>6. CommandKeeps(c)'
    BY <1>4, <1>8, <2>2 DEF CommandKeeps, Keeps
  <2> QED BY <1>9, <1>10, <2>4, <2>5, <2>6 DEF Kept
<1>13. CASE Existing # {}
  <2>1. Others = {} /\ FailedUps # {}
    <3>1. \A k \in Existing : ~containers[k].own /\ ~Leaving(k) /\ ~Nameless(k)
      BY <1>2, <1>3, AtRest DEF NameTaken, Leaving, Nameless
    <3> QED BY <1>13, <3>1 DEF Kept, OneOther, Others
  <2>2. \A k \in Existing : containers[k].number < i
    BY <1>1, <1>3 DEF Kept, CommandKeeps
  <2>3. n # 1
    <3>1. n - 1 = Len(containers) /\ Len(containers) # 0
      BY <1>1, <1>7, <1>13 DEF n, TypeOK
    <3> QED BY <3>1
  <2>4. Firsts' = Firsts /\ Others' = {n} /\ Firsts = Existing
    BY <1>6, <1>7, <2>1, <2>3 DEF Firsts, Others
  <2>5. Numbers'
    <3> SUFFICES ASSUME NEW k \in Firsts, NEW l \in Existing \cup {n}
                 PROVE  /\ containers'[k].number <= containers'[l].number
                        /\ containers'[l].number = containers'[k].number => l \in Firsts
      BY <1>6, <2>4 DEF Numbers
    <3>1. containers'[k] = containers[k] /\ containers[k].number \in Nat
      BY <1>1, <1>6, <1>7, <2>4, NumbersAre
    <3>2. CASE l \in Existing
      BY <1>6, <1>7, <2>4, <3>1, <3>2 DEF Kept, Numbers
    <3>3. CASE l = n
      BY <1>5, <1>6, <2>2, <2>4, <3>1, <3>3
    <3> QED BY <3>2, <3>3
  <2>6. SomeFirst'
    BY <1>13, <2>4 DEF SomeFirst
  <2>7. OneOther'
    BY <1>6, <1>11, <2>1, <2>4 DEF OneOther
  <2>8. PICK f \in Firsts : Running(f) \/ f \in cmd[c].made
    BY <1>1, <1>13 DEF Kept, CommandKeeps, Keeps, Phases
  <2>9. Keeps(c, f)'
    BY <1>4, <1>6, <1>7, <2>4, <2>8 DEF Keeps, Running
  <2>10. CommandKeeps(c)'
    BY <1>4, <1>8, <2>4, <2>9 DEF CommandKeeps
  <2> QED BY <1>9, <1>10, <2>5, <2>6, <2>7, <2>10 DEF Kept
<1> QED BY <1>12, <1>13

(***************************************************************************)
(* The steps of an up                                                      *)
(***************************************************************************)
LEMMA KeptAfterUp ==
    ASSUME CommandsTyped, Kept, NEW r \in Ups, UNCHANGED cmd,
           \A s \in Ups : s # r => ~Active(s) /\ up'[s] = up[s],
           \A c \in Clients : ~Commanding(c),
           Numbers', SomeFirst', OneOther', UpKeeps(r)'
    PROVE  Kept'
<1>1. \A s \in Ups : s # r => UpKeeps(s)'
  BY AtRestAfter DEF Active
<1>2. \A c \in Clients : CommandKeeps(c)'
  BY CommandAtRest DEF Commanding
<1> QED BY <1>1, <1>2 DEF Kept

\* A step that is not refused gives no up an answer other than "ok".
LEMMA NoOtherFails ==
    ASSUME CommandsTyped, Answered, NEW r \in Ups, Step(r), ~Refused(r)
    PROVE  FailedUps' = FailedUps
<1>1. Typed /\ up[r].pc # "done" /\ \A s \in Ups : s # r => up'[s] = up[s]
  BY TypedToo, UpFrame
<1>2. ~Bad(up[r].result) /\ ~Bad(up'[r].result)
  BY <1>1, ResultOfStep DEF Answered, Bad
<1> QED BY <1>1, <1>2 DEF FailedUps, Bad

\* A call about one container, and no container without the volumes after it but
\* those there were.
LEMMA UpCallKeeps ==
    ASSUME CommandsTyped, overlap = 1, OneAtATime, Answered, Kept,
           NEW r \in Ups, up_step(r), Step(r), ~Refused(r),
           LabelsStay, SomeFirst', UpKeeps(r)',
           \A k \in Existing' : LeftBy(r, k) => LeftBy(r, k)',
           \A k \in Existing' : containers[k].own \/ RenamedBy(r, k) =>
              containers'[k].own \/ LeftBy(r, k)' \/ RenamedBy(r, k)'
    PROVE  Kept'
<1>1. /\ \A s \in Ups : s # r => ~Active(s) /\ up'[s] = up[s]
      /\ \A c \in Clients : ~Commanding(c)
      /\ UNCHANGED cmd
  BY UpAlone DEF up_step
<1>2. FailedUps' = FailedUps
  BY NoOtherFails
<1>3. \A k \in Existing' : /\ Leaving(k) => Leaving(k)'
                           /\ containers[k].own \/ Nameless(k) =>
                                 containers'[k].own \/ Leaving(k)' \/ Nameless(k)'
  <2> SUFFICES ASSUME NEW k \in Existing'
               PROVE  /\ Leaving(k) => Leaving(k)'
                      /\ containers[k].own \/ Nameless(k) =>
                            containers'[k].own \/ Leaving(k)' \/ Nameless(k)'
    OBVIOUS
  <2>1. \A s \in Ups : s # r => ~LeftBy(s, k) /\ ~RenamedBy(s, k)
    BY <1>1, AtRest
  <2>2. (Leaving(k) => LeftBy(r, k)) /\ (Nameless(k) => RenamedBy(r, k))
    BY <2>1 DEF Leaving, Nameless
  <2>3. (LeftBy(r, k)' => Leaving(k)') /\ (RenamedBy(r, k)' => Nameless(k)')
    BY DEF Leaving, Nameless
  <2> QED BY <2>2, <2>3
<1>4. Firsts' = Firsts \cap Existing' /\ Others' = Others \cap Existing' /\ Existing' \subseteq Existing
  BY FirstsStay DEF LabelsStay
<1>5. OneOther'
  <2>1. FailedUps' = {} => Others' = {}
    BY <1>2, <1>4 DEF Kept, OneOther
  <2>2. ASSUME NEW k \in Others', NEW l \in Others'
        PROVE  k = l \/ Leaving(k)' \/ Leaving(l)'
    BY <1>3, <1>4, <2>2 DEF Kept, OneOther
  <2>3. ASSUME NEW k \in Existing'
        PROVE  \/ containers'[k].own \/ Leaving(k)' \/ Nameless(k)'
               \/ k \in Firsts' /\ FailedUps' # {}
    BY <1>2, <1>3, <1>4, <2>3 DEF Kept, OneOther
  <2> QED BY <2>1, <2>2, <2>3 DEF OneOther
<1>6. Numbers'
  BY FirstsStay DEF Kept
<1> QED BY <1>1, <1>5, <1>6, KeptAfterUp

\* An up that breaks off is the first to do so, and leaves no container without
\* the volumes.
LEMMA BreakOffKeeps ==
    ASSUME CommandsTyped, overlap = 1, OneAtATime, Answered, Kept, Quiet',
           NEW r \in Ups, up_step(r) \/ Fail(r), UNCHANGED <<cmd, containers>>,
           NEW result \in {"refused", "failed"}, End(r, result)
    PROVE  Kept'
<1>1. /\ \A s \in Ups : s # r => ~Active(s) /\ up'[s] = up[s]
      /\ \A c \in Clients : ~Commanding(c)
      /\ Active(r) /\ up \in [Ups -> Up] /\ up[r] \in Up
  BY UpAlone, UpIsAtWork DEF CommandsTyped, CommandsTypeOK, TypeOK
<1>2. up'[r].pc = "done" /\ up'[r].result = result
  BY <1>1 DEF End, Up
<1>3. FailedUps = {} /\ r \in FailedUps'
  <2>1. r \in FailedUps'
    BY <1>2 DEF FailedUps
  <2>2. ASSUME NEW s \in FailedUps PROVE FALSE
    <3>1. s # r
      BY <1>1 DEF FailedUps, Answered, Bad, Active
    <3>2. s \in FailedUps'
      BY <1>1, <3>1 DEF FailedUps
    <3> QED BY <2>1, <3>1, <3>2 DEF Quiet
  <2> QED BY <2>1, <2>2
<1>4. Existing' = Existing /\ Firsts' = Firsts /\ Others' = Others
  BY DEF Existing, Firsts, Others
<1>5. Others = {} /\ Firsts = Existing
  BY <1>3 DEF Kept, OneOther, Others, Firsts
<1>6. OneOther'
  BY <1>3, <1>4, <1>5 DEF OneOther
<1>7. Numbers' /\ SomeFirst'
  BY <1>4 DEF Kept, Numbers, SomeFirst
<1>8. UpKeeps(r)'
  BY <1>2, AtRestAfter DEF Active
<1> QED BY <1>1, <1>6, <1>7, <1>8, KeptAfterUp

LEMMA DuplicatesKeep ==
    ASSUME CommandsTyped, overlap = 1, OneAtATime, Answered, Kept,
           NEW r \in Ups, up_step(r), duplicate_containers(r), ~Refused(r)
    PROVE  Kept'
<1>1. /\ up \in [Ups -> Up] /\ up[r] \in Up /\ up[r].pc = "duplicates"
      /\ UNCHANGED containers /\ Typed /\ Step(r)
  BY TypedToo DEF CommandsTyped, CommandsTypeOK, TypeOK, duplicate_containers, Step
<1>2. /\ up'[r].todo = Duplicates
      /\ up'[r].pc = IF Duplicates = {} THEN "plan" ELSE "stop_duplicate"
  BY <1>1 DEF duplicate_containers, Up
<1>3. Existing' = Existing /\ Firsts' = Firsts
  BY <1>1 DEF Existing, Firsts
<1>4. LabelsStay /\ SomeFirst'
  BY <1>1, <1>3 DEF LabelsStay, Kept, SomeFirst
<1>5. Duplicates # {} => \E k \in Firsts : k \notin Duplicates
  <2> SUFFICES ASSUME Duplicates # {} PROVE \E k \in Firsts : k \notin Duplicates
    OBVIOUS
  <2>1. Firsts # {} /\ Firsts \in SUBSET Nat
    BY <1>1, ExistingAre DEF Kept, SomeFirst, Duplicates, Firsts, Existing
  <2>2. PICK k \in Firsts : \A l \in Firsts : k <= l
    BY <2>1, LeastNat
  <2>3. ASSUME NEW l \in Existing, l < k, containers[l].number = containers[k].number
        PROVE  FALSE
    <3>1. l \in Firsts
      BY <2>3 DEF Kept, Numbers
    <3> QED BY <2>1, <2>2, <2>3, <3>1
  <2> QED BY <2>3 DEF Duplicates
<1>6. UpKeeps(r)'
  BY <1>2, <1>3, <1>5 DEF UpKeeps
<1> QED BY <1>1, <1>4, <1>6, UpCallKeeps DEF LeftBy, RenamedBy

LEMMA StopDuplicateKeeps ==
    ASSUME CommandsTyped, overlap = 1, OneAtATime, Answered, Kept,
           NEW r \in Ups, up_step(r), stop_duplicate(r), ~Refused(r)
    PROVE  Kept'
<1> DEFINE k == Oldest(up[r].todo)
<1>1. /\ up \in [Ups -> Up] /\ up[r] \in Up /\ up[r].pc = "stop_duplicate"
      /\ Typed /\ Step(r) /\ k \in Existing
      /\ (Set(k, "status", "exited") \/ UNCHANGED containers) /\ Goto(r, "remove_duplicate")
  BY TypedToo DEF CommandsTyped, CommandsTypeOK, TypeOK, stop_duplicate, Step, Operable
<1> HIDE DEF k
<1>2. up'[r].todo = up[r].todo /\ up'[r].pc = "remove_duplicate"
  BY <1>1 DEF Goto, Up
<1>3. Existing' = Existing /\ LabelsStay /\ OwnStays
  <2>1. CASE UNCHANGED containers
    BY <2>1 DEF Existing, LabelsStay, OwnStays
  <2>2. CASE Set(k, "status", "exited")
    BY <1>1, <2>2, StatusChange, ExistingAre DEF Statuses, LabelsStay, OwnStays
  <2> QED BY <1>1, <2>1, <2>2
<1>4. Firsts' = Firsts
  BY <1>3, FirstsStay DEF Firsts
<1>5. UpKeeps(r)' /\ SomeFirst'
  BY <1>1, <1>2, <1>4 DEF UpKeeps, Kept, SomeFirst
<1> QED BY <1>1, <1>3, <1>5, UpCallKeeps DEF LeftBy, RenamedBy, OwnStays

LEMMA RemoveDuplicateKeeps ==
    ASSUME CommandsTyped, overlap = 1, OneAtATime, Answered, Kept,
           NEW r \in Ups, up_step(r), remove_duplicate(r), ~Refused(r)
    PROVE  Kept'
<1> DEFINE k == Oldest(up[r].todo)
           rest == up[r].todo \ {k}
<1>1. /\ up \in [Ups -> Up] /\ up[r] \in Up /\ up[r].pc = "remove_duplicate"
      /\ Typed /\ Step(r) /\ k \in Existing /\ Set(k, "status", "removed")
      /\ up' = [up EXCEPT ![r].todo = rest,
                          ![r].pc = IF rest = {} THEN "plan" ELSE "stop_duplicate"]
  BY TypedToo DEF CommandsTyped, CommandsTypeOK, TypeOK, remove_duplicate, Step
<1>2. PICK f \in Firsts : f \notin up[r].todo
  BY <1>1 DEF Kept, UpKeeps
<1>3. k \in up[r].todo
  BY <1>1, OldestIsLeast DEF Kept, UpKeeps, Up
<1> HIDE DEF k
<1>4. up'[r].todo = rest /\ up'[r].pc = IF rest = {} THEN "plan" ELSE "stop_duplicate"
  BY <1>1 DEF Up
<1>5. Existing' = Existing \ {k} /\ LabelsStay /\ OwnStays
  BY <1>1, StatusChange, ExistingAre DEF Statuses, LabelsStay, OwnStays
<1>6. f \in Firsts' /\ f \notin rest
  BY <1>2, <1>3, <1>5, FirstsStay DEF Firsts
<1> HIDE DEF rest
<1>7. UpKeeps(r)' /\ SomeFirst'
  BY <1>4, <1>6 DEF UpKeeps, SomeFirst
<1> QED BY <1>1, <1>5, <1>7, UpCallKeeps DEF LeftBy, RenamedBy, OwnStays

LEMMA PlanKeeps ==
    ASSUME CommandsTyped, overlap = 1, OneAtATime, Answered, Kept,
           NEW r \in Ups, up_step(r), convergence_plan(r), ~Refused(r)
    PROVE  Kept'
<1> DEFINE plan == PlanFor(up[r].strategy)
<1>1. /\ up \in [Ups -> Up] /\ up[r] \in Up /\ up[r].pc = "plan"
      /\ Typed /\ Step(r) /\ UNCHANGED containers /\ Execute(r, plan)
  BY TypedToo DEF CommandsTyped, CommandsTypeOK, TypeOK, convergence_plan, Step
<1>2. Existing' = Existing /\ Firsts' = Firsts
  BY <1>1 DEF Existing, Firsts
<1>3. LabelsStay /\ OwnStays /\ SomeFirst'
  BY <1>1, <1>2 DEF LabelsStay, OwnStays, Kept, SomeFirst
<1>4. plan[1] \in {"create", "start", "recreate"} /\ (plan[1] = "create" => Existing = {})
  BY DEF PlanFor
<1> HIDE DEF plan
<1>5. up'[r].pc \in {"done", "create", "start", "recreate"} /\ (up'[r].pc = "create" => Existing = {})
  BY <1>1, <1>4 DEF Execute, End, Up
<1>6. UpKeeps(r)'
  BY <1>2, <1>5 DEF UpKeeps
<1> QED BY <1>1, <1>3, <1>6, UpCallKeeps DEF LeftBy, RenamedBy, OwnStays

\* A call of an up that starts or stops a container, and is not part of removing one.
LEMMA UpStatusKeeps ==
    ASSUME CommandsTyped, overlap = 1, OneAtATime, Answered, Kept,
           NEW r \in Ups, up_step(r), Step(r), ~Refused(r),
           \/ UNCHANGED containers
           \/ \E k \in Existing, s \in {"running", "exited"} : Set(k, "status", s),
           up[r].pc \notin {"renew", "start_renewed", "remove_old"},
           up'[r].pc \in {"done", "start", "recreate", "rename"}
    PROVE  Kept'
<1>1. Existing' = Existing /\ LabelsStay /\ OwnStays /\ (containers' # <<>> => containers # <<>>)
  <2>1. CASE UNCHANGED containers
    BY <2>1 DEF Existing, LabelsStay, OwnStays
  <2>2. ASSUME NEW k \in Existing, NEW s \in {"running", "exited"}, Set(k, "status", s)
        PROVE  /\ Existing' = Existing /\ LabelsStay /\ OwnStays
               /\ containers' # <<>> => containers # <<>>
    <3>1. s \in Statuses /\ Typed
      BY TypedToo DEF Statuses
    <3> QED BY <2>2, <3>1, StatusChange, ExistingAre DEF LabelsStay, OwnStays
  <2> QED BY <2>1, <2>2
<1>2. SomeFirst'
  BY <1>1, FirstsStay DEF Kept, SomeFirst, Firsts
<1>3. UpKeeps(r)'
  BY DEF UpKeeps
<1> QED BY <1>1, <1>2, <1>3, UpCallKeeps DEF LeftBy, RenamedBy, OwnStays

LEMMA StartsKeep ==
    ASSUME CommandsTyped, overlap = 1, OneAtATime, Answered, Kept, NEW r \in Ups, up_step(r),
           start_created(r) \/ start(r) \/ recreate(r), ~Refused(r)
    PROVE  Kept'
<1>1. /\ up \in [Ups -> Up] /\ up[r] \in Up /\ Step(r)
      /\ up[r].pc \in {"start_created", "start", "recreate"}
  BY DEF CommandsTyped, CommandsTypeOK, TypeOK, Step, start_created, start, recreate
<1>2. CASE start_created(r)
  <2>1. /\ up[r].new \in Existing /\ Set(up[r].new, "status", "running")
        /\ up'[r].pc = "done"
    BY <1>1, <1>2 DEF start_created, Operable, End, Up
  <2> QED BY <1>1, <2>1, UpStatusKeeps
<1>3. CASE start(r)
  <2>1. PICK k \in up[r].todo :
           /\ k \in Existing
           /\ UNCHANGED containers \/ Set(k, "status", "running")
           /\ Loop(r, up[r].todo \ {k}, "start")
    BY <1>3 DEF start
  <2>2. up'[r].pc \in {"done", "start"}
    <3> DEFINE rest == up[r].todo \ {k}
    <3>1. Loop(r, rest, "start")
      BY <2>1
    <3> HIDE DEF rest
    <3> QED BY <1>1, <3>1 DEF Loop, Up
  <2> QED BY <1>1, <2>1, <2>2, UpStatusKeeps
<1>4. CASE recreate(r)
  <2>1. PICK k \in up[r].todo :
           /\ k \in Existing
           /\ UNCHANGED containers \/ Set(k, "status", "exited")
           /\ up' = [up EXCEPT ![r].at = k, ![r].pc = "rename"]
    BY <1>4 DEF recreate, Operable
  <2>2. up'[r].pc = "rename"
    BY <1>1, <2>1 DEF Up
  <2> QED BY <1>1, <2>1, <2>2, UpStatusKeeps
<1> QED BY <1>2, <1>3, <1>4

LEMMA RenameKeeps ==
    ASSUME CommandsTyped, overlap = 1, OneAtATime, Answered, Kept,
           NEW r \in Ups, up_step(r), rename(r), ~Refused(r)
    PROVE  Kept'
<1> DEFINE k == up[r].at
<1>1. /\ up \in [Ups -> Up] /\ up[r] \in Up /\ up[r].pc = "rename"
      /\ Typed /\ Step(r) /\ k \in Existing /\ Set(k, "own", FALSE) /\ Goto(r, "renew")
  BY TypedToo DEF CommandsTyped, CommandsTypeOK, TypeOK, rename, Step
<1>2. up'[r].pc = "renew" /\ up'[r].at = k
  BY <1>1 DEF Goto, Up
<1>3. /\ Existing' = Existing /\ LabelsStay /\ containers # <<>>
      /\ \A l \in Existing : l # k => containers'[l].own = containers[l].own
  BY <1>1, NameChange, ExistingAre DEF LabelsStay
<1>4. SomeFirst'
  BY <1>3, FirstsStay DEF Kept, SomeFirst, Firsts
<1>5. UpKeeps(r)'
  BY <1>1, <1>2, <1>3 DEF UpKeeps
<1>6. \A l \in Existing' : /\ ~LeftBy(r, l)
                           /\ containers[l].own \/ RenamedBy(r, l) =>
                                 containers'[l].own \/ LeftBy(r, l)' \/ RenamedBy(r, l)'
  BY <1>1, <1>2, <1>3 DEF LeftBy, RenamedBy
<1> QED BY <1>1, <1>3, <1>4, <1>5, <1>6, UpCallKeeps

LEMMA StartRenewedKeeps ==
    ASSUME CommandsTyped, overlap = 1, OneAtATime, Answered, Kept,
           NEW r \in Ups, up_step(r), start_renewed(r), ~Refused(r)
    PROVE  Kept'
<1> DEFINE k == up[r].new
<1>1. /\ up \in [Ups -> Up] /\ up[r] \in Up /\ up[r].pc = "start_renewed"
      /\ Typed /\ Step(r) /\ k \in Existing /\ Set(k, "status", "running")
      /\ Goto(r, "remove_old")
  BY TypedToo DEF CommandsTyped, CommandsTypeOK, TypeOK, start_renewed, Step, Operable
<1>2. up'[r].pc = "remove_old" /\ up'[r].at = up[r].at /\ up'[r].new = up[r].new
  BY <1>1 DEF Goto, Up
<1>3. Existing' = Existing /\ LabelsStay /\ OwnStays /\ containers # <<>>
  BY <1>1, StatusChange, ExistingAre DEF Statuses, LabelsStay, OwnStays
<1>4. SomeFirst'
  BY <1>3, FirstsStay DEF Kept, SomeFirst, Firsts
<1>5. /\ up[r].at \in Existing /\ up[r].new \in Existing /\ up[r].new # up[r].at
      /\ containers[up[r].new].data = containers[up[r].at].data
  BY <1>1 DEF Kept, UpKeeps
<1>6. UpKeeps(r)'
  BY <1>2, <1>3, <1>5 DEF UpKeeps, LabelsStay
<1> QED BY <1>1, <1>2, <1>3, <1>4, <1>6, UpCallKeeps DEF LeftBy, RenamedBy, OwnStays

LEMMA RemoveOldKeeps ==
    ASSUME CommandsTyped, overlap = 1, OneAtATime, Answered, Kept,
           NEW r \in Ups, up_step(r), remove_old(r), ~Refused(r)
    PROVE  Kept'
<1> DEFINE k == up[r].at
           rest == up[r].todo \ {k}
<1>1. /\ up \in [Ups -> Up] /\ up[r] \in Up /\ up[r].pc = "remove_old"
      /\ Typed /\ Step(r) /\ k \in Existing /\ Set(k, "status", "removed")
      /\ Loop(r, rest, "recreate")
  BY TypedToo DEF CommandsTyped, CommandsTypeOK, TypeOK, remove_old, Step
<1> HIDE DEF rest
<1>2. up'[r].pc \in {"done", "recreate"}
  BY <1>1 DEF Loop, Up
<1>3. Existing' = Existing \ {k} /\ LabelsStay /\ OwnStays /\ containers # <<>>
  BY <1>1, StatusChange, ExistingAre DEF Statuses, LabelsStay, OwnStays
<1>4. /\ up[r].new \in Existing /\ up[r].new # k
      /\ containers[up[r].new].data = containers[k].data
  BY <1>1 DEF Kept, UpKeeps
<1>5. SomeFirst'
  <2>1. PICK f \in Firsts : TRUE
    BY <1>3 DEF Kept, SomeFirst
  <2>2. f # k => f \in Firsts'
    BY <1>3, <2>1, FirstsStay DEF Firsts
  <2>3. f = k => up[r].new \in Firsts'
    BY <1>3, <1>4, <2>1, FirstsStay DEF Firsts
  <2> QED BY <2>2, <2>3 DEF SomeFirst
<1>6. UpKeeps(r)'
  BY <1>2 DEF UpKeeps
<1>7. \A l \in Existing' : ~LeftBy(r, l) /\ ~RenamedBy(r, l)
  BY <1>1, <1>3 DEF LeftBy, RenamedBy
<1> QED BY <1>1, <1>3, <1>5, <1>6, <1>7, UpCallKeeps DEF OwnStays

LEMMA CreateKeeps ==
    ASSUME CommandsTyped, overlap = 1, OneAtATime, Answered, Kept,
           NEW r \in Ups, up_step(r), create(r), ~Refused(r)
    PROVE  Kept'
<1> DEFINE n == Len(containers) + 1
           new == Fresh(NextNumber, n)
<1>1. /\ up \in [Ups -> Up] /\ up[r] \in Up /\ up[r].pc = "create"
      /\ Typed /\ TypeOK /\ Step(r) /\ Create(r, NextNumber, n, "start_created")
  BY TypedToo DEF CommandsTyped, CommandsTypeOK, TypeOK, create, Step
<1>2. Existing = {}
  BY <1>1 DEF Kept, UpKeeps
<1>3. n = 1
  BY <1>2 DEF Kept, SomeFirst, Firsts
<1>4. NextNumber = 1
  BY <1>2 DEF NextNumber
<1>5. /\ new \in Container /\ containers' = Append(containers, new)
      /\ AfterCreate(r, "start_created") \in Up
      /\ up' = [up EXCEPT ![r] = AfterCreate(r, "start_created")]
  BY <1>1, <1>3, <1>4, CreateIs
<1>6. /\ new.status = "created" /\ new.own /\ new.number = 1 /\ new.data = 1
  BY <1>3, <1>4 DEF Fresh
<1>7. Existing' = {n} /\ containers'[n] = new
  <2> HIDE DEF new
  <2> QED BY <1>1, <1>2, <1>5, <1>6, NewOne
<1>8. Firsts' = {n} /\ Others' = {}
  BY <1>6, <1>7 DEF Firsts, Others
<1>9. Numbers' /\ SomeFirst' /\ OneOther'
  <2> HIDE DEF new, n
  <2> QED BY <1>6, <1>7, <1>8 DEF Numbers, SomeFirst, OneOther
<1>10. UpKeeps(r)'
  <2>1. up'[r].pc = "start_created"
    BY <1>1, <1>5 DEF AfterCreate, Up
  <2> QED BY <2>1 DEF UpKeeps
<1>11. /\ \A s \in Ups : s # r => ~Active(s) /\ up'[s] = up[s]
       /\ \A c \in Clients : ~Commanding(c)
       /\ UNCHANGED cmd
  BY UpAlone DEF up_step
<1> QED BY <1>9, <1>10, <1>11, KeptAfterUp

LEMMA RenewKeeps ==
    ASSUME CommandsTyped, overlap = 1, OneAtATime, Answered, Kept,
           NEW r \in Ups, up_step(r), renew(r), ~Refused(r)
    PROVE  Kept'
<1>0. PICK k : k = up[r].at
  OBVIOUS
<1> DEFINE n == Len(containers) + 1
           new == Fresh(containers[k].number, containers[k].data)
<1>1. /\ up \in [Ups -> Up] /\ up[r] \in Up /\ up[r].pc = "renew"
      /\ Typed /\ Step(r) /\ Create(r, containers[k].number, containers[k].data, "start_renewed")
  BY <1>0, TypedToo DEF CommandsTyped, CommandsTypeOK, TypeOK, renew, Step
<1>2. k \in Existing /\ k \in Nat
  BY <1>1, <1>0 DEF Kept, UpKeeps, Up
<1>3. containers[k].number \in Nat /\ containers[k].data \in Nat
  BY <1>1, <1>2, NumbersAre
<1>4. /\ new \in Container /\ containers' = Append(containers, new)
      /\ AfterCreate(r, "start_renewed") \in Up
      /\ up' = [up EXCEPT ![r] = AfterCreate(r, "start_renewed")]
  BY <1>1, <1>3, CreateIs
<1>5. /\ new.status = "created" /\ new.own
      /\ new.number = containers[k].number /\ new.data = containers[k].data
  BY DEF Fresh
<1>6. /\ Existing' = Existing \cup {n} /\ containers'[n] = new /\ n \notin Existing
      /\ \A l \in Existing : containers'[l] = containers[l]
  <2> HIDE DEF new
  <2> QED BY <1>1, <1>4, <1>5, NewOne, ExistingAre
<1>7. up'[r].pc = "start_renewed" /\ up'[r].at = k /\ up'[r].new = n
  BY <1>1, <1>4, <1>0 DEF AfterCreate, Up
<1>8. /\ \A s \in Ups : s # r => ~Active(s) /\ up'[s] = up[s]
      /\ \A c \in Clients : ~Commanding(c)
      /\ UNCHANGED cmd
  BY UpAlone DEF up_step
<1>9. FailedUps' = FailedUps
  BY <1>1, NoOtherFails
<1>10. n # k
  BY <1>2, <1>6
<1> HIDE DEF new, n
<1>11. Firsts' = IF k \in Firsts THEN Firsts \cup {n} ELSE Firsts
  BY <1>2, <1>5, <1>6 DEF Firsts
<1>12. Others' = IF k \in Firsts THEN Others ELSE Others \cup {n}
  BY <1>2, <1>6, <1>11 DEF Others, Firsts
<1>13. Leaving(k)'
  BY <1>7 DEF Leaving, LeftBy
<1>14. \A l \in Existing : ~Leaving(l) /\ (Nameless(l) => l = k)
  BY <1>1, <1>8, <1>0, AtRest DEF Leaving, Nameless, LeftBy, RenamedBy
<1>15. Numbers'
  <2> SUFFICES ASSUME NEW f \in Firsts', NEW l \in Existing'
               PROVE  /\ containers'[f].number <= containers'[l].number
                      /\ containers'[l].number = containers'[f].number => l \in Firsts'
    BY DEF Numbers
  <2> DEFINE Old(x) == IF x = n THEN k ELSE x
  <2>1. /\ Old(f) \in Firsts /\ containers'[f].number = containers[Old(f)].number
        /\ Old(l) \in Existing /\ containers'[l].number = containers[Old(l)].number
    BY <1>2, <1>5, <1>6, <1>11 DEF Firsts
  <2>2. /\ containers[Old(f)].number <= containers[Old(l)].number
        /\ containers[Old(l)].number = containers[Old(f)].number => Old(l) \in Firsts
    BY <2>1 DEF Kept, Numbers
  <2>3. Old(l) \in Firsts => l \in Firsts'
    BY <1>11
  <2> QED BY <2>1, <2>2, <2>3
<1>16. SomeFirst'
  <2>1. Firsts # {}
    BY <1>1, <1>2, ExistingAre DEF Kept, SomeFirst
  <2> QED BY <1>11, <2>1 DEF SomeFirst
<1>17. OneOther'
  <2>1. FailedUps' = {} => Others' = {}
    BY <1>2, <1>9, <1>12 DEF Kept, OneOther, Others
  <2>2. ASSUME NEW x \in Others', NEW y \in Others'
        PROVE  x = y \/ Leaving(x)' \/ Leaving(y)'
    <3>1. \A a, b \in Others : a = b
      BY <1>14 DEF Kept, OneOther, Others
    <3>2. k \notin Firsts => k \in Others
      BY <1>2 DEF Others
    <3>3. \A a \in Others' : a = n \/ a \in Others
      BY <1>12
    <3> QED BY <1>12, <1>13, <2>2, <3>1, <3>2, <3>3
  <2>3. ASSUME NEW l \in Existing'
        PROVE  \/ containers'[l].own \/ Leaving(l)' \/ Nameless(l)'
               \/ l \in Firsts' /\ FailedUps' # {}
    <3>1. CASE l = n
      BY <1>5, <1>6, <3>1
    <3>2. CASE l = k
      BY <1>13, <3>2
    <3>3. CASE l # n /\ l # k
      <4>1. l \in Existing /\ containers'[l] = containers[l]
        BY <1>6, <2>3, <3>3
      <4>2. containers[l].own \/ (l \in Firsts /\ FailedUps # {})
        BY <1>14, <3>3, <4>1 DEF Kept, OneOther
      <4> QED BY <1>9, <1>11, <4>1, <4>2
    <3> QED BY <3>1, <3>2, <3>3
  <2> QED BY <2>1, <2>2, <2>3 DEF OneOther
<1>18. UpKeeps(r)'
  BY <1>2, <1>5, <1>6, <1>7, <1>10 DEF UpKeeps
<1> QED BY <1>8, <1>15, <1>16, <1>17, <1>18, KeptAfterUp

LEMMA UpStepKeeps ==
    ASSUME CommandsTyped, overlap = 1, OneAtATime, Answered, Kept, Quiet',
           NEW r \in Ups, up_step(r)
    PROVE  Kept'
<1>1. CASE Refused(r)
  BY <1>1, BreakOffKeeps DEF Refused, up_step
<1>2. CASE ~Refused(r)
  <2>1. Step(r)
    BY <1>2 DEF up_step
  <2> QED BY <1>2, <2>1, DuplicatesKeep, StopDuplicateKeeps, RemoveDuplicateKeeps, PlanKeeps,
             CreateKeeps, StartsKeep, RenameKeeps, RenewKeeps, StartRenewedKeeps,
             RemoveOldKeeps DEF Step
<1> QED BY <1>1, <1>2

(***************************************************************************)
(* What else happens                                                       *)
(***************************************************************************)
LEMMA BeginUpKeeps ==
    ASSUME CommandsTyped, overlap = 1, OneAtATime, Kept,
           NEW r \in Ups, NEW strategy \in Strategies, begin_up(r, strategy)
    PROVE  Kept'
<1>1. /\ \A s \in Ups : s # r => ~Active(s) /\ up'[s] = up[s]
      /\ \A c \in Clients : ~Commanding(c)
      /\ UNCHANGED <<cmd, containers>> /\ up \in [Ups -> Up] /\ up[r] \in Up
      /\ up[r].pc = "idle"
  BY UpAlone DEF begin_up, Begin, CommandsTyped, CommandsTypeOK, TypeOK
<1>2. up'[r].pc = "duplicates" /\ up'[r].result = up[r].result
  BY <1>1 DEF begin_up, Begin, Up
<1>3. FailedUps' = FailedUps
  BY <1>1, <1>2 DEF FailedUps
<1>4. Existing' = Existing /\ Firsts' = Firsts /\ Others' = Others
  BY <1>1 DEF Existing, Firsts, Others
<1>5. \A s \in Ups : \A k : ~LeftBy(s, k) /\ ~RenamedBy(s, k)
  <2>1. \A s \in Ups : ~Active(s)
    BY <1>1 DEF Active
  <2> QED BY <2>1, AtRest
<1>6. OneOther'
  BY <1>1, <1>3, <1>4, <1>5 DEF Kept, OneOther, Leaving, Nameless
<1>7. Numbers' /\ SomeFirst'
  BY <1>1, <1>4 DEF Kept, Numbers, SomeFirst
<1>8. UpKeeps(r)'
  BY <1>2 DEF UpKeeps
<1> QED BY <1>1, <1>6, <1>7, <1>8, KeptAfterUp

LEMMA ExitKeeps ==
    ASSUME CommandsTyped, Kept, ~Busy, NEW k \in DOMAIN containers, Exit(k), UNCHANGED cmd
    PROVE  Kept'
<1>1. /\ \A c \in Clients : ~Commanding(c)
      /\ \A r \in Ups : ~Active(r)
      /\ UNCHANGED up /\ Typed /\ k \in Existing /\ Set(k, "status", "exited")
  BY TypedToo DEF Busy, InProgress, Commanding, Exit, Existing
<1>2. Existing' = Existing /\ LabelsStay /\ OwnStays /\ containers # <<>>
  BY <1>1, StatusChange, ExistingAre DEF Statuses, LabelsStay, OwnStays
<1>3. SomeFirst'
  BY <1>2, FirstsStay DEF Kept, SomeFirst, Firsts
<1>4. Numbers' /\ OneOther'
  BY <1>1, <1>2, FirstsStay, OneOtherStays DEF Kept
<1>5. \A r \in Ups : UpKeeps(r)'
  BY <1>1, AtRestAfter DEF Active
<1>6. \A c \in Clients : CommandKeeps(c)'
  BY <1>1, CommandAtRest DEF Commanding
<1> QED BY <1>3, <1>4, <1>5, <1>6 DEF Kept

LEMMA SameKeeps ==
    ASSUME Kept, UNCHANGED <<containers, up, cmd>>
    PROVE  Kept'
<1>1. Existing' = Existing /\ Firsts' = Firsts /\ Others' = Others /\ FailedUps' = FailedUps
  BY DEF Existing, Firsts, Others, FailedUps
<1>2. Numbers' /\ SomeFirst'
  BY <1>1 DEF Kept, Numbers, SomeFirst
<1>3. OneOther'
  BY <1>1 DEF Kept, OneOther, Leaving, Nameless, LeftBy, RenamedBy
<1>4. \A r \in Ups : UpKeeps(r)'
  BY <1>1 DEF Kept, UpKeeps
<1>5. \A c \in Clients : CommandKeeps(c)'
  BY <1>1 DEF Kept, CommandKeeps, Keeps, Running, RunningOnes, NameTaken
<1> QED BY <1>2, <1>3, <1>4, <1>5 DEF Kept

LEMMA VolumesNext ==
    ASSUME 0 \notin Desired, CommandsTyped, HalfMadeInv, VolumesInv, [CommandsNext]_cvars
    PROVE  VolumesInv'
<1>1. overlap' = overlap
  BY ZenonT(30) DEF CommandsNext, CommandBegin, CommandStep, Die, for_each, scale, run,
     project_containers, one_of_them, list_stopped, next_number, create_number, start_number,
     in_parallel, join, remove_stopped, create_one_off, start_one_off, begin_up, up_step,
     Around, AllDone, cvars
<1> SUFFICES ASSUME overlap = 1, OneAtATime, Quiet => Kept
             PROVE  OneAtATime' /\ (Quiet' => Kept')
  BY <1>1 DEF VolumesInv
<1>2. CASE UNCHANGED cvars
  <2>1. UNCHANGED <<containers, up, cmd>>
    BY <1>2 DEF cvars, vars
  <2> QED BY <2>1, SameKeeps DEF OneAtATime, Commanding, Active, Quiet, FailedUps
<1>3. CASE CommandsNext
  <2>1. OneAtATime' /\ Answered
    BY <1>3, OneAtATimeNext DEF HalfMadeInv
  <2> SUFFICES ASSUME Quiet' PROVE Kept'
    BY <2>1
  <2>2. Kept
    BY <1>3, <2>1, QuietBefore
  <2>3. ASSUME NEW c \in Clients, CommandBegin(c) \/ CommandStep(c) \/ Die(c) PROVE Kept'
    BY <2>2, <2>3, ReadingKeeps, OneOfThemKeeps, StartNumberKeeps, InParallelKeeps,
       CreateNumberKeeps DEF CommandBegin, CommandStep
  <2>4. ASSUME NEW r \in Ups, NEW strategy \in Strategies, begin_up(r, strategy) PROVE Kept'
    BY <2>2, <2>4, BeginUpKeeps
  <2>5. ASSUME NEW r \in Ups, up_step(r) PROVE Kept'
    BY <2>1, <2>2, <2>5, UpStepKeeps
  <2>6. CASE Around
    <3>1. ASSUME NEW r \in Ups, Fail(r) PROVE Kept'
      BY <2>1, <2>2, <2>6, <3>1, BreakOffKeeps DEF Fail, Around
    <3>2. CASE Rebuild
      BY <2>2, <2>6, <3>2, SameKeeps DEF Rebuild, Around
    <3>3. ASSUME ~Busy, NEW k \in DOMAIN containers, Exit(k) PROVE Kept'
      BY <2>2, <2>6, <3>3, ExitKeeps DEF Around
    <3> QED BY <2>6, <3>1, <3>2, <3>3 DEF Around
  <2>7. CASE AllDone
    BY <1>2, <2>2, <2>7, SameKeeps DEF AllDone, cvars, vars
  <2> QED BY <1>3, <2>3, <2>4, <2>5, <2>6, <2>7 DEF CommandsNext
<1> QED BY <1>2, <1>3

LEMMA InitVolumes == CommandsInit => VolumesInv
<1> SUFFICES ASSUME CommandsInit PROVE OneAtATime /\ Kept
  BY DEF VolumesInv
<1> DEFINE deployed == [status |-> "running", own |-> TRUE, image |-> 1,
                        number |-> 1, data |-> 1]
<1>1. /\ \A c \in Clients : cmd[c].pc = "idle"
      /\ \A r \in Ups : up[r].pc = "idle"
  BY DEF CommandsInit, Start
<1>2. OneAtATime
  BY <1>1 DEF OneAtATime, Commanding, Active
<1>3. CASE containers = <<>>
  <2>1. Existing = {} /\ Firsts = {} /\ Others = {}
    BY <1>3 DEF Existing, Firsts, Others
  <2> QED BY <1>1, <1>2, <1>3, <2>1
          DEF Kept, Numbers, SomeFirst, OneOther, UpKeeps, CommandKeeps, Phases
<1>4. CASE containers = <<deployed>>
  <2>1. Existing = {1} /\ containers[1] = deployed
    BY <1>4 DEF Existing
  <2>2. Firsts = {1} /\ Others = {}
    BY <2>1 DEF Firsts, Others
  <2>3. Numbers /\ SomeFirst /\ OneOther
    BY <2>1, <2>2 DEF Numbers, SomeFirst, OneOther
  <2> QED BY <1>1, <1>2, <2>3 DEF Kept, UpKeeps, CommandKeeps, Phases
<1> QED BY <1>3, <1>4 DEF CommandsInit, Start

\* When commands and ups are given one after the other, none loses the volumes
\* of the service, whatever they are and however many: not even a scale down
\* after an up that failed half way. Ruled out are scaling to zero, and what the
\* property names: refused calls of parallel phases, and a second up that fails.
THEOREM NoVolumesAreLost == 0 \notin Desired => (CommandsSpec => []VolumesSurvive)
<1> SUFFICES ASSUME 0 \notin Desired PROVE CommandsSpec => []VolumesSurvive
  OBVIOUS
<1>1. CommandsTyped /\ HalfMadeInv /\ VolumesInv /\ [CommandsNext]_cvars => VolumesInv'
  BY VolumesNext
<1>2. VolumesInv => VolumesSurvive
  BY DEF VolumesInv, VolumesSurvive, Quiet, Kept, SomeFirst, Firsts, VolumesKept
<1> QED BY <1>1, <1>2, InitVolumes, HalfMadeHolds, CommandsTypedHolds, PTL DEF CommandsSpec

(***************************************************************************)
(* How many containers run, while commands and ups are given in turns      *)
(***************************************************************************)
\* only who creates containers has some that were not started
Unmade(c) == cmd[c].pc \notin {"creating", "start_one_off"} => cmd[c].made = {}

\* what a scale has counted, and has still to start, create, stop or remove
Counts(c) ==
    LET m == cmd[c]
        num == Cardinality(RunningOnes)
    IN
    /\ m.pc = "list_stopped" => m.running = num /\ num < m.desired
    /\ m.pc = "starting" =>
          /\ m.todo \subseteq Existing \ RunningOnes
          /\ num + Cardinality(m.todo) = m.running /\ m.running <= m.desired
    /\ m.pc = "next_number" => num = m.running /\ m.running <= m.desired
    /\ m.pc = "creating" =>
          /\ m.made \subseteq Existing \ RunningOnes /\ IsFiniteSet(m.numbers)
          /\ num + Cardinality(m.numbers) + Cardinality(m.made) = m.desired
    /\ m.pc = "stopping" =>
          m.todo \subseteq RunningOnes /\ num = m.desired + Cardinality(m.todo)
    /\ m.pc \in {"remove_stopped", "removing"} => num = m.desired
    /\ m.pc = "removing" =>
          m.todo \subseteq Existing \ RunningOnes /\ Existing \subseteq RunningOnes \cup m.todo

Counted == \A c \in Clients : Unmade(c) /\ (~cmd[c].errors => Counts(c))

ScalesInv == overlap = 1 => OneAtATime /\ Counted

LEMMA EndedCounts ==
    ASSUME CommandsTyped, NEW c \in Clients, NEW result, CmdEnd(c, result)
    PROVE  Unmade(c)' /\ Counts(c)'
<1>1. cmd[c] \in Command /\ cmd \in [Clients -> Command]
  BY DEF CommandsTyped, CommandsTypeOK
<1>2. cmd' = [cmd EXCEPT ![c] = Ended(c, result)]
  BY CmdEndIs
<1>3. cmd'[c].pc = "done" /\ cmd'[c].made = {}
  BY <1>1, <1>2 DEF Ended, Command
<1> QED BY <1>3 DEF Unmade, Counts, Phases

\* The number of those that run after a call has been made for one of them.
LEMMA StatusCounts ==
    ASSUME Typed, NEW k \in Existing, NEW s \in Statuses, Set(k, "status", s)
    PROVE  /\ RunningOnes' = IF s \in {"running", "paused"} THEN RunningOnes \cup {k}
                             ELSE RunningOnes \ {k}
           /\ IsFiniteSet(RunningOnes) /\ Cardinality(RunningOnes) \in Nat
           /\ Cardinality(RunningOnes \cup {k}) =
                 IF Running(k) THEN Cardinality(RunningOnes) ELSE Cardinality(RunningOnes) + 1
           /\ Cardinality(RunningOnes \ {k}) =
                 IF Running(k) THEN Cardinality(RunningOnes) - 1 ELSE Cardinality(RunningOnes)
<1>1. /\ Existing' = IF s = "removed" THEN Existing \ {k} ELSE Existing
      /\ containers'[k].status = s
      /\ \A l \in Existing : l # k => containers'[l].status = containers[l].status
  BY StatusChange, ExistingAre
<1>2. \A l \in Existing : l # k => (Running(l)' <=> Running(l))
  BY <1>1 DEF Running
<1>3. Running(k)' <=> s \in {"running", "paused"}
  BY <1>1 DEF Running
<1>4. RunningOnes' = IF s \in {"running", "paused"} THEN RunningOnes \cup {k}
                     ELSE RunningOnes \ {k}
  BY <1>1, <1>2, <1>3 DEF RunningOnes
<1>5. IsFiniteSet(RunningOnes) /\ Cardinality(RunningOnes) \in Nat
  BY NumbersAre
<1>6. k \in RunningOnes <=> Running(k)
  BY DEF RunningOnes
<1> HIDE DEF RunningOnes
<1> QED BY <1>4, <1>5, <1>6, FS_AddElement, FS_RemoveElement

\* One less is left.
LEMMA SubsetsCount ==
    ASSUME Typed, NEW S \in SUBSET DOMAIN containers, NEW k \in S
    PROVE  /\ Cardinality(S) \in Nat /\ Cardinality(S \ {k}) = Cardinality(S) - 1
           /\ Cardinality(S \ {k}) \in Nat
<1>1. TypeOK /\ S \ {k} \in SUBSET DOMAIN containers
  BY DEF Typed
<1>2. IsFiniteSet(S) /\ Cardinality(S) \in Nat /\ Cardinality(S \ {k}) \in Nat
  BY <1>1, FinitelyMany
<1> QED BY <1>2, FS_RemoveElement

\* Whoever only reads leaves as many running.
LEMMA SameRunning ==
    ASSUME UNCHANGED containers
    PROVE  RunningOnes' = RunningOnes /\ Existing' = Existing
           /\ \A k : Running(k)' <=> Running(k)
BY DEF RunningOnes, Existing, Running

\* The last of a set, in the order of their numbers.
LEMMA LastIs ==
    ASSUME NEW S, IsFiniteSet(S), NEW n \in Nat, n <= Cardinality(S), NEW T \in Last(n, S)
    PROVE  T \subseteq S /\ Cardinality(T) = n /\ IsFiniteSet(T)
<1>1. PICK U \in First(Cardinality(S) - n, S) : T = S \ U
  BY DEF Last
<1>2. U \subseteq S /\ Cardinality(U) = Cardinality(S) - n
  BY <1>1 DEF First
<1>3. S \cap U = U /\ Cardinality(S) \in Nat
  BY <1>2, FS_CardinalityType
<1>4. IsFiniteSet(T) /\ Cardinality(T) = Cardinality(S) - Cardinality(U)
  BY <1>1, <1>3, FS_Difference
<1> QED BY <1>1, <1>2, <1>3, <1>4

\* The steps of a scale.
LEMMA ScaleCounts ==
    ASSUME CommandsTyped, NEW c \in Clients, Unmade(c), NEW n \in Desired, scale(c, n)
    PROVE  Unmade(c)' /\ Counts(c)'
<1> DEFINE num == Cardinality(RunningOnes)
<1>1. /\ cmd[c] \in Command /\ cmd \in [Clients -> Command] /\ Typed
      /\ num \in Nat /\ IsFiniteSet(RunningOnes) /\ n \in Nat /\ cmd[c].pc = "idle"
      /\ cmd[c].made = {}
  BY TypedToo, NumbersAre, DesiredAssumption
     DEF CommandsTyped, CommandsTypeOK, scale, Unmade
<1>2. RunningOnes' = RunningOnes /\ Existing' = Existing
  BY SameRunning DEF scale, vars
<1>3. CASE CmdEnd(c, "ok")
  BY <1>3, EndedCounts
<1>4. CASE n > num /\ cmd' = [cmd EXCEPT ![c].pc = "list_stopped", ![c].desired = n,
                                         ![c].running = num]
  <2>1. /\ cmd'[c].pc = "list_stopped" /\ cmd'[c].desired = n /\ cmd'[c].running = num
        /\ cmd'[c].made = {}
    BY <1>1, <1>4 DEF Command
  <2> QED BY <1>1, <1>2, <1>4, <2>1 DEF Counts, Unmade, Phases
<1>5. ASSUME n < num, NEW S \in Last(num - n, RunningOnes),
             cmd' = [cmd EXCEPT ![c].pc = "stopping", ![c].desired = n, ![c].todo = S]
      PROVE  Unmade(c)' /\ Counts(c)'
  <2>1. /\ cmd'[c].pc = "stopping" /\ cmd'[c].todo = S /\ cmd'[c].desired = n
        /\ cmd'[c].made = {}
    BY <1>1, <1>5 DEF Command
  <2>2. num - n \in Nat /\ num - n <= num
    BY <1>1, <1>5
  <2>3. S \subseteq RunningOnes /\ Cardinality(S) = num - n
    BY <1>1, <1>5, <2>2, LastIs
  <2>4. num = n + Cardinality(S)
    BY <1>1, <2>3
  <2> HIDE DEF num
  <2> QED BY <1>2, <2>1, <2>3, <2>4 DEF Counts, Unmade, num
<1>6. n # num /\ ~(n > num) => n < num
  BY <1>1
<1> HIDE DEF num
<1> QED BY <1>3, <1>4, <1>5, <1>6 DEF scale, num

LEMMA ListStoppedCounts ==
    ASSUME CommandsTyped, NEW c \in Clients, Unmade(c), Counts(c), list_stopped(c)
    PROVE  Unmade(c)' /\ Counts(c)'
<1> DEFINE missing == cmd[c].desired - cmd[c].running
           stopped == {k \in Existing : ~Running(k)}
           num == Cardinality(RunningOnes)
<1>1. /\ cmd[c] \in Command /\ cmd \in [Clients -> Command] /\ Typed /\ TypeOK
      /\ cmd[c].pc = "list_stopped" /\ UNCHANGED containers
      /\ cmd[c].desired \in Nat /\ cmd[c].running \in Nat
      /\ cmd[c].made = {}
  BY TypedToo DEF CommandsTyped, CommandsTypeOK, list_stopped, vars, Command, Unmade
<1>2. cmd[c].running = num /\ num < cmd[c].desired
  BY <1>1 DEF Counts
<1>3. RunningOnes' = RunningOnes /\ Existing' = Existing
  BY <1>1, SameRunning
<1>5. CASE At(c, "next_number")
  <2>1. /\ cmd'[c].pc = "next_number" /\ cmd'[c].running = cmd[c].running
        /\ cmd'[c].desired = cmd[c].desired /\ cmd'[c].made = {}
    BY <1>1, <1>5 DEF At, Command
  <2> HIDE DEF num
  <2>2. num <= cmd[c].desired
    BY <1>1, <1>2
  <2> QED BY <1>2, <1>3, <2>1, <2>2 DEF Counts, Unmade, Phases, num
<1>6. ASSUME NEW S, S \subseteq stopped, Cardinality(S) <= missing,
             cmd' = [cmd EXCEPT ![c].pc = "starting", ![c].todo = S,
                                ![c].running = @ + Cardinality(S)]
      PROVE  Unmade(c)' /\ Counts(c)'
  <2>1. /\ cmd'[c].pc = "starting" /\ cmd'[c].todo = S /\ cmd'[c].desired = cmd[c].desired
        /\ cmd'[c].running = cmd[c].running + Cardinality(S) /\ cmd'[c].made = {}
    BY <1>1, <1>6 DEF Command
  <2>2. S \subseteq Existing \ RunningOnes
    BY <1>6 DEF RunningOnes
  <2>3. Cardinality(S) \in Nat
    BY <1>1, <1>6, FinitelyMany, ExistingAre
  <2> HIDE DEF num
  <2>4. /\ num + Cardinality(S) = cmd[c].running + Cardinality(S)
        /\ cmd[c].running + Cardinality(S) <= cmd[c].desired
    BY <1>1, <1>2, <1>6, <2>3
  <2> QED BY <1>3, <2>1, <2>2, <2>4 DEF Counts, Unmade, num
<1>7. ASSUME NEW S \in IF Cardinality(stopped) > missing THEN First(missing, stopped)
                       ELSE {stopped}
      PROVE  S \subseteq stopped /\ Cardinality(S) <= missing
  <2>1. Cardinality(stopped) \in Nat
    BY <1>1, FinitelyMany, ExistingAre
  <2> HIDE DEF stopped
  <2>2. missing \in Int
    BY <1>1
  <2> HIDE DEF missing
  <2> QED BY <1>7, <2>1, <2>2 DEF First
<1>8. \/ At(c, "next_number")
      \/ \E S \in (IF Cardinality(stopped) > missing THEN First(missing, stopped)
                   ELSE {stopped}) :
            cmd' = [cmd EXCEPT ![c].pc = "starting", ![c].todo = S,
                               ![c].running = @ + Cardinality(S)]
  BY DEF list_stopped
<1> HIDE DEF stopped, missing
<1> QED BY <1>5, <1>6, <1>7, <1>8

LEMMA NextNumberCounts ==
    ASSUME CommandsTyped, NEW c \in Clients, Unmade(c), Counts(c), next_number(c)
    PROVE  Unmade(c)' /\ Counts(c)'
<1> DEFINE N == NextNumber .. NextNumber + cmd[c].desired - cmd[c].running - 1
           num == Cardinality(RunningOnes)
<1>1. /\ cmd[c] \in Command /\ cmd \in [Clients -> Command] /\ TypeOK
      /\ cmd[c].pc = "next_number" /\ UNCHANGED containers
      /\ cmd' = [cmd EXCEPT ![c].pc = "creating", ![c].numbers = N]
      /\ cmd[c].desired \in Nat /\ cmd[c].running \in Nat /\ cmd[c].made = {}
  BY DEF CommandsTyped, CommandsTypeOK, next_number, vars, Unmade, Command
<1>2. num = cmd[c].running /\ cmd[c].running <= cmd[c].desired
  BY <1>1 DEF Counts
<1>3. IsFiniteSet(N) /\ Cardinality(N) = cmd[c].desired - cmd[c].running
  <2> DEFINE a == NextNumber
  <2>1. a \in Nat
    BY <1>1, NextNumberIsNext
  <2> HIDE DEF a
  <2>2. a + cmd[c].desired - cmd[c].running - 1 \in Int
    BY <1>1, <2>1
  <2>3. /\ IsFiniteSet(a .. (a + cmd[c].desired - cmd[c].running - 1))
        /\ Cardinality(a .. (a + cmd[c].desired - cmd[c].running - 1)) =
              IF a > a + cmd[c].desired - cmd[c].running - 1 THEN 0
              ELSE (a + cmd[c].desired - cmd[c].running - 1) - a + 1
    BY <2>1, <2>2, FS_Interval
  <2>4. (IF a > a + cmd[c].desired - cmd[c].running - 1 THEN 0
         ELSE (a + cmd[c].desired - cmd[c].running - 1) - a + 1)
        = cmd[c].desired - cmd[c].running
    BY <1>1, <1>2, <2>1
  <2> QED BY <2>3, <2>4 DEF a
<1> HIDE DEF N, num
<1>4. /\ cmd'[c].pc = "creating" /\ cmd'[c].numbers = N /\ cmd'[c].made = {}
      /\ cmd'[c].desired = cmd[c].desired
  BY <1>1 DEF Command
<1>5. num + Cardinality(N) + Cardinality({}) = cmd[c].desired
  BY <1>1, <1>2, <1>3, FS_EmptySet
<1>6. RunningOnes' = RunningOnes /\ Existing' = Existing
  BY <1>1, SameRunning
<1> QED BY <1>3, <1>4, <1>5, <1>6 DEF Counts, Unmade, num, Phases

LEMMA CreateNumberCounts ==
    ASSUME CommandsTyped, NEW c \in Clients, Counts(c), create_number(c), ~cmd'[c].errors
    PROVE  Unmade(c)' /\ Counts(c)'
<1>0. PICK n : n = Len(containers) + 1
  OBVIOUS
<1> DEFINE num == Cardinality(RunningOnes)
<1>1. /\ cmd \in [Clients -> Command] /\ cmd[c] \in Command /\ cmd[c].pc = "creating"
      /\ Typed /\ TypeOK /\ cmd[c].made \subseteq DOMAIN containers
      /\ cmd[c].desired \in Nat
  BY TypedToo, CommandLocals DEF CommandsTyped, CommandsTypeOK, create_number, Command
<1>2. PICK i \in cmd[c].numbers :
         /\ containers' = Append(containers, Numbered(i))
         /\ cmd' = [cmd EXCEPT ![c] =
               [cmd[c] EXCEPT !.numbers = cmd[c].numbers \ {i},
                              !.made = cmd[c].made \cup {Len(containers) + 1}]]
  <2>1. ASSUME NEW i, cmd' = [cmd EXCEPT ![c] =
                 [cmd[c] EXCEPT !.numbers = cmd[c].numbers \ {i}, !.errors = TRUE]]
        PROVE  cmd'[c].errors
    BY <1>1, <2>1 DEF Command
  <2> QED BY <2>1, CreateNumberIs
<1>3. i \in Nat
  BY <1>1 DEF Command
<1>4. /\ cmd'[c].pc = "creating" /\ cmd'[c].made = cmd[c].made \cup {n}
      /\ cmd'[c].numbers = cmd[c].numbers \ {i} /\ cmd'[c].desired = cmd[c].desired
  BY <1>0, <1>1, <1>2 DEF Command
<1>5. /\ n \notin DOMAIN containers
      /\ Existing' = Existing \cup {n} /\ containers'[n] = Numbered(i)
      /\ \A l \in DOMAIN containers : containers'[l] = containers[l]
      /\ Numbered(i).status = "created"
  BY <1>0, <1>1, <1>2, <1>3, NumberedIs, NewOne
<1>6. Existing \subseteq DOMAIN containers /\ RunningOnes \subseteq Existing
  BY <1>1, ExistingAre DEF RunningOnes
<1>7. RunningOnes' = RunningOnes
  <2>1. \A l \in Existing : Running(l)' <=> Running(l)
    BY <1>5, <1>6 DEF Running
  <2>2. ~Running(n)'
    BY <1>5 DEF Running
  <2> QED BY <1>5, <2>1, <2>2 DEF RunningOnes
<1>8. /\ cmd[c].made \subseteq Existing \ RunningOnes /\ IsFiniteSet(cmd[c].numbers)
      /\ num + Cardinality(cmd[c].numbers) + Cardinality(cmd[c].made) = cmd[c].desired
  BY <1>1 DEF Counts
<1>9. /\ cmd'[c].made \subseteq Existing' \ RunningOnes'
      /\ IsFiniteSet(cmd'[c].numbers)
      /\ num + Cardinality(cmd'[c].numbers) + Cardinality(cmd'[c].made) = cmd'[c].desired
  <2>1. IsFiniteSet(cmd[c].made) /\ Cardinality(cmd[c].made) \in Nat /\ num \in Nat
    BY <1>1, NumbersAre, FinitelyMany
  <2>2. Cardinality(cmd[c].made \cup {n}) = Cardinality(cmd[c].made) + 1
    BY <1>1, <1>5, <2>1, FS_AddElement
  <2>3. /\ IsFiniteSet(cmd[c].numbers \ {i}) /\ Cardinality(cmd[c].numbers) \in Nat
        /\ Cardinality(cmd[c].numbers \ {i}) = Cardinality(cmd[c].numbers) - 1
    BY <1>8, FS_RemoveElement, FS_CardinalityType
  <2>4. cmd'[c].made \subseteq Existing' \ RunningOnes'
    BY <1>4, <1>5, <1>6, <1>7, <1>8
  <2> HIDE DEF num
  <2> QED BY <1>4, <1>8, <2>1, <2>2, <2>3, <2>4
<1> QED BY <1>4, <1>7, <1>9 DEF Counts, Unmade, num, Phases

LEMMA StartNumberCounts ==
    ASSUME CommandsTyped, NEW c \in Clients, Counts(c), start_number(c), ~cmd'[c].errors
    PROVE  Unmade(c)' /\ Counts(c)'
<1> DEFINE num == Cardinality(RunningOnes)
<1>1. PICK k \in cmd[c].made :
         /\ IF Operable(k) THEN Set(k, "status", "running") ELSE UNCHANGED containers
         /\ cmd' = [cmd EXCEPT ![c].made = @ \ {k}, ![c].errors = @ \/ ~Operable(k)]
  BY DEF start_number
<1>2. /\ cmd \in [Clients -> Command] /\ cmd[c] \in Command /\ cmd[c].pc = "creating"
      /\ Typed /\ cmd[c].made \subseteq DOMAIN containers /\ cmd[c].desired \in Nat
  BY TypedToo, CommandLocals DEF CommandsTyped, CommandsTypeOK, start_number, Command
<1>3. /\ cmd'[c].pc = "creating" /\ cmd'[c].made = cmd[c].made \ {k}
      /\ cmd'[c].numbers = cmd[c].numbers /\ cmd'[c].desired = cmd[c].desired
      /\ cmd'[c].errors = (cmd[c].errors \/ ~Operable(k))
  BY <1>1, <1>2 DEF Command
<1>4. k \in Existing /\ Set(k, "status", "running")
  BY <1>1, <1>3 DEF Operable
<1>5. /\ cmd[c].made \subseteq Existing \ RunningOnes /\ IsFiniteSet(cmd[c].numbers)
      /\ num + Cardinality(cmd[c].numbers) + Cardinality(cmd[c].made) = cmd[c].desired
  BY <1>2 DEF Counts
<1>6. ~Running(k)
  BY <1>4, <1>5 DEF RunningOnes
<1>7. RunningOnes' = RunningOnes \cup {k} /\ Cardinality(RunningOnes \cup {k}) = num + 1
      /\ num \in Nat /\ Existing' = Existing
  BY <1>2, <1>4, <1>6, StatusCounts, StatusChange DEF Statuses
<1>8. /\ Cardinality(cmd[c].made) \in Nat
      /\ Cardinality(cmd[c].made \ {k}) = Cardinality(cmd[c].made) - 1
      /\ Cardinality(cmd[c].numbers) \in Nat
  BY <1>2, <1>5, SubsetsCount, FS_CardinalityType
<1>9. /\ cmd'[c].made \subseteq Existing' \ RunningOnes'
      /\ Cardinality(RunningOnes') + Cardinality(cmd'[c].numbers) + Cardinality(cmd'[c].made)
            = cmd'[c].desired
  <2> HIDE DEF num
  <2> QED BY <1>3, <1>5, <1>7, <1>8
<1> QED BY <1>3, <1>5, <1>9 DEF Counts, Unmade, Phases

LEMMA InParallelCounts ==
    ASSUME CommandsTyped, NEW c \in Clients, Unmade(c), Counts(c), in_parallel(c),
           ~cmd'[c].errors
    PROVE  Unmade(c)' /\ Counts(c)'
<1> DEFINE phase == cmd[c].pc
           num == Cardinality(RunningOnes)
<1>1. PICK k \in cmd[c].todo :
          \/ /\ Lets(phase, k)
             /\ Set(k, "status", Target(phase))
             /\ cmd' = [cmd EXCEPT ![c].todo = @ \ {k}]
          \/ cmd' = [cmd EXCEPT ![c].todo = @ \ {k}, ![c].errors = TRUE]
  BY DEF in_parallel
<1>2. /\ cmd \in [Clients -> Command] /\ cmd[c] \in Command
      /\ phase \in {"starting", "stopping", "removing"} /\ Typed
      /\ cmd[c].todo \subseteq DOMAIN containers /\ cmd[c].desired \in Nat
      /\ cmd[c].running \in Nat /\ cmd[c].made = {}
  BY TypedToo, CommandLocals
     DEF CommandsTyped, CommandsTypeOK, in_parallel, Phases, Command, Unmade
<1>3. Lets(phase, k) /\ Set(k, "status", Target(phase)) /\ cmd' = [cmd EXCEPT ![c].todo = @ \ {k}]
  <2>1. ASSUME cmd' = [cmd EXCEPT ![c].todo = @ \ {k}, ![c].errors = TRUE]
        PROVE  cmd'[c].errors
    BY <1>2, <2>1 DEF Command
  <2> QED BY <1>1, <2>1
<1>4. /\ cmd'[c].pc = phase /\ cmd'[c].todo = cmd[c].todo \ {k} /\ cmd'[c].made = {}
      /\ cmd'[c].desired = cmd[c].desired /\ cmd'[c].running = cmd[c].running
  BY <1>2, <1>3 DEF Command
<1>5. k \in Existing /\ Target(phase) \in Statuses
  BY <1>2, <1>3 DEF Lets, Operable, Target, Statuses
<1>6. /\ RunningOnes' = IF Target(phase) \in {"running", "paused"} THEN RunningOnes \cup {k}
                        ELSE RunningOnes \ {k}
      /\ Existing' = IF Target(phase) = "removed" THEN Existing \ {k} ELSE Existing
      /\ num \in Nat
      /\ Cardinality(RunningOnes \cup {k}) = IF Running(k) THEN num ELSE num + 1
      /\ Cardinality(RunningOnes \ {k}) = IF Running(k) THEN num - 1 ELSE num
  BY <1>2, <1>3, <1>5, StatusCounts, StatusChange
<1>7. /\ Cardinality(cmd[c].todo) \in Nat
      /\ Cardinality(cmd[c].todo \ {k}) = Cardinality(cmd[c].todo) - 1
  BY <1>2, SubsetsCount
<1>8. Running(k) <=> k \in RunningOnes
  BY <1>5 DEF RunningOnes
<1>9. CASE phase = "starting"
  <2>1. /\ cmd[c].todo \subseteq Existing \ RunningOnes
        /\ num + Cardinality(cmd[c].todo) = cmd[c].running /\ cmd[c].running <= cmd[c].desired
    BY <1>9 DEF Counts
  <2>2. RunningOnes' = RunningOnes \cup {k} /\ Existing' = Existing
    BY <1>6, <1>9 DEF Target
  <2>3. Cardinality(RunningOnes') = num + 1
    BY <1>6, <1>8, <2>1, <2>2
  <2> HIDE DEF num
  <2>4. /\ cmd'[c].todo \subseteq Existing' \ RunningOnes'
        /\ Cardinality(RunningOnes') + Cardinality(cmd'[c].todo) = cmd'[c].running
    BY <1>2, <1>4, <1>6, <1>7, <2>1, <2>2, <2>3
  <2> QED BY <1>4, <1>9, <2>1, <2>4 DEF Counts, Unmade
<1>10. CASE phase = "stopping"
  <2>1. cmd[c].todo \subseteq RunningOnes /\ num = cmd[c].desired + Cardinality(cmd[c].todo)
    BY <1>10 DEF Counts
  <2>2. RunningOnes' = RunningOnes \ {k} /\ Existing' = Existing
    BY <1>6, <1>10 DEF Target
  <2>3. Cardinality(RunningOnes') = num - 1
    BY <1>6, <1>8, <2>1, <2>2
  <2> HIDE DEF num
  <2>4. /\ cmd'[c].todo \subseteq RunningOnes'
        /\ Cardinality(RunningOnes') = cmd'[c].desired + Cardinality(cmd'[c].todo)
    BY <1>2, <1>4, <1>6, <1>7, <2>1, <2>2, <2>3
  <2> QED BY <1>4, <1>10, <2>4 DEF Counts, Unmade
<1>11. CASE phase = "removing"
  <2>1. /\ cmd[c].todo \subseteq Existing \ RunningOnes
        /\ Existing \subseteq RunningOnes \cup cmd[c].todo /\ num = cmd[c].desired
    BY <1>11 DEF Counts
  <2>2. RunningOnes' = RunningOnes \ {k} /\ Existing' = Existing \ {k}
    BY <1>6, <1>11 DEF Target
  <2>3. RunningOnes' = RunningOnes
    BY <2>1, <2>2
  <2> QED BY <1>4, <1>11, <2>1, <2>2, <2>3 DEF Counts, Unmade
<1> QED BY <1>2, <1>9, <1>10, <1>11

LEMMA JoinCounts ==
    ASSUME CommandsTyped, NEW c \in Clients, Unmade(c), Counts(c), join(c) \/ remove_stopped(c)
    PROVE  Unmade(c)' /\ Counts(c)'
<1> DEFINE num == Cardinality(RunningOnes)
<1>1. /\ cmd[c] \in Command /\ cmd \in [Clients -> Command] /\ UNCHANGED containers
      /\ num \in Nat /\ cmd[c].desired \in Nat
  BY TypedToo, NumbersAre DEF CommandsTyped, CommandsTypeOK, join, remove_stopped, vars, Command
<1>2. /\ RunningOnes' = RunningOnes /\ Existing' = Existing
      /\ \A k : Running(k)' <=> Running(k)
  BY <1>1, SameRunning
<1>3. CASE \E result : CmdEnd(c, result)
  BY <1>3, EndedCounts
<1>4. ASSUME NEW pc \in {"next_number", "remove_stopped"}, At(c, pc), cmd[c].made = {}
      PROVE  /\ cmd'[c].pc = pc /\ cmd'[c].made = {} /\ cmd'[c].desired = cmd[c].desired
             /\ cmd'[c].running = cmd[c].running
  BY <1>1, <1>4 DEF At, Command
<1>5. CASE join(c) /\ cmd[c].pc = "starting" /\ At(c, "next_number")
  <2>1. num + Cardinality({}) = cmd[c].running /\ cmd[c].running <= cmd[c].desired
    BY <1>5 DEF join, Counts
  <2>2. num = cmd[c].running
    BY <1>1, <2>1, FS_EmptySet
  <2> HIDE DEF num
  <2> QED BY <1>2, <1>4, <1>5, <2>1, <2>2 DEF join, Counts, Unmade, num, Phases
<1>6. CASE join(c) /\ cmd[c].pc \in {"creating", "stopping"} /\ At(c, "remove_stopped")
  <2>1. \/ num + Cardinality({}) + Cardinality({}) = cmd[c].desired
        \/ num = cmd[c].desired + Cardinality({})
    BY <1>6 DEF join, Counts
  <2>2. num = cmd[c].desired
    BY <1>1, <2>1, FS_EmptySet
  <2> HIDE DEF num
  <2> QED BY <1>2, <1>4, <1>6, <2>2 DEF join, Counts, Unmade, num, Phases
<1>7. CASE remove_stopped(c)
  <2>1. /\ cmd[c].pc = "remove_stopped"
        /\ cmd'[c].pc = "removing" /\ cmd'[c].todo = {k \in Existing : ~Running(k)}
        /\ cmd'[c].desired = cmd[c].desired /\ cmd'[c].made = cmd[c].made
    BY <1>1, <1>7 DEF remove_stopped, Command
  <2>2. num = cmd[c].desired /\ cmd[c].made = {}
    BY <2>1 DEF Counts, Unmade
  <2>3. /\ cmd'[c].todo \subseteq Existing \ RunningOnes
        /\ Existing \subseteq RunningOnes \cup cmd'[c].todo
    BY <2>1 DEF RunningOnes
  <2> QED BY <1>2, <2>1, <2>2, <2>3 DEF Counts, Unmade
<1> QED BY <1>3, <1>5, <1>6, <1>7 DEF join

\* The other commands count nothing.
LEMMA NoScaleCounts ==
    ASSUME CommandsTyped, NEW c \in Clients, Unmade(c),
           \/ \E kind \in Eachs : for_each(c, kind)
           \/ run(c) \/ project_containers(c) \/ Die(c)
           \/ create_one_off(c) \/ start_one_off(c) \/ one_of_them(c)
    PROVE  Unmade(c)' /\ Counts(c)'
<1>1. cmd[c] \in Command /\ cmd \in [Clients -> Command]
  BY DEF CommandsTyped, CommandsTypeOK
<1>2. Counts(c)'
  <2>1. cmd'[c].pc \in Eachs \cup {"run", "start_one_off", "done"}
    BY NoScale
  <2> QED BY <2>1 DEF Counts, Eachs, Phases
<1>3. CASE \E result : CmdEnd(c, result)
  BY <1>3, EndedCounts
<1>4. ASSUME NEW kind \in Eachs, for_each(c, kind) PROVE Unmade(c)'
  BY <1>1, <1>3, <1>4 DEF for_each, Unmade, Command
<1>5. CASE one_of_them(c)
  <2>1. cmd[c].made = {}
    BY <1>5 DEF one_of_them, Unmade, Eachs
  <2>2. ASSUME NEW S, cmd' = [cmd EXCEPT ![c].todo = S] PROVE cmd'[c].made = {}
    BY <1>1, <2>1, <2>2 DEF Command
  <2>3. \/ \E result : CmdEnd(c, result)
        \/ \E S : cmd' = [cmd EXCEPT ![c].todo = S]
    BY <1>5 DEF one_of_them
  <2> QED BY <1>2, <1>3, <2>2, <2>3 DEF Unmade
<1>6. CASE run(c)
  <2>1. PICK N : cmd' = [cmd EXCEPT ![c].pc = "run", ![c].numbers = N] /\ cmd[c].pc = "idle"
    BY <1>6 DEF run
  <2> QED BY <1>1, <1>2, <2>1 DEF Unmade, Command
<1>7. CASE create_one_off(c)
  <2>1. ASSUME NEW S, cmd' = [cmd EXCEPT ![c].pc = "start_one_off", ![c].made = S]
        PROVE  cmd'[c].pc = "start_one_off"
    BY <1>1, <2>1 DEF Command
  <2>2. \/ \E result : CmdEnd(c, result)
        \/ \E S : cmd' = [cmd EXCEPT ![c].pc = "start_one_off", ![c].made = S]
    BY <1>7 DEF create_one_off
  <2> QED BY <1>2, <1>3, <2>1, <2>2 DEF Unmade
<1>8. CASE project_containers(c) \/ Die(c) \/ start_one_off(c)
  BY <1>3, <1>8 DEF project_containers, Die, start_one_off
<1> QED BY <1>2, <1>4, <1>5, <1>6, <1>7, <1>8

\* What holds of every command whether or not there was an error.
LEMMA UnmadeNext ==
    ASSUME CommandsTyped, NEW c \in Clients, Unmade(c),
           list_stopped(c) \/ next_number(c) \/ create_number(c) \/ start_number(c)
           \/ in_parallel(c) \/ join(c) \/ remove_stopped(c)
    PROVE  Unmade(c)'
<1>1. cmd[c] \in Command /\ cmd \in [Clients -> Command]
  BY DEF CommandsTyped, CommandsTypeOK
<1>2. CASE \E result : CmdEnd(c, result)
  BY <1>2, EndedCounts
<1>3. CASE list_stopped(c)
  <2>1. ASSUME NEW S, NEW all,
               cmd' = [cmd EXCEPT ![c].pc = "starting", ![c].todo = S, ![c].running = all]
        PROVE  cmd'[c].made = cmd[c].made
    BY <1>1, <2>1 DEF Command
  <2>2. cmd[c].made = {}
    BY <1>3 DEF list_stopped, Unmade
  <2>3. CASE At(c, "next_number")
    BY <1>1, <2>2, <2>3 DEF At, Command, Unmade
  <2>4. CASE \E S : cmd' = [cmd EXCEPT ![c].pc = "starting", ![c].todo = S,
                                       ![c].running = @ + Cardinality(S)]
    BY <2>1, <2>2, <2>4 DEF Unmade
  <2> QED BY <1>2, <1>3, <2>3, <2>4 DEF list_stopped
<1>4. CASE next_number(c)
  <2>1. PICK N : cmd' = [cmd EXCEPT ![c].pc = "creating", ![c].numbers = N]
    BY <1>4 DEF next_number
  <2> QED BY <1>1, <2>1 DEF Command, Unmade
<1>5. CASE create_number(c) \/ start_number(c)
  <2>1. cmd[c].pc = "creating"
    BY <1>5 DEF create_number, start_number
  <2>2. CASE create_number(c)
    <3>1. PICK i : \/ cmd' = [cmd EXCEPT ![c] =
                         [cmd[c] EXCEPT !.numbers = cmd[c].numbers \ {i}, !.errors = TRUE]]
                   \/ cmd' = [cmd EXCEPT ![c] =
                         [cmd[c] EXCEPT !.numbers = cmd[c].numbers \ {i},
                                        !.made = cmd[c].made \cup {Len(containers) + 1}]]
      BY <2>2, CreateNumberIs
    <3>2. cmd'[c].pc = "creating"
      <4>1. CASE cmd' = [cmd EXCEPT ![c] =
                    [cmd[c] EXCEPT !.numbers = cmd[c].numbers \ {i}, !.errors = TRUE]]
        BY <1>1, <2>1, <4>1 DEF Command
      <4>2. CASE cmd' = [cmd EXCEPT ![c] =
                    [cmd[c] EXCEPT !.numbers = cmd[c].numbers \ {i},
                                   !.made = cmd[c].made \cup {Len(containers) + 1}]]
        BY <1>1, <2>1, <4>2 DEF Command
      <4> QED BY <3>1, <4>1, <4>2
    <3> QED BY <3>2 DEF Unmade
  <2>3. CASE start_number(c)
    <3>1. PICK k \in cmd[c].made :
             cmd' = [cmd EXCEPT ![c].made = @ \ {k}, ![c].errors = @ \/ ~Operable(k)]
      BY <2>3 DEF start_number
    <3>2. cmd'[c].pc = "creating"
      BY <1>1, <2>1, <3>1 DEF Command
    <3> QED BY <3>2 DEF Unmade
  <2> QED BY <1>5, <2>2, <2>3
<1>6. CASE in_parallel(c)
  <2>1. cmd[c].made = {}
    BY <1>6 DEF in_parallel, Unmade, Phases
  <2> QED BY <1>1, <1>6, <2>1 DEF in_parallel, Command, Unmade, Phases
<1>7. CASE join(c)
  BY <1>1, <1>2, <1>7 DEF join, At, Command, Unmade
<1>8. CASE remove_stopped(c)
  <2>1. cmd[c].made = {}
    BY <1>8 DEF remove_stopped, Unmade
  <2> QED BY <1>1, <1>2, <1>8, <2>1 DEF remove_stopped, Command, Unmade
<1> QED BY <1>3, <1>4, <1>5, <1>6, <1>7, <1>8

LEMMA CommandCounts ==
    ASSUME CommandsTyped, NEW c \in Clients, Unmade(c), ~cmd[c].errors => Counts(c),
           CommandBegin(c) \/ CommandStep(c) \/ Die(c)
    PROVE  Unmade(c)' /\ (~cmd'[c].errors => Counts(c)')
<1>1. ~cmd'[c].errors => Counts(c)
  BY CommandFrame
<1>2. ASSUME NEW n \in Desired, scale(c, n)
      PROVE  Unmade(c)' /\ Counts(c)'
  BY <1>2, ScaleCounts
<1>3. ASSUME \/ \E kind \in Eachs : for_each(c, kind)
             \/ run(c) \/ project_containers(c) \/ Die(c)
             \/ create_one_off(c) \/ start_one_off(c) \/ one_of_them(c)
      PROVE  Unmade(c)' /\ Counts(c)'
  BY <1>3, NoScaleCounts
<1>4. CASE list_stopped(c) \/ next_number(c) \/ create_number(c) \/ start_number(c)
           \/ in_parallel(c) \/ join(c) \/ remove_stopped(c)
  <2>1. Unmade(c)'
    BY <1>4, UnmadeNext
  <2>2. ASSUME ~cmd'[c].errors PROVE Counts(c)'
    BY <1>1, <1>4, <2>2, ListStoppedCounts, NextNumberCounts, CreateNumberCounts,
       StartNumberCounts, InParallelCounts, JoinCounts
  <2> QED BY <2>1, <2>2
<1> QED BY <1>2, <1>3, <1>4 DEF CommandBegin, CommandStep

LEMMA ScalesNext ==
    ASSUME CommandsTyped, ScalesInv, [CommandsNext]_cvars
    PROVE  ScalesInv'
<1>1. overlap' = overlap
  BY ZenonT(30) DEF CommandsNext, CommandBegin, CommandStep, Die, for_each, scale, run,
     project_containers, one_of_them, list_stopped, next_number, create_number, start_number,
     in_parallel, join, remove_stopped, create_one_off, start_one_off, begin_up, up_step,
     Around, AllDone, cvars
<1> SUFFICES ASSUME overlap = 1, OneAtATime, Counted
             PROVE  OneAtATime' /\ Counted'
  BY <1>1 DEF ScalesInv
<1>2. ASSUME UNCHANGED <<containers, cmd>> PROVE Counted'
  BY <1>2, SameRunning DEF Counted, Counts, Unmade
<1>3. ASSUME NEW c \in Clients, CommandBegin(c) \/ CommandStep(c) \/ Die(c) PROVE Counted'
  <2>1. \A d \in Clients : d # c => ~Commanding(d) /\ cmd'[d] = cmd[d]
    BY <1>3, CommandAlone
  <2>2. Unmade(c)' /\ (~cmd'[c].errors => Counts(c)')
    BY <1>3, CommandCounts DEF Counted
  <2>3. ASSUME NEW d \in Clients, d # c PROVE Unmade(d)' /\ Counts(d)'
    <3>1. cmd'[d] = cmd[d] /\ ~Commanding(d)
      BY <2>1, <2>3
    <3>2. Unmade(d)'
      BY <3>1 DEF Counted, Unmade
    <3>3. Counts(d)'
      BY <3>1 DEF Commanding, Counts, Phases
    <3> QED BY <3>2, <3>3
  <2> QED BY <2>2, <2>3 DEF Counted
<1>4. ASSUME \A c \in Clients : ~Commanding(c), UNCHANGED cmd PROVE Counted'
  BY <1>4 DEF Commanding, Counted, Unmade, Counts, Phases
<1>5. CASE UNCHANGED cvars
  BY <1>2, <1>5 DEF cvars, vars, OneAtATime, Commanding, Active
<1>6. CASE CommandsNext
  <2>1. OneAtATime'
    BY <1>6, OneAtATimeNext
  <2>2. ASSUME NEW r \in Ups, NEW strategy \in Strategies, begin_up(r, strategy) PROVE Counted'
    BY <1>4, <2>2, UpAlone DEF begin_up
  <2>3. ASSUME NEW r \in Ups, up_step(r) PROVE Counted'
    BY <1>4, <2>3, UpAlone DEF up_step
  <2>4. ASSUME Around PROVE Counted'
    <3>1. ASSUME NEW r \in Ups, Fail(r) PROVE Counted'
      BY <1>4, <2>4, <3>1, UpAlone DEF Around
    <3>2. CASE Rebuild
      BY <1>2, <2>4, <3>2 DEF Around, Rebuild
    <3>3. CASE ~Busy
      <4>1. \A c \in Clients : ~Commanding(c)
        BY <3>3 DEF Busy, InProgress, Commanding
      <4> QED BY <1>4, <2>4, <4>1 DEF Around
    <3> QED BY <2>4, <3>1, <3>2, <3>3 DEF Around
  <2>5. ASSUME AllDone PROVE Counted'
    BY <1>2, <2>5 DEF AllDone, cvars, vars
  <2> QED BY <1>3, <1>6, <2>1, <2>2, <2>3, <2>4, <2>5 DEF CommandsNext
<1> QED BY <1>5, <1>6

LEMMA InitScales == CommandsInit => ScalesInv
<1> SUFFICES ASSUME CommandsInit PROVE ScalesInv
  OBVIOUS
<1>1. /\ \A c \in Clients : cmd[c].pc = "idle" /\ cmd[c].made = {}
      /\ \A r \in Ups : up[r].pc = "idle"
  BY DEF CommandsInit, Start
<1> QED BY <1>1 DEF ScalesInv, OneAtATime, Commanding, Active, Counted, Unmade, Counts, Phases

\* A scale that ends well has joined what it removed.
LEMMA EndedWell ==
    ASSUME CommandsTyped, [CommandsNext]_cvars, NEW c \in Clients,
           cmd[c].result = "none", cmd'[c].result = "ok", cmd[c].pc = "removing"
    PROVE  cmd[c].todo = {} /\ UNCHANGED containers
<1>1. cmd[c] \in Command /\ cmd \in [Clients -> Command]
  BY DEF CommandsTyped, CommandsTypeOK
<1>2. cmd'[c] # cmd[c]
  OBVIOUS
<1>3. PICK d \in Clients : CommandBegin(d) \/ CommandStep(d) \/ Die(d)
  BY <1>2 DEF CommandsNext, begin_up, up_step, Around, AllDone, cvars
<1>4. d = c
  BY <1>2, <1>3, CommandFrame
<1>5. in_parallel(c) \/ join(c) \/ Die(c)
  BY <1>3, <1>4 DEF CommandBegin, CommandStep, for_each, scale, run, project_containers,
     one_of_them, list_stopped, next_number, create_number, start_number, remove_stopped,
     create_one_off, start_one_off, Eachs
<1>6. ~in_parallel(c)
  <2>1. ASSUME NEW S, \/ cmd' = [cmd EXCEPT ![c].todo = S]
                      \/ cmd' = [cmd EXCEPT ![c].todo = S, ![c].errors = TRUE]
        PROVE  cmd'[c].result = cmd[c].result
    BY <1>1, <2>1 DEF Command
  <2> QED BY <2>1 DEF in_parallel
<1>7. ~Die(c)
  <2>1. ASSUME Die(c) PROVE cmd'[c].result = "failed"
    <3>1. cmd' = [cmd EXCEPT ![c] = Ended(c, "failed")] /\ Ended(c, "failed").result = "failed"
      BY <2>1, CmdEndIs, EndedIs DEF Die
    <3> QED BY <1>1, <3>1
  <2> QED BY <2>1
<1> QED BY <1>5, <1>6, <1>7 DEF join, vars

\* Any scale that nothing overlaps, and no call of which was refused, leaves
\* exactly as many containers running as it was asked for, and none stopped,
\* however many there were and whatever up has left.
THEOREM ScalesAreExact == CommandsSpec => Scales
<1>1. CommandsTyped /\ ScalesInv /\ [CommandsNext]_cvars => ScalesInv'
  BY ScalesNext
<1>2. CommandsTyped /\ ScalesInv /\ [CommandsNext]_cvars =>
      [\A c \in Clients :
         /\ overlap = 1
         /\ cmd[c].result = "none" /\ cmd'[c].result = "ok"
         /\ cmd[c].pc = "removing" /\ ~cmd[c].errors
         => /\ Cardinality(RunningOnes') = cmd[c].desired
            /\ Existing' = RunningOnes']_cvars
  <2> SUFFICES ASSUME CommandsTyped, ScalesInv, [CommandsNext]_cvars, NEW c \in Clients,
                      overlap = 1,
                      cmd[c].result = "none", cmd'[c].result = "ok",
                      cmd[c].pc = "removing", ~cmd[c].errors
               PROVE  /\ Cardinality(RunningOnes') = cmd[c].desired
                      /\ Existing' = RunningOnes'
    OBVIOUS
  <2>1. cmd[c].todo = {} /\ RunningOnes' = RunningOnes /\ Existing' = Existing
    BY EndedWell, SameRunning
  <2>2. /\ Cardinality(RunningOnes) = cmd[c].desired
        /\ Existing \subseteq RunningOnes \cup cmd[c].todo
    BY DEF ScalesInv, Counted, Counts
  <2> QED BY <2>1, <2>2 DEF RunningOnes
<1> QED BY <1>1, <1>2, InitScales, CommandsTypedHolds, PTL DEF CommandsSpec, Scales
=============================================================================
