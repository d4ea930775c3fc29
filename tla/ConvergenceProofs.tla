------------------------- MODULE ConvergenceProofs --------------------------
(***************************************************************************)
(* What the ups of a service promise, for any number of ups and images and *)
(* wherever a call fails or the server dies: types in any case; and, when  *)
(* ups are given in turn (Exclusive), that the next up goes through        *)
(* whatever was left, keeps the volumes, ends with one container, running, *)
(* and under its name unless it created none and an earlier one failed.    *)
(*                                                                         *)
(* The invariant behind all but the first is InTurn: every container is a  *)
(* copy of the first (AllAlike), the service is never without one again    *)
(* (NeverEmptied), and at each step of an up there is exactly what the     *)
(* steps before it have left (WhereItIs).  An up that breaks off may leave *)
(* two containers, of one number; the next takes one for a duplicate.      *)
(* Named adds which of them has the container_name.                        *)
(***************************************************************************)
EXTENDS Convergence, TLAPS, WellFoundedInduction

\* what an up is about to touch by its position was created
Indices ==
    \A r \in Ups :
       /\ up[r].pc \in {"rename", "renew", "start_renewed", "remove_old"} =>
             up[r].at \in DOMAIN containers
       /\ up[r].pc \in {"start_created", "start_renewed", "remove_old"} =>
             up[r].new \in DOMAIN containers

Typed == TypeOK /\ Indices

(***************************************************************************)
(* Numbers                                                                 *)
(***************************************************************************)
\* A set of numbers that is not empty has a least one.
LEMMA LeastNat ==
    ASSUME NEW S \in SUBSET Nat, S # {}
    PROVE  \E x \in S : \A y \in S : x <= y
<1>1. PICK x \in S : \A y \in S : ~ (<<y, x>> \in OpToRel(<, Nat))
  BY NatLessThanWellFounded, WFMin
<1>2. \A y \in S : ~ (y < x)
  BY <1>1 DEF OpToRel
<1> QED BY <1>2

\* Oldest of a set of positions is in it and none of it is older.
LEMMA OldestIsLeast ==
    ASSUME NEW S \in SUBSET Nat, S # {}
    PROVE  Oldest(S) \in S /\ \A l \in S : Oldest(S) <= l
BY LeastNat DEF Oldest

\* A set that holds 0 and the successor of each of its members is all of Nat.
LEMMA Successors ==
    ASSUME NEW S \in SUBSET Nat, 0 \in S, \A n \in S : n + 1 \in S
    PROVE  S = Nat
<1> SUFFICES ASSUME Nat \ S # {} PROVE FALSE
  OBVIOUS
<1>1. PICK n \in Nat \ S : \A m \in Nat \ S : n <= m
  BY LeastNat
<1>2. n # 0 /\ n - 1 \in Nat /\ n - 1 \notin Nat \ S
  BY <1>1
<1>3. n - 1 \in S /\ n = (n - 1) + 1
  BY <1>2
<1> QED BY <1>1, <1>3

\* A function to numbers has a greatest value on any non-empty set of the
\* first n positions.
LEMMA GreatestValue ==
    ASSUME NEW N \in Nat, NEW f \in [1 .. N -> Nat], NEW S \in SUBSET (1 .. N), S # {}
    PROVE  \E k \in S : \A l \in S : f[l] <= f[k]
<1> DEFINE Greatest(T) == T # {} => \E k \in T : \A l \in T : f[l] <= f[k]
           G == {n \in Nat : \A T \in SUBSET S : (\A k \in T : k <= n) => Greatest(T)}
<1>0. \A k \in S : k \in Nat /\ 1 <= k /\ k <= N /\ f[k] \in Nat
  OBVIOUS
<1>1. 0 \in G
  <2> SUFFICES ASSUME NEW T \in SUBSET S, \A k \in T : k <= 0 PROVE T = {}
    OBVIOUS
  <2> QED BY <1>0
<1>2. ASSUME NEW n \in G PROVE n + 1 \in G
  <2>0. n \in Nat
    OBVIOUS
  <2> SUFFICES ASSUME NEW T \in SUBSET S, \A k \in T : k <= n + 1, T # {}
               PROVE  \E k \in T : \A l \in T : f[l] <= f[k]
    BY <2>0
  <2> DEFINE U == T \ {n + 1}
  <2>1. U \in SUBSET S /\ \A k \in U : k <= n
    BY <1>0, <2>0
  <2>2. U # {} => \E k \in U : \A l \in U : f[l] <= f[k]
    BY <2>1
  <2>3. CASE n + 1 \notin T
    BY <2>2, <2>3
  <2>4. CASE U = {}
    <3>1. T = {n + 1}
      BY <2>4
    <3> QED BY <3>1, <1>0
  <2>5. CASE n + 1 \in T /\ U # {}
    <3>1. PICK k \in U : \A l \in U : f[l] <= f[k]
      BY <2>2, <2>5
    <3>2. f[k] \in Nat /\ f[n + 1] \in Nat /\ \A l \in U : f[l] \in Nat
      BY <1>0, <2>5
    <3>3. k \in T /\ n + 1 \in T /\ \A l \in T : l \in U \/ l = n + 1
      BY <2>5
    <3> HIDE DEF U
    <3>4. CASE f[n + 1] <= f[k]
      <4>1. \A l \in T : f[l] <= f[k]
        BY <3>1, <3>3, <3>4
      <4> QED BY <4>1, <3>3
    <3>5. CASE f[k] < f[n + 1]
      <4>1. ASSUME NEW l \in U PROVE f[l] <= f[n + 1]
        <5>1. f[l] <= f[k] /\ f[l] \in Nat
          BY <3>1, <3>2
        <5> QED BY <5>1, <3>2, <3>5
      <4>2. f[n + 1] <= f[n + 1]
        BY <3>2
      <4>3. \A l \in T : f[l] <= f[n + 1]
        BY <4>1, <4>2, <3>3, Zenon
      <4> QED BY <4>3, <3>3
    <3> QED BY <3>2, <3>4, <3>5
  <2> QED BY <2>3, <2>4, <2>5
<1> HIDE DEF G
<1>3. G = Nat
  <2>1. G \in SUBSET Nat
    BY DEF G
  <2> QED BY <1>1, <1>2, <2>1, Successors
<1>4. N \in G
  BY <1>3
<1> QED BY <1>4, <1>0 DEF G

\* _next_container_number gives a number, whatever containers there are.
LEMMA NextNumberIsNat == TypeOK => NextNumber \in Nat
<1> SUFFICES ASSUME TypeOK, Existing # {} PROVE NextNumber \in Nat
  BY DEF NextNumber
<1> DEFINE number == [k \in 1 .. Len(containers) |-> containers[k].number]
<1>1. Len(containers) \in Nat /\ Existing \in SUBSET (1 .. Len(containers))
  BY DEF TypeOK, Existing
<1>2. \A k \in 1 .. Len(containers) : containers[k].number \in Nat
  <2>1. \A k \in 1 .. Len(containers) : containers[k] \in Container
    BY DEF TypeOK
  <2> QED BY <2>1 DEF Container
<1>3. number \in [1 .. Len(containers) -> Nat]
  BY <1>2
<1>4. \E k \in Existing : \A l \in Existing : number[l] <= number[k]
  <2> HIDE DEF number
  <2> QED BY <1>1, <1>3, GreatestValue
<1>5. \E k \in Existing : \A l \in Existing : containers[l].number <= containers[k].number
  BY <1>1, <1>4
<1> DEFINE newest == CHOOSE k \in Existing : \A l \in Existing :
                        containers[l].number <= containers[k].number
<1>6. newest \in Existing
  BY <1>5
<1>7. containers[newest].number \in Nat
  <2> HIDE DEF newest
  <2> QED BY <1>1, <1>2, <1>6
<1> QED BY <1>7 DEF NextNumber

(***************************************************************************)
(* Types                                                                   *)
(***************************************************************************)
Statuses == {"created", "running", "paused", "exited", "removed"}

\* A call about one container changes that container alone.
LEMMA SetStatus ==
    ASSUME containers \in Seq(Container), NEW k \in DOMAIN containers,
           NEW s \in Statuses, Set(k, "status", s)
    PROVE  /\ containers' \in Seq(Container)
           /\ DOMAIN containers' = DOMAIN containers
           /\ containers' = [containers EXCEPT ![k] = [containers[k] EXCEPT !.status = s]]
           /\ containers'[k] = [containers[k] EXCEPT !.status = s]
           /\ \A l \in DOMAIN containers : l # k => containers'[l] = containers[l]
<1>1. containers' = [containers EXCEPT ![k] = [containers[k] EXCEPT !.status = s]]
  BY DEF Set
<1>2. containers[k] \in Container
  OBVIOUS
<1>3. [containers[k] EXCEPT !.status = s] \in Container
  BY <1>2 DEF Container, Statuses
<1> QED BY <1>1, <1>3

\* So does a rename.
LEMMA SetOwn ==
    ASSUME containers \in Seq(Container), NEW k \in DOMAIN containers,
           Set(k, "own", FALSE)
    PROVE  /\ containers' \in Seq(Container)
           /\ DOMAIN containers' = DOMAIN containers
           /\ containers' = [containers EXCEPT ![k] = [containers[k] EXCEPT !.own = FALSE]]
           /\ containers'[k] = [containers[k] EXCEPT !.own = FALSE]
           /\ \A l \in DOMAIN containers : l # k => containers'[l] = containers[l]
<1>1. containers' = [containers EXCEPT ![k] = [containers[k] EXCEPT !.own = FALSE]]
  BY DEF Set
<1>2. containers[k] \in Container
  OBVIOUS
<1>3. [containers[k] EXCEPT !.own = FALSE] \in Container
  BY <1>2 DEF Container
<1> QED BY <1>1, <1>3

\* A container is created after all others, which it leaves alone.
LEMMA AppendContainer ==
    ASSUME containers \in Seq(Container), NEW c \in Container,
           containers' = Append(containers, c)
    PROVE  /\ containers' \in Seq(Container)
           /\ Len(containers) \in Nat
           /\ DOMAIN containers' = DOMAIN containers \cup {Len(containers) + 1}
           /\ Len(containers) + 1 \notin DOMAIN containers
           /\ containers'[Len(containers) + 1] = c
           /\ \A l \in DOMAIN containers : containers'[l] = containers[l]
OBVIOUS

\* What a step of an up may do to the types: the locals of the other ups stay,
\* and no container disappears from the sequence.
LEMMA TypedAfter ==
    ASSUME Typed, NEW r \in Ups, image' \in 1 .. Images,
           containers' \in Seq(Container), DOMAIN containers \subseteq DOMAIN containers',
           NEW u \in Up, up' = [up EXCEPT ![r] = u],
           u.todo \subseteq DOMAIN containers',
           u.pc \in {"rename", "renew", "start_renewed", "remove_old"} =>
              u.at \in DOMAIN containers',
           u.pc \in {"start_created", "start_renewed", "remove_old"} =>
              u.new \in DOMAIN containers'
    PROVE  Typed'
<1>1. up' \in [Ups -> Up] /\ up'[r] = u /\ \A s \in Ups : s # r => up'[s] = up[s]
  BY DEF Typed, TypeOK
<1>2. TypeOK'
  <2>1. \A s \in Ups : up'[s].todo \subseteq DOMAIN containers'
    BY <1>1 DEF Typed, TypeOK
  <2> QED BY <1>1, <2>1 DEF TypeOK
<1>3. Indices'
  BY <1>1 DEF Typed, Indices
<1> QED BY <1>2, <1>3 DEF Typed

LEMMA LocalsOf == Typed => \A r \in Ups :
    /\ up[r] \in Up
    /\ up[r].todo \subseteq DOMAIN containers
BY DEF Typed, TypeOK

\* The types, step by step.
LEMMA RefusedIsTyped == ASSUME Typed, NEW r \in Ups, Refused(r), UNCHANGED image
                        PROVE  Typed'
<1> DEFINE u == [up[r] EXCEPT !.pc = "done", !.result = "refused"]
<1>1. up' = [up EXCEPT ![r] = u]
  BY DEF Refused, End
<1>2. u \in Up /\ u.pc = "done" /\ u.todo = up[r].todo
  BY LocalsOf DEF Up, PCs
<1> HIDE DEF u
<1> QED BY <1>1, <1>2, LocalsOf, TypedAfter DEF Refused, Typed, TypeOK

LEMMA BeginIsTyped == ASSUME Typed, NEW r \in Ups, NEW strategy \in Strategies,
                             Begin(r, strategy)
                      PROVE  Typed'
<1> DEFINE u == [up[r] EXCEPT !.pc = "duplicates", !.strategy = strategy]
<1>1. up' = [up EXCEPT ![r] = u]
  BY DEF Begin
<1>2. u \in Up /\ u.pc = "duplicates" /\ u.todo = up[r].todo
  BY LocalsOf, StrategiesAssumption DEF Up, PCs
<1> HIDE DEF u
<1> QED BY <1>1, <1>2, LocalsOf, TypedAfter DEF Begin, Typed, TypeOK

LEMMA DuplicatesIsTyped == ASSUME Typed, NEW r \in Ups, duplicate_containers(r)
                           PROVE  Typed'
<1> DEFINE pc == IF Duplicates = {} THEN "plan" ELSE "stop_duplicate"
           u == [up[r] EXCEPT !.todo = Duplicates, !.pc = pc]
<1>1. up' = [up EXCEPT ![r] = u]
  BY DEF duplicate_containers
<1>2. Duplicates \subseteq DOMAIN containers /\ DOMAIN containers \subseteq Nat
  BY DEF Duplicates, Existing, Typed, TypeOK
<1>3. u \in Up /\ u.pc \in {"plan", "stop_duplicate"} /\ u.todo = Duplicates
  BY <1>2, LocalsOf DEF Up, PCs
<1> HIDE DEF u
<1> QED BY <1>1, <1>2, <1>3, TypedAfter DEF duplicate_containers, Typed, TypeOK

LEMMA StopDuplicateIsTyped == ASSUME Typed, NEW r \in Ups, stop_duplicate(r)
                              PROVE  Typed'
<1> DEFINE k == Oldest(up[r].todo)
           u == [up[r] EXCEPT !.pc = "remove_duplicate"]
<1> HIDE DEF k
<1>1. CASE Refused(r)
  BY <1>1, RefusedIsTyped DEF stop_duplicate
<1>2. CASE ~Refused(r)
  <2>1. k \in Existing /\ up' = [up EXCEPT ![r] = u] /\ image' = image
    BY <1>2 DEF stop_duplicate, Operable, Goto, k
  <2>2. k \in DOMAIN containers
    BY <2>1 DEF Existing
  <2>3. Set(k, "status", "exited") \/ UNCHANGED containers
    BY <1>2 DEF stop_duplicate, k
  <2>4. containers' \in Seq(Container) /\ DOMAIN containers' = DOMAIN containers
    BY <2>2, <2>3, SetStatus DEF Typed, TypeOK, Statuses
  <2>5. u \in Up /\ u.pc = "remove_duplicate" /\ u.todo = up[r].todo
    BY LocalsOf DEF Up, PCs
  <2> HIDE DEF u
  <2> QED BY <2>1, <2>4, <2>5, LocalsOf, TypedAfter DEF Typed, TypeOK
<1> QED BY <1>1, <1>2

LEMMA RemoveDuplicateIsTyped == ASSUME Typed, NEW r \in Ups, remove_duplicate(r)
                                PROVE  Typed'
<1> DEFINE k == Oldest(up[r].todo)
           rest == up[r].todo \ {k}
           u == [up[r] EXCEPT !.todo = rest,
                              !.pc = IF rest = {} THEN "plan" ELSE "stop_duplicate"]
<1> HIDE DEF k
<1>1. CASE Refused(r)
  BY <1>1, RefusedIsTyped DEF remove_duplicate
<1>2. CASE ~Refused(r)
  <2>1. /\ k \in Existing /\ up' = [up EXCEPT ![r] = u] /\ image' = image
        /\ Set(k, "status", "removed")
    BY <1>2 DEF remove_duplicate, k
  <2>2. containers' \in Seq(Container) /\ DOMAIN containers' = DOMAIN containers
    BY <2>1, SetStatus DEF Typed, TypeOK, Statuses, Existing
  <2>3. u \in Up /\ u.pc \in {"plan", "stop_duplicate"} /\ u.todo \subseteq up[r].todo
    BY LocalsOf DEF Up, PCs
  <2> HIDE DEF u
  <2> QED BY <2>1, <2>2, <2>3, LocalsOf, TypedAfter DEF Typed, TypeOK
<1> QED BY <1>1, <1>2

\* Where a plan takes an up.
AfterPlan(r, plan) ==
    [up[r] EXCEPT !.pc = IF plan = <<"start", {}>> THEN "done" ELSE plan[1],
                  !.todo = plan[2], !.seen = image,
                  !.result = IF plan = <<"start", {}>> THEN "ok" ELSE up[r].result]

LEMMA PlanIsTyped == ASSUME Typed, NEW r \in Ups, convergence_plan(r)
                     PROVE  Typed'
<1> DEFINE plan == PlanFor(up[r].strategy)
<1>1. /\ Existing \subseteq DOMAIN containers /\ Stopped \subseteq DOMAIN containers
      /\ DOMAIN containers \subseteq Nat
  BY DEF Existing, Stopped, Typed, TypeOK
<1>2. plan[1] \in {"create", "start", "recreate"} /\ plan[2] \subseteq DOMAIN containers
  BY <1>1 DEF PlanFor
<1> HIDE DEF plan
<1>3. image \in Nat
  BY ImagesAssumption DEF Typed, TypeOK
<1>4. AfterPlan(r, plan) \in Up
  BY <1>1, <1>2, <1>3, LocalsOf DEF Up, PCs, AfterPlan
<1>5. /\ AfterPlan(r, plan).pc \in {"done", "create", "start", "recreate"}
      /\ AfterPlan(r, plan).todo = plan[2]
  BY <1>2, LocalsOf DEF Up, AfterPlan
<1>6. up' = [up EXCEPT ![r] = AfterPlan(r, plan)] /\ UNCHANGED <<image, containers>>
  BY DEF convergence_plan, Execute, AfterPlan, plan
<1> QED BY <1>2, <1>4, <1>5, <1>6, TypedAfter DEF Typed, TypeOK

\* What Create does: it is refused, or a container comes last.
Fresh(number, data) ==
    [status |-> "created", own |-> TRUE, image |-> image, number |-> number, data |-> data]
AfterCreate(r, pc) ==
    [up[r] EXCEPT !.pc = pc, !.new = Len(containers) + 1, !.seen = image]

LEMMA CreateIs ==
    ASSUME Typed, NEW r \in Ups, NEW number \in Nat, NEW data \in Nat,
           NEW pc \in {"start_created", "start_renewed"},
           Create(r, number, data, pc), ~Refused(r)
    PROVE  /\ ~NameTaken
           /\ Fresh(number, data) \in Container
           /\ containers' = Append(containers, Fresh(number, data))
           /\ AfterCreate(r, pc) \in Up
           /\ up' = [up EXCEPT ![r] = AfterCreate(r, pc)]
<1>1. Len(containers) + 1 \in Nat /\ image \in Nat
  BY ImagesAssumption DEF Typed, TypeOK
<1>2. AfterCreate(r, pc) \in Up
  BY <1>1, LocalsOf DEF Up, PCs, AfterCreate
<1>3. Fresh(number, data) \in Container
  BY DEF Fresh, Container, Typed, TypeOK
<1> QED BY <1>2, <1>3 DEF Create, Fresh, AfterCreate

LEMMA CreateIsTyped ==
    ASSUME Typed, NEW r \in Ups, NEW number \in Nat, NEW data \in Nat,
           NEW pc \in {"start_created", "start_renewed"},
           Create(r, number, data, pc), UNCHANGED image,
           pc = "start_renewed" => up[r].at \in DOMAIN containers
    PROVE  Typed'
<1>1. CASE Refused(r)
  BY <1>1, RefusedIsTyped
<1>2. CASE ~Refused(r)
  <2> DEFINE u == AfterCreate(r, pc)
  <2>1. /\ Fresh(number, data) \in Container
        /\ containers' = Append(containers, Fresh(number, data))
        /\ up' = [up EXCEPT ![r] = u] /\ u \in Up
    BY <1>2, CreateIs
  <2>2. u.pc = pc /\ u.new = Len(containers) + 1 /\ u.todo = up[r].todo /\ u.at = up[r].at
    BY LocalsOf DEF Up, AfterCreate
  <2> HIDE DEF u
  <2>3. /\ containers' \in Seq(Container)
        /\ DOMAIN containers' = DOMAIN containers \cup {Len(containers) + 1}
    BY <2>1, AppendContainer DEF Typed, TypeOK
  <2> QED BY <2>1, <2>2, <2>3, LocalsOf, TypedAfter DEF Typed, TypeOK
<1> QED BY <1>1, <1>2

LEMMA CreateStepIsTyped == ASSUME Typed, NEW r \in Ups, create(r)  PROVE  Typed'
<1>1. NextNumber \in Nat /\ Len(containers) + 1 \in Nat
  BY NextNumberIsNat DEF Typed, TypeOK
<1>2. Create(r, NextNumber, Len(containers) + 1, "start_created") /\ UNCHANGED image
  BY DEF create
<1> HIDE DEF NextNumber
<1> QED BY <1>1, <1>2, CreateIsTyped

LEMMA RenewIsTyped == ASSUME Typed, NEW r \in Ups, renew(r)  PROVE  Typed'
<1> DEFINE old == containers[up[r].at]
<1>1. up[r].at \in DOMAIN containers
  BY DEF renew, Typed, Indices
<1>2. old \in Container
  BY <1>1 DEF Typed, TypeOK
<1>3. old.number \in Nat /\ old.data \in Nat
  BY <1>2 DEF Container
<1>4. Create(r, old.number, old.data, "start_renewed") /\ UNCHANGED image
  BY DEF renew
<1> HIDE DEF old
<1> QED BY <1>1, <1>3, <1>4, CreateIsTyped

\* The end of a call about one container, after which the up is at u.
LEMMA CallIsTyped ==
    ASSUME Typed, NEW r \in Ups, NEW k \in DOMAIN containers, UNCHANGED image,
           \/ UNCHANGED containers
           \/ \E s \in Statuses : Set(k, "status", s)
           \/ Set(k, "own", FALSE),
           NEW u \in Up, up' = [up EXCEPT ![r] = u], u.todo \subseteq up[r].todo,
           u.pc \in {"rename", "renew", "start_renewed", "remove_old"} =>
              u.at \in DOMAIN containers,
           u.pc \in {"start_created", "start_renewed", "remove_old"} =>
              u.new \in DOMAIN containers
    PROVE  Typed'
<1>1. containers \in Seq(Container) /\ image' \in 1 .. Images
  BY DEF Typed, TypeOK
<1>2. containers' \in Seq(Container) /\ DOMAIN containers' = DOMAIN containers
  BY <1>1, SetStatus, SetOwn
<1>3. u.todo \subseteq DOMAIN containers'
  BY <1>2, LocalsOf
<1> QED BY <1>1, <1>2, <1>3, TypedAfter

LEMMA StartCreatedIsTyped == ASSUME Typed, NEW r \in Ups, start_created(r)  PROVE  Typed'
<1>1. CASE Refused(r)
  BY <1>1, RefusedIsTyped DEF start_created
<1>2. CASE ~Refused(r)
  <2> DEFINE u == [up[r] EXCEPT !.pc = "done", !.result = "ok"]
  <2>1. /\ up[r].new \in DOMAIN containers /\ Set(up[r].new, "status", "running")
        /\ up' = [up EXCEPT ![r] = u] /\ UNCHANGED image
    BY <1>2 DEF start_created, End, Typed, Indices
  <2>2. u \in Up /\ u.pc = "done" /\ u.todo = up[r].todo
    BY LocalsOf DEF Up, PCs
  <2> HIDE DEF u
  <2> QED BY <2>1, <2>2, CallIsTyped DEF Statuses
<1> QED BY <1>1, <1>2

\* The loops over containers.
LEMMA LoopIsTyped ==
    ASSUME Typed, NEW r \in Ups, NEW k \in DOMAIN containers, UNCHANGED image,
           NEW pc \in {"start", "recreate"}, Loop(r, up[r].todo \ {k}, pc),
           \/ UNCHANGED containers
           \/ \E s \in Statuses : Set(k, "status", s)
    PROVE  Typed'
<1> DEFINE rest == up[r].todo \ {k}
           u == [up[r] EXCEPT !.todo = rest, !.pc = IF rest = {} THEN "done" ELSE pc,
                              !.result = IF rest = {} THEN "ok" ELSE "none"]
<1>1. up' = [up EXCEPT ![r] = u]
  BY DEF Loop
<1>2. u \in Up /\ u.pc \in {"done", "start", "recreate"} /\ u.todo \subseteq up[r].todo
  BY LocalsOf DEF Up, PCs
<1> HIDE DEF u
<1> QED BY <1>1, <1>2, CallIsTyped

LEMMA StartIsTyped == ASSUME Typed, NEW r \in Ups, start(r)  PROVE  Typed'
<1>1. PICK k \in up[r].todo :
          IF k \notin Existing THEN Refused(r)
          ELSE /\ IF Running(k) THEN UNCHANGED containers
                  ELSE Set(k, "status", "running")
               /\ Loop(r, up[r].todo \ {k}, "start")
  BY DEF start
<1>2. k \in DOMAIN containers /\ UNCHANGED image
  BY LocalsOf DEF start
<1>3. CASE Refused(r)
  BY <1>2, <1>3, RefusedIsTyped
<1>4. CASE ~Refused(r)
  BY <1>1, <1>2, <1>4, LoopIsTyped DEF Statuses
<1> QED BY <1>3, <1>4

LEMMA RecreateIsTyped == ASSUME Typed, NEW r \in Ups, recreate(r)  PROVE  Typed'
<1>1. PICK k \in up[r].todo :
          IF ~Operable(k) THEN Refused(r)
          ELSE /\ IF Running(k) THEN Set(k, "status", "exited")
                  ELSE UNCHANGED containers
               /\ up' = [up EXCEPT ![r].at = k, ![r].pc = "rename"]
  BY DEF recreate
<1>2. k \in DOMAIN containers /\ k \in Nat /\ UNCHANGED image
  <2>1. DOMAIN containers \subseteq Nat
    BY DEF Typed, TypeOK
  <2> QED BY <2>1, LocalsOf DEF recreate
<1>3. CASE Refused(r)
  BY <1>2, <1>3, RefusedIsTyped
<1>4. CASE ~Refused(r)
  <2> DEFINE u == [up[r] EXCEPT !.at = k, !.pc = "rename"]
  <2>1. up' = [up EXCEPT ![r] = u]
    BY <1>1, <1>4
  <2>2. u \in Up /\ u.pc = "rename" /\ u.at = k /\ u.todo = up[r].todo
    BY <1>2, LocalsOf DEF Up, PCs
  <2> HIDE DEF u
  <2> QED BY <1>1, <1>2, <1>4, <2>1, <2>2, CallIsTyped DEF Statuses
<1> QED BY <1>3, <1>4

LEMMA RenameIsTyped == ASSUME Typed, NEW r \in Ups, rename(r)  PROVE  Typed'
<1>1. CASE Refused(r)
  BY <1>1, RefusedIsTyped DEF rename
<1>2. CASE ~Refused(r)
  <2> DEFINE u == [up[r] EXCEPT !.pc = "renew"]
  <2>1. /\ up[r].at \in DOMAIN containers /\ Set(up[r].at, "own", FALSE)
        /\ up' = [up EXCEPT ![r] = u] /\ UNCHANGED image
    BY <1>2 DEF rename, Goto, Typed, Indices
  <2>2. u \in Up /\ u.pc = "renew" /\ u.todo = up[r].todo /\ u.at = up[r].at
    BY LocalsOf DEF Up, PCs
  <2> HIDE DEF u
  <2> QED BY <2>1, <2>2, CallIsTyped
<1> QED BY <1>1, <1>2

LEMMA StartRenewedIsTyped == ASSUME Typed, NEW r \in Ups, start_renewed(r)  PROVE  Typed'
<1>1. CASE Refused(r)
  BY <1>1, RefusedIsTyped DEF start_renewed
<1>2. CASE ~Refused(r)
  <2> DEFINE u == [up[r] EXCEPT !.pc = "remove_old"]
  <2>1. /\ up[r].at \in DOMAIN containers /\ up[r].new \in DOMAIN containers
        /\ Set(up[r].new, "status", "running")
        /\ up' = [up EXCEPT ![r] = u] /\ UNCHANGED image
    BY <1>2 DEF start_renewed, Goto, Typed, Indices
  <2>2. /\ u \in Up /\ u.pc = "remove_old" /\ u.todo = up[r].todo
        /\ u.at = up[r].at /\ u.new = up[r].new
    BY LocalsOf DEF Up, PCs
  <2> HIDE DEF u
  <2> QED BY <2>1, <2>2, CallIsTyped DEF Statuses
<1> QED BY <1>1, <1>2

LEMMA RemoveOldIsTyped == ASSUME Typed, NEW r \in Ups, remove_old(r)  PROVE  Typed'
<1>1. CASE Refused(r)
  BY <1>1, RefusedIsTyped DEF remove_old
<1>2. CASE ~Refused(r)
  <2>1. /\ up[r].at \in DOMAIN containers /\ Set(up[r].at, "status", "removed")
        /\ Loop(r, up[r].todo \ {up[r].at}, "recreate") /\ UNCHANGED image
    BY <1>2 DEF remove_old, Typed, Indices
  <2> QED BY <2>1, LoopIsTyped DEF Statuses
<1> QED BY <1>1, <1>2

LEMMA StepIsTyped == ASSUME Typed, NEW r \in Ups, Step(r)  PROVE  Typed'
BY DuplicatesIsTyped, StopDuplicateIsTyped, RemoveDuplicateIsTyped, PlanIsTyped,
   CreateStepIsTyped, StartCreatedIsTyped, StartIsTyped, RecreateIsTyped, RenameIsTyped,
   RenewIsTyped, StartRenewedIsTyped, RemoveOldIsTyped DEF Step

LEMMA FailIsTyped == ASSUME Typed, NEW r \in Ups, Fail(r)  PROVE  Typed'
<1> DEFINE u == [up[r] EXCEPT !.pc = "done", !.result = "failed"]
<1>1. up' = [up EXCEPT ![r] = u]
  BY DEF Fail, End
<1>2. u \in Up /\ u.pc = "done" /\ u.todo = up[r].todo
  BY LocalsOf DEF Up, PCs
<1> HIDE DEF u
<1> QED BY <1>1, <1>2, LocalsOf, TypedAfter DEF Fail, Typed, TypeOK

LEMMA RebuildIsTyped == Typed /\ Rebuild => Typed'
BY ImagesAssumption DEF Rebuild, Typed, TypeOK, Indices

LEMMA ExitIsTyped == ASSUME Typed, NEW k \in DOMAIN containers, Exit(k)  PROVE  Typed'
<1>1. containers' \in Seq(Container) /\ DOMAIN containers' = DOMAIN containers
  BY SetStatus DEF Exit, Typed, TypeOK, Statuses
<1> QED BY <1>1 DEF Exit, Typed, TypeOK, Indices

LEMMA NextIsTyped == Typed /\ [Next]_vars => Typed'
<1> SUFFICES ASSUME Typed, [Next]_vars PROVE Typed'
  OBVIOUS
<1>1. CASE UNCHANGED vars
  BY <1>1 DEF vars, Typed, TypeOK, Indices
<1>2. CASE Terminated
  BY <1>1, <1>2 DEF Terminated
<1> QED BY <1>1, <1>2, BeginIsTyped, StepIsTyped, FailIsTyped, RebuildIsTyped, ExitIsTyped
        DEF Next

LEMMA InitIsTyped == Init => Typed
<1> SUFFICES ASSUME Init PROVE Typed
  OBVIOUS
<1>1. image \in 1 .. Images /\ containers \in Seq(Container)
  BY ImagesAssumption DEF Init, Start
<1>2. \A r \in Ups : up[r] \in Up /\ up[r].todo = {} /\ up[r].pc = "idle"
  BY DEF Init, Start, Up, PCs
<1>3. up \in [Ups -> Up]
  BY <1>2 DEF Init, Start
<1> QED BY <1>1, <1>2, <1>3 DEF Typed, TypeOK, Indices

\* The containers and the locals of every up keep their types, and an up
\* touches only containers that were created, for any number of ups that
\* overlap in any way, any number of images and any failures.
THEOREM TypeCorrect == Spec => []TypeOK
<1>1. Typed => TypeOK
  BY DEF Typed
<1> QED BY <1>1, InitIsTyped, NextIsTyped, PTL DEF Spec

(***************************************************************************)
(* Ups in turn                                                             *)
(***************************************************************************)
OneAtWork == \A r, s \in Ups : Active(r) /\ Active(s) => r = s

\* every container is a copy of the first
AllAlike ==
    \A k \in DOMAIN containers :
       /\ containers[k].number = 1 /\ containers[k].data = 1
       /\ containers[k].status # "paused"

\* a service that had a container has one
NeverEmptied == containers # <<>> => Existing # {}

\* what Converged says of the image
Fits(r, k) == up[r].strategy # "never" => containers[k].image = up[r].seen

\* the duplicates still to be removed are all but one of the containers
Removing(r) ==
    /\ up[r].todo # {} /\ up[r].todo \subseteq Existing
    /\ \E k \in Existing : Existing \ up[r].todo = {k}

\* the up is at the one container there is
AtTheOne(r) == Existing = {up[r].at} /\ up[r].todo = {up[r].at} /\ ~Running(up[r].at)

\* the old container, under a temporary name, and the one that replaces it
Replacing(r) ==
    /\ Existing = {up[r].at, up[r].new} /\ up[r].at # up[r].new
    /\ up[r].todo = {up[r].at} /\ ~Running(up[r].at)
    /\ containers[up[r].new].own /\ Fits(r, up[r].new)

\* what there is at each step of an up
WhereItIs(r) ==
    LET pc == up[r].pc IN
    /\ pc \in {"stop_duplicate", "remove_duplicate"} => Removing(r)
    /\ pc = "remove_duplicate" => ~Running(Oldest(up[r].todo))
    /\ pc = "plan" => Existing = {} \/ \E k \in Existing : Existing = {k}
    /\ pc = "create" => Existing = {}
    /\ pc = "start_created" =>
          Existing = {up[r].new} /\ containers[up[r].new].own /\ Fits(r, up[r].new)
    /\ pc \in {"start", "recreate"} =>
          \E k \in Existing : Existing = {k} /\ up[r].todo = {k}
    /\ pc = "start" => \A k \in up[r].todo : Fits(r, k)
    /\ pc \in {"rename", "renew"} => AtTheOne(r)
    /\ pc = "renew" => ~containers[up[r].at].own
    /\ pc \in {"start_renewed", "remove_old"} => Replacing(r)
    /\ pc = "remove_old" => containers[up[r].new].status = "running"

\* an up that is not over has no result, and first no container it created
BeforeNew == {"idle", "duplicates", "stop_duplicate", "remove_duplicate", "plan",
              "create", "start", "recreate", "rename", "renew"}
NothingNew(r) ==
    /\ up[r].pc # "done" => up[r].result = "none"
    /\ up[r].pc \in BeforeNew => up[r].new = 0

InTurn ==
    /\ OneAtWork /\ AllAlike /\ NeverEmptied /\ NeverRefused
    /\ \A r \in Ups : WhereItIs(r) /\ NothingNew(r)

\* As long as no up has failed, every container has the container_name but the
\* one an up is replacing.
NoneFailed == \A r \in Ups : up[r].result # "failed"
Replaced(k) ==
    \E r \in Ups : up[r].pc \in {"renew", "start_renewed", "remove_old"} /\ up[r].at = k
Named == NoneFailed => \A k \in Existing : containers[k].own \/ Replaced(k)

(***************************************************************************)
(* What a call changes                                                     *)
(***************************************************************************)
LEMMA ExistingAre == Typed => /\ Existing \subseteq DOMAIN containers
                              /\ DOMAIN containers \subseteq Nat
                              /\ \A r \in Ups : up[r].todo \subseteq Nat
BY LocalsOf DEF Existing, Typed, TypeOK

\* A container is started, stopped or removed; everything else stays.
LEMMA StatusEffect ==
    ASSUME Typed, AllAlike, NEW k \in Existing, NEW s \in {"running", "exited", "removed"},
           Set(k, "status", s), UNCHANGED image
    PROVE  /\ AllAlike'
           /\ Existing' = IF s = "removed" THEN Existing \ {k} ELSE Existing
           /\ containers # <<>> /\ containers' # <<>>
           /\ containers'[k].status = s
           /\ \A l \in DOMAIN containers :
                 /\ containers'[l].own = containers[l].own
                 /\ containers'[l].image = containers[l].image
                 /\ l # k => containers'[l].status = containers[l].status
<1>1. k \in DOMAIN containers /\ containers \in Seq(Container)
  BY DEF Existing, Typed, TypeOK
<1>2. s \in Statuses
  BY DEF Statuses
<1>3. /\ DOMAIN containers' = DOMAIN containers
      /\ containers'[k] = [containers[k] EXCEPT !.status = s]
      /\ \A l \in DOMAIN containers : l # k => containers'[l] = containers[l]
  BY <1>1, <1>2, SetStatus
<1>4. containers[k] \in Container
  BY <1>1
<1>5. /\ containers'[k].status = s
      /\ containers'[k].own = containers[k].own
      /\ containers'[k].image = containers[k].image
      /\ containers'[k].number = containers[k].number
      /\ containers'[k].data = containers[k].data
  BY <1>3, <1>4 DEF Container
<1>6. AllAlike'
  BY <1>1, <1>3, <1>5 DEF AllAlike
<1>7. Existing' = IF s = "removed" THEN Existing \ {k} ELSE Existing
  BY <1>3, <1>5 DEF Existing
<1>8. containers # <<>> /\ containers' # <<>>
  BY <1>1, <1>3
<1>9. \A l \in DOMAIN containers :
         /\ containers'[l].own = containers[l].own
         /\ containers'[l].image = containers[l].image
         /\ l # k => containers'[l].status = containers[l].status
  <2> SUFFICES ASSUME NEW l \in DOMAIN containers
               PROVE  /\ containers'[l].own = containers[l].own
                      /\ containers'[l].image = containers[l].image
                      /\ l # k => containers'[l].status = containers[l].status
    OBVIOUS
  <2>1. CASE l = k
    BY <1>5, <2>1
  <2>2. CASE l # k
    BY <1>3, <2>2
  <2> QED BY <2>1, <2>2
<1> QED BY <1>5, <1>6, <1>7, <1>8, <1>9

\* A container loses its name.
LEMMA OwnEffect ==
    ASSUME Typed, AllAlike, NEW k \in Existing, Set(k, "own", FALSE), UNCHANGED image
    PROVE  /\ AllAlike' /\ Existing' = Existing
           /\ containers # <<>> /\ containers' # <<>>
           /\ containers'[k].own = FALSE
           /\ \A l \in DOMAIN containers :
                 /\ l # k => containers'[l].own = containers[l].own
                 /\ containers'[l].image = containers[l].image
                 /\ containers'[l].status = containers[l].status
<1>1. k \in DOMAIN containers /\ containers \in Seq(Container)
  BY DEF Existing, Typed, TypeOK
<1>3. /\ DOMAIN containers' = DOMAIN containers
      /\ containers'[k] = [containers[k] EXCEPT !.own = FALSE]
      /\ \A l \in DOMAIN containers : l # k => containers'[l] = containers[l]
  BY <1>1, SetOwn
<1>4. containers[k] \in Container
  BY <1>1
<1>5. /\ containers'[k].status = containers[k].status
      /\ containers'[k].own = FALSE
      /\ containers'[k].image = containers[k].image
      /\ containers'[k].number = containers[k].number
      /\ containers'[k].data = containers[k].data
  BY <1>3, <1>4 DEF Container
<1>6. AllAlike'
  BY <1>1, <1>3, <1>5 DEF AllAlike
<1>7. Existing' = Existing
  BY <1>3, <1>5 DEF Existing
<1>8. containers # <<>> /\ containers' # <<>>
  BY <1>1, <1>3
<1>9. \A l \in DOMAIN containers :
         /\ l # k => containers'[l].own = containers[l].own
         /\ containers'[l].image = containers[l].image
         /\ containers'[l].status = containers[l].status
  <2> SUFFICES ASSUME NEW l \in DOMAIN containers
               PROVE  /\ l # k => containers'[l].own = containers[l].own
                      /\ containers'[l].image = containers[l].image
                      /\ containers'[l].status = containers[l].status
    OBVIOUS
  <2>1. CASE l = k
    BY <1>5, <2>1
  <2>2. CASE l # k
    BY <1>3, <2>2
  <2> QED BY <2>1, <2>2
<1> QED BY <1>5, <1>6, <1>7, <1>8, <1>9

\* A copy of the others is created.
LEMMA CreateEffect ==
    ASSUME Typed, AllAlike, containers' = Append(containers, Fresh(1, 1)), UNCHANGED image
    PROVE  LET new == Len(containers) + 1 IN
           /\ AllAlike' /\ Existing' = Existing \cup {new} /\ new \notin Existing
           /\ containers' # <<>>
           /\ containers'[new] = Fresh(1, 1)
           /\ \A l \in DOMAIN containers : containers'[l] = containers[l]
<1>1. Fresh(1, 1) \in Container
  BY DEF Fresh, Container, Typed, TypeOK
<1>2. /\ containers \in Seq(Container)
      /\ DOMAIN containers' = DOMAIN containers \cup {Len(containers) + 1}
      /\ Len(containers) + 1 \notin DOMAIN containers
      /\ containers'[Len(containers) + 1] = Fresh(1, 1)
      /\ \A l \in DOMAIN containers : containers'[l] = containers[l]
  BY <1>1, AppendContainer DEF Typed, TypeOK
<1>3. /\ Fresh(1, 1).status = "created" /\ Fresh(1, 1).image = image
      /\ Fresh(1, 1).number = 1 /\ Fresh(1, 1).data = 1
  BY DEF Fresh
<1>4. image \in Nat
  BY ImagesAssumption DEF Typed, TypeOK
<1>5. AllAlike'
  BY <1>2, <1>3, <1>4 DEF AllAlike
<1>6. Existing' = Existing \cup {Len(containers) + 1}
  BY <1>2, <1>3 DEF Existing
<1>7. Len(containers) + 1 \notin Existing
  BY <1>2 DEF Existing
<1>8. containers' # <<>>
  BY <1>2
<1> QED BY <1>2, <1>5, <1>6, <1>7, <1>8

\* While one up is at work only what concerns it has to be looked at.
LEMMA InTurnAfter ==
    ASSUME Typed, InTurn, NEW r \in Ups, Active(r), UNCHANGED image,
           NEW u, up' = [up EXCEPT ![r] = u],
           AllAlike', NeverEmptied', u.result # "refused", WhereItIs(r)',
           u.pc # "done" => u.result = up[r].result,
           u.pc \in BeforeNew => up[r].pc \in BeforeNew /\ u.new = up[r].new
    PROVE  InTurn'
<1>1. up'[r] = u /\ \A s \in Ups : s # r => up'[s] = up[s]
  BY DEF Typed, TypeOK
<1>2. \A s \in Ups : s # r => ~Active(s)
  BY DEF InTurn, OneAtWork
<1>3. \A s \in Ups : s # r => ~Active(s)' /\ up'[s].pc \in {"idle", "done"}
  BY <1>1, <1>2 DEF Active
<1>4. OneAtWork'
  BY <1>3 DEF OneAtWork
<1>5. NeverRefused'
  BY <1>1 DEF InTurn, NeverRefused
<1>6. \A s \in Ups : s # r => WhereItIs(s)'
  BY <1>3 DEF WhereItIs
<1>7. \A s \in Ups : NothingNew(s)'
  BY <1>1 DEF InTurn, NothingNew, Active
<1> QED BY <1>4, <1>5, <1>6, <1>7 DEF InTurn

\* An up has one place in the list of steps, so most of what WhereItIs says
\* is about the others.
LEMMA DuplicatesInTurn ==
    ASSUME Typed, InTurn, NEW r \in Ups, duplicate_containers(r)  PROVE  InTurn'
<1> DEFINE u == [up[r] EXCEPT !.todo = Duplicates,
                              !.pc = IF Duplicates = {} THEN "plan" ELSE "stop_duplicate"]
<1>1. up' = [up EXCEPT ![r] = u] /\ UNCHANGED <<image, containers>>
  BY DEF duplicate_containers
<1>2. /\ u.todo = Duplicates /\ u.new = up[r].new /\ u.result = up[r].result
      /\ u.pc = IF Duplicates = {} THEN "plan" ELSE "stop_duplicate"
      /\ up'[r] = u
  BY <1>1, LocalsOf DEF Up, Typed, TypeOK
<1> HIDE DEF u
<1>3. AllAlike' /\ NeverEmptied' /\ u.result # "refused" /\ Existing' = Existing
  BY <1>1, <1>2 DEF InTurn, AllAlike, NeverEmptied, NeverRefused, Existing
<1>4. Existing = {} \/ \E k \in Existing : Duplicates = Existing \ {k}
  <2> SUFFICES ASSUME Existing # {}
               PROVE  \E k \in Existing : Duplicates = Existing \ {k}
    OBVIOUS
  <2>1. \A k, l \in Existing : containers[k].number = containers[l].number
    BY ExistingAre DEF InTurn, AllAlike
  <2>2. Existing \subseteq Nat
    BY ExistingAre
  <2>3. PICK k \in Existing : \A l \in Existing : k <= l
    BY <2>2, LeastNat
  <2>4. Duplicates = Existing \ {k}
    <3>1. k \notin Duplicates
      BY <2>2, <2>3 DEF Duplicates
    <3>2. ASSUME NEW l \in Existing, l # k PROVE l \in Duplicates
      <4>1. k < l /\ containers[k].number = containers[l].number
        BY <2>1, <2>2, <2>3, <3>2
      <4> QED BY <4>1 DEF Duplicates
    <3>3. Duplicates \subseteq Existing
      BY DEF Duplicates
    <3> QED BY <3>1, <3>2, <3>3
  <2> QED BY <2>4
<1>5. CASE Duplicates = {}
  <2>1. u.pc = "plan" /\ (Existing' = {} \/ \E k \in Existing' : Existing' = {k})
    BY <1>2, <1>3, <1>4, <1>5
  <2>2. WhereItIs(r)'
    BY <1>2, <2>1 DEF WhereItIs
  <2> QED BY <1>1, <1>2, <1>3, <2>1, <2>2, InTurnAfter DEF Active, BeforeNew, duplicate_containers
<1>6. CASE Duplicates # {}
  <2>1. u.pc = "stop_duplicate" /\ Removing(r)'
    <3>1. Duplicates \subseteq Existing
      BY DEF Duplicates
    <3>2. PICK k \in Existing : Duplicates = Existing \ {k}
      BY <1>4, <1>6, <3>1
    <3>3. Existing \ Duplicates = {k}
      BY <3>2
    <3> QED BY <1>2, <1>3, <1>6, <3>1, <3>3 DEF Removing
  <2>2. WhereItIs(r)'
    BY <1>2, <2>1 DEF WhereItIs
  <2> QED BY <1>1, <1>2, <1>3, <2>1, <2>2, InTurnAfter DEF Active, BeforeNew, duplicate_containers
<1> QED BY <1>5, <1>6

LEMMA StopDuplicateInTurn ==
    ASSUME Typed, InTurn, NEW r \in Ups, stop_duplicate(r)  PROVE  InTurn'
<1> DEFINE k == Oldest(up[r].todo)
           u == [up[r] EXCEPT !.pc = "remove_duplicate"]
<1>1. Removing(r)
  BY DEF stop_duplicate, InTurn, WhereItIs
<1>2. k \in up[r].todo /\ k \in Existing
  BY <1>1, ExistingAre, OldestIsLeast DEF Removing
<1>3. Operable(k)
  BY <1>2, ExistingAre DEF Operable, InTurn, AllAlike
<1>4. /\ IF Running(k) THEN Set(k, "status", "exited") ELSE UNCHANGED containers
      /\ up' = [up EXCEPT ![r] = u] /\ UNCHANGED image
  BY <1>3 DEF stop_duplicate, Goto
<1>5. /\ u.todo = up[r].todo /\ u.new = up[r].new /\ u.result = up[r].result
      /\ u.pc = "remove_duplicate" /\ up'[r] = u
  BY <1>4, LocalsOf DEF Up, Typed, TypeOK
<1> HIDE DEF u
<1>6. /\ AllAlike' /\ NeverEmptied' /\ Existing' = Existing
      /\ containers'[k].status \notin {"running", "paused"}
  <2>1. CASE Running(k)
    <3>1. /\ AllAlike' /\ Existing' = Existing /\ containers'[k].status = "exited"
      BY <1>2, <1>4, <2>1, StatusEffect DEF InTurn
    <3> QED BY <1>2, <3>1 DEF NeverEmptied
  <2>2. CASE ~Running(k)
    <3>1. UNCHANGED <<containers, image>>
      BY <1>4, <2>2
    <3> QED BY <3>1, <2>2 DEF InTurn, AllAlike, NeverEmptied, Existing, Running
  <2> QED BY <2>1, <2>2
<1>7. WhereItIs(r)'
  <2>1. Removing(r)'
    BY <1>1, <1>5, <1>6 DEF Removing
  <2>2. ~Running(Oldest(up[r].todo))'
    BY <1>5, <1>6 DEF Running
  <2> QED BY <1>5, <2>1, <2>2 DEF WhereItIs
<1>8. u.result # "refused"
  BY <1>5 DEF InTurn, NeverRefused
<1> QED BY <1>4, <1>5, <1>6, <1>7, <1>8, InTurnAfter DEF Active, BeforeNew, stop_duplicate

LEMMA RemoveDuplicateInTurn ==
    ASSUME Typed, InTurn, NEW r \in Ups, remove_duplicate(r)  PROVE  InTurn'
<1> DEFINE k == Oldest(up[r].todo)
           rest == up[r].todo \ {k}
           u == [up[r] EXCEPT !.todo = rest,
                              !.pc = IF rest = {} THEN "plan" ELSE "stop_duplicate"]
<1>1. Removing(r) /\ ~Running(k)
  BY DEF remove_duplicate, InTurn, WhereItIs
<1>2. k \in up[r].todo /\ k \in Existing
  BY <1>1, ExistingAre, OldestIsLeast DEF Removing
<1>3. /\ Set(k, "status", "removed") /\ up' = [up EXCEPT ![r] = u] /\ UNCHANGED image
  BY <1>1, <1>2 DEF remove_duplicate
<1>4. /\ u.todo = rest /\ u.new = up[r].new /\ u.result = up[r].result
      /\ u.pc = IF rest = {} THEN "plan" ELSE "stop_duplicate"
      /\ up'[r] = u
  BY <1>3, LocalsOf DEF Up, Typed, TypeOK
<1>5. AllAlike' /\ Existing' = Existing \ {k}
  BY <1>2, <1>3, StatusEffect DEF InTurn
<1>6. PICK keep \in Existing : Existing \ up[r].todo = {keep}
  BY <1>1 DEF Removing
<1> HIDE DEF u, k
<1>7. rest \subseteq Existing' /\ keep \in Existing' /\ Existing' \ rest = {keep}
  BY <1>1, <1>2, <1>5, <1>6 DEF Removing
<1>8. WhereItIs(r)'
  <2>1. CASE rest = {}
    BY <1>4, <1>7, <2>1 DEF WhereItIs
  <2>2. CASE rest # {}
    <3>1. Removing(r)'
      BY <1>4, <1>7, <2>2 DEF Removing
    <3> QED BY <1>4, <2>2, <3>1 DEF WhereItIs
  <2> QED BY <2>1, <2>2
<1>9. u.result # "refused" /\ NeverEmptied'
  BY <1>4, <1>7 DEF InTurn, NeverRefused, NeverEmptied
<1>10. up[r].pc = "remove_duplicate" /\ Active(r)
  BY DEF remove_duplicate, Active
<1> HIDE DEF rest
<1> QED BY <1>3, <1>4, <1>5, <1>8, <1>9, <1>10, InTurnAfter DEF BeforeNew

\* What an up that succeeds leaves behind.
Delivered(r) ==
    \E k \in Existing :
       /\ Existing = {k} /\ containers[k].status = "running" /\ Fits(r, k)

LEMMA PlanInTurn ==
    ASSUME Typed, InTurn, NEW r \in Ups, convergence_plan(r)
    PROVE  InTurn' /\ (Answers(r, "ok") => Delivered(r)')
<1> DEFINE plan == PlanFor(up[r].strategy)
           u == AfterPlan(r, plan)
<1>1. /\ UNCHANGED <<image, containers>> /\ Existing' = Existing
      /\ up' = [up EXCEPT ![r] = u]
  BY DEF convergence_plan, Existing, Execute, AfterPlan
<1>2. AllAlike' /\ NeverEmptied' /\ up[r].result # "refused" /\ Active(r) /\ up[r].pc = "plan"
  BY <1>1 DEF InTurn, AllAlike, NeverEmptied, NeverRefused, Active, convergence_plan
<1>3. Existing = {} \/ \E k \in Existing : Existing = {k}
  BY <1>2 DEF InTurn, WhereItIs
<1>4. /\ u.pc = (IF plan = <<"start", {}>> THEN "done" ELSE plan[1])
      /\ u.result = (IF plan = <<"start", {}>> THEN "ok" ELSE up[r].result)
      /\ u.todo = plan[2] /\ u.seen = image /\ u.new = up[r].new
      /\ u.strategy = up[r].strategy /\ up'[r] = u
  BY <1>1, LocalsOf DEF Up, AfterPlan, Typed, TypeOK
<1> HIDE DEF u
<1>5. ASSUME NEW k \in Existing, Existing = {k}, plan[1] = "start"  PROVE  Fits(r, k)'
  <2>1. up[r].strategy \in {"changed", "always", "never"}
    BY LocalsOf DEF Up
  <2>2. up[r].strategy = "never" \/ containers[k].image = image
    BY <1>5, <2>1 DEF PlanFor, Recreates, Diverged
  <2> QED BY <1>1, <1>4, <2>2 DEF Fits
<1>6. CASE plan = <<"start", {}>>
  <2>1. InTurn'
    <3>1. WhereItIs(r)'
      BY <1>4, <1>6 DEF WhereItIs
    <3> HIDE DEF plan
    <3> QED BY <1>1, <1>2, <1>4, <1>6, <3>1, InTurnAfter DEF BeforeNew
  <2>2. Stopped = {} /\ Existing # {}
    BY <1>6 DEF PlanFor
  <2>3. PICK k \in Existing : Existing = {k}
    BY <1>3, <2>2
  <2>4. containers[k].status = "running"
    BY <2>2, ExistingAre DEF Stopped, Running, InTurn, AllAlike
  <2>5. Fits(r, k)'
    BY <1>5, <1>6, <2>3
  <2> QED BY <1>1, <2>1, <2>3, <2>4, <2>5 DEF Delivered
<1>7. CASE plan # <<"start", {}>>
  <2>1. WhereItIs(r)' /\ u.pc \in {"create", "start", "recreate"}
    <3>1. CASE Existing = {}
      <4>1. plan[1] = "create"
        BY <3>1 DEF PlanFor
      <4> QED BY <1>1, <1>4, <1>7, <3>1, <4>1 DEF WhereItIs
    <3>2. CASE Existing # {}
      <4>1. PICK k \in Existing : Existing = {k}
        BY <1>3, <3>2
      <4>2. Stopped = {} \/ Stopped = {k}
        BY <4>1 DEF Stopped
      <4>3. plan[1] \in {"start", "recreate"} /\ plan[2] = {k}
        BY <1>7, <3>2, <4>1, <4>2 DEF PlanFor
      <4> HIDE DEF plan
      <4>4. u.pc = "start" => Fits(r, k)'
        BY <1>4, <1>5, <1>7, <4>1
      <4> QED BY <1>1, <1>4, <1>7, <4>1, <4>3, <4>4 DEF WhereItIs
    <3> QED BY <3>1, <3>2
  <2> HIDE DEF plan
  <2>2. InTurn'
    BY <1>1, <1>2, <1>4, <1>7, <2>1, InTurnAfter DEF BeforeNew
  <2> QED BY <1>4, <1>7, <2>2 DEF Answers
<1> QED BY <1>6, <1>7

LEMMA CreateInTurn ==
    ASSUME Typed, InTurn, NEW r \in Ups, create(r)
    PROVE  InTurn' /\ ~Answers(r, "ok")
<1> DEFINE u == AfterCreate(r, "start_created")
<1>1. Existing = {} /\ up[r].pc = "create" /\ UNCHANGED image
  BY DEF create, InTurn, WhereItIs
<1>2. containers = <<>> /\ Len(containers) = 0 /\ NextNumber = 1 /\ ~NameTaken
  BY <1>1 DEF InTurn, NeverEmptied, NextNumber, NameTaken
<1>3. Create(r, 1, 1, "start_created")
  BY <1>2 DEF create
<1>4. containers' = Append(containers, Fresh(1, 1)) /\ up' = [up EXCEPT ![r] = u]
  BY <1>2, <1>3 DEF Create, Fresh, AfterCreate
<1>5. /\ u.pc = "start_created" /\ u.new = Len(containers) + 1 /\ up'[r] = u
      /\ u.seen = image /\ u.result = up[r].result
  BY <1>4, LocalsOf DEF Up, AfterCreate, Typed, TypeOK
<1> HIDE DEF u
<1>6. /\ AllAlike' /\ Existing' = {u.new} /\ containers'[u.new] = Fresh(1, 1)
  BY <1>1, <1>4, <1>5, CreateEffect DEF InTurn
<1>7. Fresh(1, 1).own /\ Fresh(1, 1).image = image
  BY DEF Fresh
<1>8. Fits(r, up[r].new)'
  BY <1>1, <1>5, <1>6, <1>7 DEF Fits
<1>9. WhereItIs(r)'
  BY <1>5, <1>6, <1>7, <1>8 DEF WhereItIs
<1>10. InTurn'
  BY <1>1, <1>4, <1>5, <1>6, <1>9, InTurnAfter
     DEF InTurn, NeverRefused, NeverEmptied, Active, BeforeNew
<1> QED BY <1>5, <1>10 DEF Answers

LEMMA StartCreatedInTurn ==
    ASSUME Typed, InTurn, NEW r \in Ups, start_created(r)
    PROVE  InTurn' /\ Delivered(r)'
<1> PICK k : k = up[r].new
  OBVIOUS
<1> DEFINE u == [up[r] EXCEPT !.pc = "done", !.result = "ok"]
<1>1. /\ Existing = {k} /\ Fits(r, k) /\ UNCHANGED image /\ up[r].pc = "start_created"
      /\ k \in DOMAIN containers
  BY ExistingAre DEF start_created, InTurn, WhereItIs
<1>2. Operable(up[r].new)
  BY <1>1 DEF Operable, InTurn, AllAlike
<1>3. Set(k, "status", "running") /\ up' = [up EXCEPT ![r] = u]
  BY <1>2 DEF start_created, End
<1>4. /\ u.pc = "done" /\ u.result = "ok" /\ u.seen = up[r].seen
      /\ u.strategy = up[r].strategy /\ up'[r] = u
  BY <1>3, LocalsOf DEF Up, Typed, TypeOK
<1> HIDE DEF u
<1>5. /\ AllAlike' /\ Existing' = {k}
      /\ containers'[k].status = "running" /\ containers'[k].image = containers[k].image
  BY <1>1, <1>3, StatusEffect DEF InTurn
<1>6. Fits(r, k)'
  BY <1>1, <1>4, <1>5 DEF Fits
<1>7. WhereItIs(r)'
  BY <1>4 DEF WhereItIs
<1>8. InTurn'
  BY <1>1, <1>3, <1>4, <1>5, <1>7, InTurnAfter DEF Active, BeforeNew, NeverEmptied
<1> QED BY <1>5, <1>6, <1>8 DEF Delivered

LEMMA StartInTurn ==
    ASSUME Typed, InTurn, NEW r \in Ups, start(r)
    PROVE  InTurn' /\ Delivered(r)'
<1> DEFINE u == [up[r] EXCEPT !.todo = {}, !.pc = "done", !.result = "ok"]
<1>1. PICK k \in Existing : Existing = {k} /\ up[r].todo = {k} /\ Fits(r, k)
  BY DEF start, InTurn, WhereItIs
<1>2. UNCHANGED image /\ up[r].pc = "start"
  BY DEF start
<1>3. /\ IF Running(k) THEN UNCHANGED containers ELSE Set(k, "status", "running")
      /\ up' = [up EXCEPT ![r] = u]
  BY <1>1 DEF start, Loop
<1>4. /\ u.pc = "done" /\ u.result = "ok" /\ u.seen = up[r].seen
      /\ u.strategy = up[r].strategy /\ up'[r] = u
  BY <1>3, LocalsOf DEF Up, Typed, TypeOK
<1> HIDE DEF u
<1>5. /\ AllAlike' /\ Existing' = {k}
      /\ containers'[k].status = "running" /\ containers'[k].image = containers[k].image
  <2>1. CASE Running(k)
    <3>1. UNCHANGED <<image, containers>> /\ containers[k].status = "running"
      BY <1>2, <1>3, <2>1, ExistingAre DEF Running, InTurn, AllAlike
    <3> QED BY <1>1, <3>1 DEF InTurn, AllAlike, Existing
  <2>2. CASE ~Running(k)
    <3>1. k \in DOMAIN containers
      BY ExistingAre
    <3> QED BY <1>1, <1>2, <1>3, <2>2, <3>1, StatusEffect DEF InTurn
  <2> QED BY <2>1, <2>2
<1>6. Fits(r, k)'
  BY <1>1, <1>4, <1>5 DEF Fits
<1>7. WhereItIs(r)'
  BY <1>4 DEF WhereItIs
<1>8. InTurn'
  BY <1>2, <1>3, <1>4, <1>5, <1>7, InTurnAfter DEF Active, BeforeNew, NeverEmptied
<1> QED BY <1>5, <1>6, <1>8 DEF Delivered

LEMMA RecreateInTurn ==
    ASSUME Typed, InTurn, NEW r \in Ups, recreate(r)
    PROVE  InTurn' /\ ~Answers(r, "ok")
<1>1. PICK k \in Existing : Existing = {k} /\ up[r].todo = {k}
  BY DEF recreate, InTurn, WhereItIs
<1> DEFINE u == [up[r] EXCEPT !.at = k, !.pc = "rename"]
<1>2. UNCHANGED image /\ up[r].pc = "recreate" /\ k \in DOMAIN containers
  BY ExistingAre DEF recreate
<1>3. Operable(k)
  BY <1>2 DEF Operable, InTurn, AllAlike
<1>4. /\ IF Running(k) THEN Set(k, "status", "exited") ELSE UNCHANGED containers
      /\ up' = [up EXCEPT ![r] = u]
  BY <1>1, <1>3 DEF recreate
<1>5. /\ u.pc = "rename" /\ u.at = k /\ u.todo = {k} /\ u.seen = up[r].seen /\ u.new = up[r].new
      /\ u.result = up[r].result /\ up'[r] = u
  BY <1>1, <1>4, LocalsOf DEF Up, Typed, TypeOK
<1> HIDE DEF u
<1>6. /\ AllAlike' /\ NeverEmptied' /\ Existing' = {k}
      /\ containers'[k].status \notin {"running", "paused"}
  <2>1. CASE Running(k)
    <3>1. /\ AllAlike' /\ Existing' = Existing /\ containers'[k].status = "exited"
      BY <1>1, <1>2, <1>4, <2>1, StatusEffect DEF InTurn
    <3> QED BY <1>1, <3>1 DEF NeverEmptied
  <2>2. CASE ~Running(k)
    <3>1. UNCHANGED <<containers, image>>
      BY <1>2, <1>4, <2>2
    <3> QED BY <1>1, <3>1, <2>2 DEF InTurn, AllAlike, NeverEmptied, Existing, Running
  <2> QED BY <2>1, <2>2
<1>7. AtTheOne(r)'
  BY <1>5, <1>6 DEF AtTheOne, Running
<1>8. WhereItIs(r)'
  BY <1>5, <1>7 DEF WhereItIs
<1>9. InTurn'
  BY <1>2, <1>4, <1>5, <1>6, <1>8, InTurnAfter DEF InTurn, NeverRefused, Active, BeforeNew
<1> QED BY <1>5, <1>9 DEF Answers

LEMMA RenameInTurn ==
    ASSUME Typed, InTurn, NEW r \in Ups, rename(r)
    PROVE  InTurn' /\ ~Answers(r, "ok")
<1> PICK k : k = up[r].at
  OBVIOUS
<1> DEFINE u == [up[r] EXCEPT !.pc = "renew"]
<1>1. /\ Existing = {k} /\ up[r].todo = {k} /\ ~Running(k)
      /\ up[r].pc = "rename" /\ UNCHANGED image /\ k \in DOMAIN containers
  BY ExistingAre DEF rename, InTurn, WhereItIs, AtTheOne
<1>2. Set(k, "own", FALSE) /\ up' = [up EXCEPT ![r] = u]
  BY <1>1 DEF rename, Goto
<1>3. /\ u.pc = "renew" /\ u.at = k /\ u.todo = {k} /\ u.seen = up[r].seen /\ u.new = up[r].new
      /\ u.result = up[r].result /\ up'[r] = u
  BY <1>1, <1>2, LocalsOf DEF Up, Typed, TypeOK
<1> HIDE DEF u
<1>4. /\ AllAlike' /\ NeverEmptied' /\ Existing' = {k} /\ ~containers'[k].own
      /\ containers'[k].status = containers[k].status
  BY <1>1, <1>2, OwnEffect DEF InTurn, NeverEmptied
<1>5. AtTheOne(r)'
  BY <1>1, <1>3, <1>4 DEF AtTheOne, Running
<1>6. WhereItIs(r)'
  BY <1>3, <1>4, <1>5 DEF WhereItIs
<1>7. InTurn'
  BY <1>1, <1>2, <1>3, <1>4, <1>6, InTurnAfter DEF InTurn, NeverRefused, Active, BeforeNew
<1> QED BY <1>3, <1>7 DEF Answers

LEMMA RenewInTurn ==
    ASSUME Typed, InTurn, NEW r \in Ups, renew(r)
    PROVE  InTurn' /\ ~Answers(r, "ok")
<1> PICK k : k = up[r].at
  OBVIOUS
<1> DEFINE u == AfterCreate(r, "start_renewed")
<1>1. /\ Existing = {k} /\ up[r].todo = {k} /\ ~Running(k) /\ ~containers[k].own
      /\ up[r].pc = "renew" /\ UNCHANGED image /\ k \in DOMAIN containers
  BY ExistingAre DEF renew, InTurn, WhereItIs, AtTheOne
<1>2. ~NameTaken /\ containers[k].number = 1 /\ containers[k].data = 1
  BY <1>1 DEF NameTaken, InTurn, AllAlike
<1>3. Create(r, 1, 1, "start_renewed")
  BY <1>2 DEF renew
<1>4. containers' = Append(containers, Fresh(1, 1)) /\ up' = [up EXCEPT ![r] = u]
  BY <1>2, <1>3 DEF Create, Fresh, AfterCreate
<1>5. /\ u.pc = "start_renewed" /\ u.new = Len(containers) + 1 /\ up'[r] = u
      /\ u.at = k /\ u.todo = {k} /\ u.seen = image /\ u.result = up[r].result
  BY <1>1, <1>4, LocalsOf DEF Up, AfterCreate, Typed, TypeOK
<1> HIDE DEF u
<1>6. /\ AllAlike' /\ Existing' = {k, u.new} /\ u.new # k
      /\ containers'[u.new] = Fresh(1, 1) /\ containers'[k] = containers[k]
  BY <1>1, <1>4, <1>5, CreateEffect DEF InTurn
<1>7. Fresh(1, 1).own /\ Fresh(1, 1).image = image
  BY DEF Fresh
<1>8. Fits(r, up[r].new)'
  BY <1>1, <1>5, <1>6, <1>7 DEF Fits
<1>9. ~Running(up[r].at)'
  BY <1>1, <1>5, <1>6 DEF Running
<1>10. Replacing(r)'
  BY <1>5, <1>6, <1>7, <1>8, <1>9 DEF Replacing
<1>11. WhereItIs(r)'
  BY <1>5, <1>10 DEF WhereItIs
<1>12. InTurn'
  BY <1>1, <1>4, <1>5, <1>6, <1>11, InTurnAfter
     DEF InTurn, NeverRefused, NeverEmptied, Active, BeforeNew
<1> QED BY <1>5, <1>12 DEF Answers

LEMMA StartRenewedInTurn ==
    ASSUME Typed, InTurn, NEW r \in Ups, start_renewed(r)
    PROVE  InTurn' /\ ~Answers(r, "ok")
<1> PICK k : k = up[r].at
  OBVIOUS
<1> PICK n : n = up[r].new
  OBVIOUS
<1> DEFINE u == [up[r] EXCEPT !.pc = "remove_old"]
<1>1. /\ Existing = {k, n} /\ k # n /\ up[r].todo = {k} /\ ~Running(k)
      /\ containers[n].own /\ Fits(r, n)
      /\ up[r].pc = "start_renewed" /\ UNCHANGED image
  BY DEF start_renewed, InTurn, WhereItIs, Replacing
<1>2. Operable(n) /\ k \in DOMAIN containers /\ n \in DOMAIN containers
  BY <1>1, ExistingAre DEF Operable, InTurn, AllAlike
<1>3. Set(n, "status", "running") /\ up' = [up EXCEPT ![r] = u]
  BY <1>2 DEF start_renewed, Goto
<1>4. /\ u.pc = "remove_old" /\ u.at = k /\ u.new = n /\ u.todo = {k}
      /\ u.seen = up[r].seen /\ u.strategy = up[r].strategy
      /\ u.result = up[r].result /\ up'[r] = u
  BY <1>1, <1>3, LocalsOf DEF Up, Typed, TypeOK
<1> HIDE DEF u
<1>5. /\ AllAlike' /\ NeverEmptied' /\ Existing' = {k, n}
      /\ containers'[n].status = "running"
      /\ containers'[n].own = containers[n].own
      /\ containers'[n].image = containers[n].image
      /\ containers'[k].status = containers[k].status
  BY <1>1, <1>2, <1>3, StatusEffect DEF InTurn, NeverEmptied
<1>6. Fits(r, up[r].new)' /\ ~Running(up[r].at)'
  BY <1>1, <1>4, <1>5 DEF Fits, Running
<1>7. Replacing(r)'
  BY <1>1, <1>4, <1>5, <1>6 DEF Replacing
<1>8. WhereItIs(r)'
  BY <1>4, <1>5, <1>7 DEF WhereItIs
<1>9. InTurn'
  BY <1>1, <1>3, <1>4, <1>5, <1>8, InTurnAfter DEF InTurn, NeverRefused, Active, BeforeNew
<1> QED BY <1>4, <1>9 DEF Answers

LEMMA RemoveOldInTurn ==
    ASSUME Typed, InTurn, NEW r \in Ups, remove_old(r)
    PROVE  InTurn' /\ Delivered(r)'
<1> PICK k : k = up[r].at
  OBVIOUS
<1> PICK n : n = up[r].new
  OBVIOUS
<1> DEFINE u == [up[r] EXCEPT !.todo = {}, !.pc = "done", !.result = "ok"]
<1>1. /\ Existing = {k, n} /\ k # n /\ up[r].todo = {k} /\ ~Running(k)
      /\ containers[n].status = "running" /\ Fits(r, n)
      /\ up[r].pc = "remove_old" /\ UNCHANGED image
  BY DEF remove_old, InTurn, WhereItIs, Replacing
<1>2. k \in DOMAIN containers /\ n \in DOMAIN containers
  BY <1>1, ExistingAre
<1>3. Set(k, "status", "removed") /\ up' = [up EXCEPT ![r] = u]
  <2>1. up[r].todo \ {k} = {}
    BY <1>1
  <2> QED BY <1>1, <2>1 DEF remove_old, Loop
<1>4. /\ u.pc = "done" /\ u.result = "ok" /\ u.seen = up[r].seen
      /\ u.strategy = up[r].strategy /\ up'[r] = u
  BY <1>3, LocalsOf DEF Up, Typed, TypeOK
<1> HIDE DEF u
<1>5. /\ AllAlike' /\ NeverEmptied' /\ Existing' = {n}
      /\ containers'[n].status = "running"
      /\ containers'[n].image = containers[n].image
  BY <1>1, <1>2, <1>3, StatusEffect DEF InTurn, NeverEmptied
<1>6. Fits(r, n)'
  BY <1>1, <1>4, <1>5 DEF Fits
<1>7. WhereItIs(r)'
  BY <1>4 DEF WhereItIs
<1>8. InTurn'
  BY <1>1, <1>3, <1>4, <1>5, <1>7, InTurnAfter DEF Active, BeforeNew
<1> QED BY <1>5, <1>6, <1>8 DEF Delivered

\* A step of an up, and what it leaves behind if it succeeds.
LEMMA StepInTurn ==
    ASSUME Typed, InTurn, NEW r \in Ups, Step(r)
    PROVE  InTurn' /\ (Answers(r, "ok") => Delivered(r)')
<1>1. CASE duplicate_containers(r) \/ stop_duplicate(r) \/ remove_duplicate(r)
  <2>1. InTurn'
    BY <1>1, DuplicatesInTurn, StopDuplicateInTurn, RemoveDuplicateInTurn
  <2>2. up'[r].result # "ok" \/ up'[r].result = up[r].result
    BY <1>1, LocalsOf DEF duplicate_containers, stop_duplicate, remove_duplicate,
       Refused, End, Goto, Typed, TypeOK, Up
  <2> QED BY <2>1, <2>2 DEF Answers
<1> QED BY <1>1, PlanInTurn, CreateInTurn, StartCreatedInTurn, StartInTurn,
        RecreateInTurn, RenameInTurn, RenewInTurn, StartRenewedInTurn, RemoveOldInTurn
        DEF Step

LEMMA FailInTurn ==
    ASSUME Typed, InTurn, NEW r \in Ups, Fail(r)
    PROVE  InTurn' /\ ~Answers(r, "ok")
<1> DEFINE u == [up[r] EXCEPT !.pc = "done", !.result = "failed"]
<1>1. up' = [up EXCEPT ![r] = u] /\ UNCHANGED <<image, containers>>
  BY DEF Fail, End
<1>2. u.pc = "done" /\ u.result = "failed" /\ up'[r] = u
  BY <1>1, LocalsOf DEF Up, Typed, TypeOK
<1> HIDE DEF u
<1>3. AllAlike' /\ NeverEmptied' /\ WhereItIs(r)'
  BY <1>1, <1>2 DEF InTurn, AllAlike, NeverEmptied, Existing, WhereItIs
<1>4. InTurn'
  BY <1>1, <1>2, <1>3, InTurnAfter DEF Fail, BeforeNew
<1> QED BY <1>2, <1>4 DEF Answers

LEMMA BeginInTurn ==
    ASSUME Exclusive, Typed, InTurn, NEW r \in Ups, NEW strategy \in Strategies,
           Begin(r, strategy)
    PROVE  InTurn'
<1>1. /\ UNCHANGED <<image, containers>> /\ up[r].pc = "idle"
      /\ \A s \in Ups : ~Active(s)
  BY DEF Begin
<1>2. /\ up'[r].pc = "duplicates" /\ up'[r].new = up[r].new
      /\ up'[r].result = up[r].result
      /\ \A s \in Ups : s # r => up'[s] = up[s]
  BY LocalsOf DEF Begin, Typed, TypeOK, Up
<1>3. OneAtWork'
  BY <1>1, <1>2 DEF OneAtWork, Active
<1>4. AllAlike' /\ NeverEmptied' /\ NeverRefused'
  BY <1>1, <1>2 DEF InTurn, AllAlike, NeverEmptied, NeverRefused, Existing
<1>5. \A s \in Ups : WhereItIs(s)'
  <2>1. \A s \in Ups : up'[s].pc \in {"idle", "duplicates", "done"}
    BY <1>1, <1>2 DEF Active
  <2> QED BY <2>1 DEF WhereItIs
<1>6. \A s \in Ups : NothingNew(s)'
  BY <1>1, <1>2 DEF InTurn, NothingNew, BeforeNew
<1> QED BY <1>3, <1>4, <1>5, <1>6 DEF InTurn

LEMMA RebuildInTurn ==
    ASSUME Typed, InTurn, Rebuild  PROVE  InTurn'
<1>1. UNCHANGED <<containers, up>> /\ Existing' = Existing
  BY DEF Rebuild, Existing
<1>2. OneAtWork' /\ AllAlike' /\ NeverEmptied' /\ NeverRefused'
  BY <1>1 DEF InTurn, OneAtWork, Active, AllAlike, NeverEmptied, NeverRefused
<1>3. \A r \in Ups : WhereItIs(r)' /\ NothingNew(r)'
  BY <1>1 DEF InTurn, WhereItIs, Removing, AtTheOne, Replacing, Fits, Running, NothingNew
<1> QED BY <1>2, <1>3 DEF InTurn

LEMMA ExitInTurn ==
    ASSUME Typed, InTurn, NEW k \in DOMAIN containers, Exit(k)  PROVE  InTurn'
<1>1. /\ k \in Existing /\ Set(k, "status", "exited") /\ UNCHANGED <<image, up>>
      /\ \A r \in Ups : up[r].pc \in {"idle", "done"}
  BY DEF Exit, Existing, Active
<1>2. AllAlike' /\ Existing' = Existing
  BY <1>1, StatusEffect DEF InTurn
<1>3. OneAtWork' /\ NeverEmptied' /\ NeverRefused'
  BY <1>1, <1>2 DEF InTurn, OneAtWork, Active, NeverEmptied, NeverRefused
<1>4. \A r \in Ups : WhereItIs(r)' /\ NothingNew(r)'
  BY <1>1 DEF InTurn, WhereItIs, NothingNew
<1> QED BY <1>2, <1>3, <1>4 DEF InTurn

LEMMA InitInTurn == Init => InTurn
<1> SUFFICES ASSUME Init PROVE InTurn
  OBVIOUS
<1>1. /\ image = 1 /\ containers = <<>>
      /\ \A r \in Ups : /\ up[r].pc = "idle" /\ up[r].new = 0 /\ up[r].result = "none"
  BY DEF Init, Start
<1>2. OneAtWork /\ AllAlike /\ NeverEmptied /\ NeverRefused
  BY <1>1 DEF OneAtWork, Active, AllAlike, NeverEmptied, NeverRefused
<1>3. \A r \in Ups : WhereItIs(r) /\ NothingNew(r)
  BY <1>1 DEF WhereItIs, NothingNew
<1> QED BY <1>2, <1>3 DEF InTurn

(***************************************************************************)
(* The container_name                                                      *)
(***************************************************************************)
\* All containers that are left keep their name.
NamesStay ==
    /\ Existing' \subseteq Existing
    /\ \A k \in Existing : containers'[k].own = containers[k].own

LEMMA NamesStayAfter ==
    ASSUME Typed, InTurn, UNCHANGED image,
           \/ UNCHANGED containers
           \/ \E k \in Existing, s \in {"running", "exited", "removed"} : Set(k, "status", s)
    PROVE  NamesStay
<1>1. CASE UNCHANGED containers
  BY <1>1 DEF NamesStay, Existing
<1>2. ASSUME NEW k \in Existing, NEW s \in {"running", "exited", "removed"},
             Set(k, "status", s)
      PROVE  NamesStay
  <2>1. /\ Existing' = IF s = "removed" THEN Existing \ {k} ELSE Existing
        /\ \A l \in DOMAIN containers : containers'[l].own = containers[l].own
    BY <1>2, StatusEffect DEF InTurn
  <2> QED BY <2>1, ExistingAre DEF NamesStay
<1> QED BY <1>1, <1>2

\* A step of an up leaves the locals of the others alone.
LEMMA OthersStay ==
    ASSUME Typed, NEW r \in Ups, Step(r) \/ Fail(r)
    PROVE  \A s \in Ups : s # r => up'[s] = up[s]
BY DEF Step, Fail, duplicate_containers, stop_duplicate, remove_duplicate,
   convergence_plan, create, start_created, start, recreate, rename, renew,
   start_renewed, remove_old, Refused, End, Goto, Loop, Execute, Create, Typed, TypeOK

Replacements == {"renew", "start_renewed", "remove_old"}

\* As InTurnAfter, for Named.
LEMMA NamedAfter ==
    ASSUME InTurn, Named, NEW r \in Ups, Active(r),
           \A s \in Ups : s # r => up'[s] = up[s],
           \A k \in Existing' :
              \/ containers'[k].own
              \/ /\ k \in Existing /\ containers'[k].own = containers[k].own
                 /\ up[r].pc \notin Replacements
              \/ up'[r].pc \in Replacements /\ up'[r].at = k
    PROVE  Named'
<1> SUFFICES ASSUME NoneFailed', NEW k \in Existing', ~containers'[k].own,
                    k \in Existing, containers'[k].own = containers[k].own,
                    up[r].pc \notin Replacements
             PROVE  FALSE
  BY DEF Named, Replaced, Replacements
<1>1. up[r].result = "none"
  BY DEF InTurn, NothingNew, Active
<1>2. NoneFailed
  BY <1>1 DEF NoneFailed
<1>3. PICK s \in Ups : up[s].pc \in Replacements /\ up[s].at = k
  BY <1>2 DEF Named, Replaced, Replacements
<1>4. Active(s)
  BY <1>3 DEF Active, Replacements
<1>5. s = r
  BY <1>4 DEF InTurn, OneAtWork
<1> QED BY <1>3, <1>5

\* The daemon refuses no call of an up in its turn.
LEMMA NotRefused ==
    ASSUME Typed, InTurn, NEW r \in Ups, Step(r)  PROVE  ~Refused(r)
<1> SUFFICES ASSUME Refused(r) PROVE FALSE
  OBVIOUS
<1>1. up'[r].result = "refused"
  BY LocalsOf DEF Refused, End, Typed, TypeOK, Up
<1>2. InTurn'
  BY StepInTurn
<1> QED BY <1>1, <1>2 DEF InTurn, NeverRefused

\* A step that creates, removes or renames nothing.
PlainStep(r) ==
    \/ duplicate_containers(r) \/ stop_duplicate(r) \/ remove_duplicate(r)
    \/ convergence_plan(r) \/ start_created(r) \/ start(r) \/ recreate(r)

LEMMA PlainStepStays ==
    ASSUME Typed, InTurn, NEW r \in Ups, PlainStep(r)
    PROVE  NamesStay /\ up[r].pc \notin Replacements /\ UNCHANGED image
<1>1. ~Refused(r)
  BY NotRefused DEF PlainStep, Step
<1>2. up[r].pc \notin Replacements /\ UNCHANGED image
  BY DEF PlainStep, duplicate_containers, stop_duplicate, remove_duplicate,
     convergence_plan, start_created, start, recreate, Replacements
<1>3. CASE duplicate_containers(r) \/ convergence_plan(r)
  BY <1>2, <1>3, NamesStayAfter DEF duplicate_containers, convergence_plan
<1>4. CASE stop_duplicate(r) \/ remove_duplicate(r) \/ start_created(r)
  BY <1>1, <1>2, <1>4, NamesStayAfter
     DEF stop_duplicate, remove_duplicate, start_created, Operable
<1>5. CASE start(r) \/ recreate(r)
  BY <1>1, <1>2, <1>5, NamesStayAfter DEF start, recreate, Operable
<1> QED BY <1>2, <1>3, <1>4, <1>5 DEF PlainStep

\* What an up that replaced a container leaves has the container_name.
LEMMA RemoveOldLeaves ==
    ASSUME Typed, InTurn, NEW r \in Ups, remove_old(r)
    PROVE  Existing' = {up[r].new} /\ containers'[up[r].new].own
<1>1. ~Refused(r)
  BY NotRefused DEF Step
<1>2. /\ Existing = {up[r].at, up[r].new} /\ up[r].at # up[r].new
      /\ containers[up[r].new].own
  BY DEF remove_old, InTurn, WhereItIs, Replacing
<1>3. Set(up[r].at, "status", "removed") /\ UNCHANGED image
  BY <1>1 DEF remove_old
<1>4. Existing' = Existing \ {up[r].at}
  BY <1>2, <1>3, StatusEffect DEF InTurn
<1>5. NamesStay
  BY <1>2, <1>3, NamesStayAfter
<1> QED BY <1>2, <1>4, <1>5 DEF NamesStay

LEMMA StepIsNamed ==
    ASSUME Typed, InTurn, Named, NEW r \in Ups, Step(r)  PROVE  Named'
<1>1. /\ InTurn' /\ ~Refused(r) /\ Active(r)
      /\ \A s \in Ups : s # r => up'[s] = up[s]
  <2>1. Active(r)
    BY DEF Step, Active, duplicate_containers, stop_duplicate, remove_duplicate,
       convergence_plan, create, start_created, start, recreate, rename, renew,
       start_renewed, remove_old
  <2> QED BY <2>1, StepInTurn, NotRefused, OthersStay
<1>2. CASE PlainStep(r)
  BY <1>1, <1>2, PlainStepStays, NamedAfter DEF NamesStay
<1>3. CASE remove_old(r)
  BY <1>1, <1>3, RemoveOldLeaves, NamedAfter
<1>4. CASE create(r)
  <2>1. up'[r].pc = "start_created"
    BY <1>1, <1>4, LocalsOf DEF create, Create, Typed, TypeOK, Up
  <2>2. Existing' = {up'[r].new} /\ containers'[up'[r].new].own
    BY <1>1, <2>1 DEF InTurn, WhereItIs
  <2> QED BY <1>1, <2>2, NamedAfter
<1>5. CASE rename(r)
  <2>1. up'[r].pc = "renew"
    BY <1>1, <1>5, LocalsOf DEF rename, Goto, Typed, TypeOK, Up
  <2>2. Existing' = {up'[r].at}
    BY <1>1, <2>1 DEF InTurn, WhereItIs, AtTheOne
  <2> QED BY <1>1, <2>1, <2>2, NamedAfter DEF Replacements
<1>6. CASE renew(r) \/ start_renewed(r)
  <2>1. up'[r].pc \in {"start_renewed", "remove_old"}
    BY <1>1, <1>6, LocalsOf DEF renew, start_renewed, Create, Goto, Typed, TypeOK, Up
  <2>2. Existing' = {up'[r].at, up'[r].new} /\ containers'[up'[r].new].own
    BY <1>1, <2>1 DEF InTurn, WhereItIs, Replacing
  <2> QED BY <1>1, <2>1, <2>2, NamedAfter DEF Replacements
<1> QED BY <1>2, <1>3, <1>4, <1>5, <1>6 DEF Step, PlainStep

\* An up that fails is one that has failed.
LEMMA FailIsNamed ==
    ASSUME Typed, NEW r \in Ups, Fail(r)  PROVE  Named'
<1>1. up'[r].result = "failed"
  BY LocalsOf DEF Fail, End, Typed, TypeOK, Up
<1> QED BY <1>1 DEF Named, NoneFailed

LEMMA BeginIsNamed ==
    ASSUME Typed, Named, NEW r \in Ups, NEW strategy \in Strategies, Begin(r, strategy)
    PROVE  Named'
<1>1. /\ UNCHANGED <<image, containers>> /\ up[r].pc = "idle"
      /\ up'[r].result = up[r].result /\ \A s \in Ups : s # r => up'[s] = up[s]
  BY LocalsOf DEF Begin, Typed, TypeOK, Up
<1>2. NoneFailed' => NoneFailed
  BY <1>1 DEF NoneFailed
<1>3. \A k : Replaced(k) => Replaced(k)'
  BY <1>1 DEF Replaced
<1> QED BY <1>1, <1>2, <1>3 DEF Named, Existing

LEMMA RebuildIsNamed ==
    ASSUME Named, Rebuild  PROVE  Named'
BY DEF Rebuild, Named, NoneFailed, Replaced, Existing

LEMMA ExitIsNamed ==
    ASSUME Typed, InTurn, Named, NEW k \in DOMAIN containers, Exit(k)  PROVE  Named'
<1>1. k \in Existing /\ Set(k, "status", "exited") /\ UNCHANGED <<image, up>>
  BY DEF Exit, Existing
<1>2. NamesStay
  BY <1>1, NamesStayAfter
<1> QED BY <1>1, <1>2 DEF Named, NamesStay, NoneFailed, Replaced

\* The container an up leaves behind has the container_name, unless the up
\* created none and an earlier one has failed.
LEMMA AnswerIsNamed ==
    ASSUME Typed, InTurn, Named, NEW r \in Ups, Step(r), Answers(r, "ok")
    PROVE  \/ \E k \in Existing' : containers'[k].own
           \/ up'[r].new = 0 /\ \E other \in Ups : up[other].result = "failed"
<1>1. PICK k \in Existing' : Existing' = {k}
  BY StepInTurn DEF Delivered
<1>2. CASE start_created(r)
  <2>1. /\ Existing = {up[r].new} /\ containers[up[r].new].own /\ NamesStay
    BY <1>2, PlainStepStays DEF start_created, InTurn, WhereItIs, PlainStep
  <2> QED BY <1>1, <2>1 DEF NamesStay
<1>3. CASE remove_old(r)
  BY <1>3, RemoveOldLeaves
<1>4. CASE start(r) \/ convergence_plan(r)
  <2>1. /\ NamesStay /\ up[r].pc \in {"start", "plan"} /\ Active(r)
    BY <1>4, PlainStepStays DEF start, convergence_plan, PlainStep, Active
  <2>2. up'[r].new = up[r].new
    <3> DEFINE plan == PlanFor(up[r].strategy)
    <3>1. ~Refused(r) /\ up \in [Ups -> Up] /\ up[r] \in Up
      BY NotRefused, LocalsOf DEF Step, Typed, TypeOK
    <3>2. CASE start(r)
      <4>1. PICK rest : Loop(r, rest, "start")
        BY <3>1, <3>2 DEF start
      <4> QED BY <3>1, <4>1 DEF Loop, Up
    <3>3. CASE convergence_plan(r)
      <4>1. Execute(r, plan)
        BY <3>3 DEF convergence_plan
      <4> HIDE DEF plan
      <4> QED BY <3>1, <4>1 DEF Execute, Up
    <3> QED BY <1>4, <3>2, <3>3
  <2>3. up[r].new = 0
    BY <2>1 DEF InTurn, NothingNew, BeforeNew
  <2>4. ~Replaced(k)
    BY <2>1 DEF Replaced, InTurn, OneAtWork, Active
  <2>5. NoneFailed => containers'[k].own
    BY <1>1, <2>1, <2>4 DEF Named, NamesStay
  <2> QED BY <1>1, <2>2, <2>3, <2>5 DEF NoneFailed
<1>5. CASE duplicate_containers(r) \/ stop_duplicate(r) \/ remove_duplicate(r)
  <2>1. up'[r].result # "ok" \/ up'[r].result = up[r].result
    BY <1>5, LocalsOf DEF duplicate_containers, stop_duplicate, remove_duplicate,
       Refused, End, Goto, Typed, TypeOK, Up
  <2> QED BY <2>1 DEF Answers
<1> QED BY <1>2, <1>3, <1>4, <1>5, CreateInTurn, RecreateInTurn, RenameInTurn,
        RenewInTurn, StartRenewedInTurn DEF Step

(***************************************************************************)
(* What follows                                                            *)
(***************************************************************************)
IInv == Typed /\ InTurn /\ Named

LEMMA InitIInv == Init => IInv
<1> SUFFICES ASSUME Init PROVE IInv
  OBVIOUS
<1>1. Existing = {} /\ \A r \in Ups : up[r].pc = "idle"
  BY DEF Init, Start, Existing
<1>2. Named
  BY <1>1 DEF Named
<1> QED BY <1>2, InitIsTyped, InitInTurn DEF IInv

LEMMA NextIInv == ASSUME Exclusive PROVE IInv /\ [Next]_vars => IInv'
<1> SUFFICES ASSUME IInv, [Next]_vars PROVE IInv'
  OBVIOUS
<1>1. Typed'
  BY NextIsTyped DEF IInv
<1>2. CASE UNCHANGED vars \/ Terminated
  <2>1. UNCHANGED <<image, containers, up>>
    BY <1>2 DEF vars, Terminated
  <2>2. OneAtWork' /\ AllAlike' /\ NeverEmptied' /\ NeverRefused' /\ Existing' = Existing
    BY <2>1 DEF IInv, InTurn, OneAtWork, Active, AllAlike, NeverEmptied, NeverRefused, Existing
  <2>3. \A r \in Ups : WhereItIs(r)' /\ NothingNew(r)'
    BY <2>1, <2>2 DEF IInv, InTurn, WhereItIs, NothingNew, Removing, AtTheOne, Replacing, Fits, Running
  <2>4. Named'
    BY <2>1, <2>2 DEF IInv, Named, NoneFailed, Replaced
  <2> QED BY <1>1, <2>2, <2>3, <2>4 DEF IInv, InTurn
<1>3. CASE \E r \in Ups, strategy \in Strategies : Begin(r, strategy)
  BY <1>1, <1>3, BeginInTurn, BeginIsNamed DEF IInv
<1>4. CASE \E r \in Ups : Step(r) \/ Fail(r)
  BY <1>1, <1>4, StepInTurn, StepIsNamed, FailInTurn, FailIsNamed DEF IInv
<1>5. CASE Rebuild
  BY <1>1, <1>5, RebuildInTurn, RebuildIsNamed DEF IInv
<1>6. CASE \E k \in DOMAIN containers : Exit(k)
  BY <1>1, <1>6, ExitInTurn, ExitIsNamed DEF IInv
<1> QED BY <1>2, <1>3, <1>4, <1>5, <1>6 DEF Next

LEMMA IInvHolds == ASSUME Exclusive PROVE Spec => []IInv
BY InitIInv, NextIInv, PTL DEF Spec

\* When ups are given in turn, the next up goes through: whatever call failed
\* or whenever the server died before, the daemon refuses none of its calls.
THEOREM UpsAreNeverRefused == Exclusive => (Spec => []NeverRefused)
<1> SUFFICES ASSUME Exclusive PROVE Spec => []NeverRefused
  OBVIOUS
<1>1. IInv => NeverRefused
  BY DEF IInv, InTurn
<1> QED BY <1>1, IInvHolds, PTL

\* When ups are given in turn, the volumes of the first container are never
\* lost: some container of the service has them, at every step of recreating.
THEOREM VolumesAreKept == Exclusive => (Spec => []VolumesKept)
<1> SUFFICES ASSUME Exclusive PROVE Spec => []VolumesKept
  OBVIOUS
<1>1. IInv => VolumesKept
  BY ExistingAre DEF IInv, InTurn, NeverEmptied, AllAlike, VolumesKept
<1> QED BY <1>1, IInvHolds, PTL

\* What a step of an up may answer.
LEMMA OnlyStepsAnswer ==
    ASSUME IInv, Next, NEW r \in Ups, Answers(r, "ok")
    PROVE  Step(r)
<1>1. ASSUME NEW s \in Ups, Step(s) \/ Fail(s)  PROVE  Step(r)
  <2>1. s # r => up'[r] = up[r]
    BY <1>1, OthersStay DEF IInv
  <2>2. s = r
    BY <2>1 DEF Answers
  <2> QED BY <1>1, <2>2, FailInTurn DEF IInv
<1>2. ASSUME NEW s \in Ups, NEW strategy \in Strategies, Begin(s, strategy)  PROVE  FALSE
  <2>1. up'[r].result = up[r].result
    BY <1>2, LocalsOf DEF Begin, IInv, Typed, TypeOK, Up
  <2> QED BY <2>1 DEF Answers
<1>3. ~UNCHANGED up
  BY DEF Answers
<1> QED BY <1>1, <1>2, <1>3 DEF Next, Rebuild, Exit, Terminated, vars

\* The strategy of an up is what it was begun with.
LEMMA StrategyStays ==
    ASSUME Typed, NEW r \in Ups, Step(r)  PROVE  up'[r].strategy = up[r].strategy
<1>1. up \in [Ups -> Up] /\ up[r] \in Up
  BY DEF Typed, TypeOK
<1> USE <1>1 DEF Up
<1>2. ASSUME NEW rest, NEW pc, Loop(r, rest, pc)
      PROVE  up'[r].strategy = up[r].strategy
  <2> DEFINE u == [up[r] EXCEPT !.todo = rest, !.pc = IF rest = {} THEN "done" ELSE pc,
                                !.result = IF rest = {} THEN "ok" ELSE "none"]
  <2>1. up' = [up EXCEPT ![r] = u]
    BY <1>2 DEF Loop
  <2>2. u.strategy = up[r].strategy
    OBVIOUS
  <2> HIDE DEF u
  <2> QED BY <2>1, <2>2
<1>3. CASE duplicate_containers(r)
  BY <1>3 DEF duplicate_containers
<1>4. CASE convergence_plan(r)
  <2> DEFINE plan == PlanFor(up[r].strategy)
  <2>1. Execute(r, plan)
    BY <1>4 DEF convergence_plan
  <2> HIDE DEF plan
  <2>2. up' = [up EXCEPT ![r] = AfterPlan(r, plan)]
    BY <2>1 DEF Execute, AfterPlan
  <2> QED BY <2>2 DEF AfterPlan
<1>5. CASE stop_duplicate(r) \/ remove_duplicate(r)
  BY <1>5 DEF stop_duplicate, remove_duplicate, Refused, End, Goto
<1>6. CASE create(r) \/ renew(r)
  <2>1. PICK number, data, pc : Create(r, number, data, pc)
    BY <1>6 DEF create, renew
  <2> QED BY <2>1 DEF Create, Refused, End
<1>7. CASE start_created(r) \/ start(r) \/ remove_old(r)
  <2>1. CASE start(r)
    <3>1. PICK k \in up[r].todo : Refused(r) \/ Loop(r, up[r].todo \ {k}, "start")
      BY <2>1 DEF start
    <3> QED BY <3>1, <1>2 DEF Refused, End
  <2>2. CASE remove_old(r)
    <3>1. Refused(r) \/ Loop(r, up[r].todo \ {up[r].at}, "recreate")
      BY <2>2 DEF remove_old
    <3> QED BY <3>1, <1>2 DEF Refused, End
  <2>3. CASE start_created(r)
    BY <2>3 DEF start_created, Refused, End
  <2> QED BY <1>7, <2>1, <2>2, <2>3
<1>8. CASE recreate(r) \/ rename(r) \/ start_renewed(r)
  BY <1>8 DEF recreate, rename, start_renewed, Refused, End, Goto
<1> QED BY <1>3, <1>4, <1>5, <1>6, <1>7, <1>8 DEF Step

\* When ups are given in turn, an up that succeeds leaves one container,
\* running, and recreated from the image it saw unless that was ruled out.
THEOREM UpConverges == Exclusive => (Spec => Converged)
<1> SUFFICES ASSUME Exclusive PROVE Spec => Converged
  OBVIOUS
<1>1. ASSUME IInv, [Next]_vars
      PROVE  [\A r \in Ups :
                Answers(r, "ok") =>
                  \E k \in Existing' :
                     /\ Existing' = {k}
                     /\ containers'[k].status = "running"
                     /\ up[r].strategy # "never" => containers'[k].image = up'[r].seen]_vars
  <2> SUFFICES ASSUME Next, NEW r \in Ups, Answers(r, "ok")
               PROVE  \E k \in Existing' :
                        /\ Existing' = {k}
                        /\ containers'[k].status = "running"
                        /\ up[r].strategy # "never" => containers'[k].image = up'[r].seen
    BY <1>1
  <2>1. Step(r) /\ Delivered(r)'
    BY <1>1, OnlyStepsAnswer, StepInTurn DEF IInv
  <2>2. up'[r].strategy = up[r].strategy
    BY <1>1, <2>1, StrategyStays DEF IInv
  <2> QED BY <2>1, <2>2 DEF Delivered, Fits
<1> QED BY <1>1, IInvHolds, PTL DEF Spec, Converged

\* When ups are given in turn, the container an up leaves is found under
\* container_name, unless the up created none and an earlier one has failed.
THEOREM NameIsKept == Exclusive => (Spec => NameKept)
<1> SUFFICES ASSUME Exclusive PROVE Spec => NameKept
  OBVIOUS
<1>1. ASSUME IInv, [Next]_vars
      PROVE  [\A r \in Ups :
                Answers(r, "ok") =>
                   \/ \E k \in Existing' : containers'[k].own
                   \/ up'[r].new = 0 /\ \E other \in Ups : up[other].result = "failed"]_vars
  BY <1>1, OnlyStepsAnswer, AnswerIsNamed DEF IInv
<1> QED BY <1>1, IInvHolds, PTL DEF Spec, NameKept
=============================================================================
