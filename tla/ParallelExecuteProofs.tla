----------------------- MODULE ParallelExecuteProofs ------------------------
(***************************************************************************)
(* Theorems about ParallelExecute, for every number of objects and every   *)
(* limit of threads.  The invariant says where the answer of each object   *)
(* is: not there yet, on the queue, or among the errors if it is one.      *)
(***************************************************************************)
EXTENDS ParallelExecute, TLAPS, FiniteSetTheorems

Queued(o) == \E k \in 1 .. Len(q) : q[k] = o

StartedInOrder == \A o \in Objects : thread[o] = "none" <=> started < o
ResultsKnown ==
    \A o \in Objects : result[o] = "waiting" <=> thread[o] \in {"none", "calling"}
QueuedEnded == \A k \in 1 .. Len(q) : thread[q[k]] = "ended"
ErrorsTrue == \A o \in errors : thread[o] = "ended" /\ result[o] # "ok"
ErrorsComplete ==
    \A o \in Objects : thread[o] = "ended" /\ result[o] # "ok" =>
                          o \in errors \/ Queued(o)

Answers == ResultsKnown /\ QueuedEnded /\ ErrorsTrue /\ ErrorsComplete
IInv == TypeOK /\ StartedInOrder /\ Conserved /\ Answers

LEMMA AliveIsFinite == IsFiniteSet(Alive) /\ Cardinality(Alive) \in Nat
<1>1. IsFiniteSet(Objects)
  BY SizeAssumption, FS_Interval DEF Objects
<1>2. Alive \in SUBSET Objects
  BY DEF Alive
<1> QED  BY <1>1, <1>2, FS_Subset, FS_CardinalityType

LEMMA InitInv == Init => IInv
<1> SUFFICES ASSUME Init  PROVE IInv
  OBVIOUS
<1>1. TypeOK
  BY SizeAssumption DEF Init, TypeOK, Objects
<1>2. StartedInOrder
  BY SizeAssumption DEF Init, StartedInOrder, Objects
<1>3. Conserved
  <2>1. Alive = {}
    BY DEF Init, Alive
  <2>2. Cardinality(Alive) = 0
    BY <2>1, FS_EmptySet
  <2> QED  BY <2>2 DEF Init, Conserved
<1>4. Answers
  BY DEF Init, Answers, ResultsKnown, QueuedEnded, ErrorsTrue, ErrorsComplete
<1> QED  BY <1>1, <1>2, <1>3, <1>4 DEF IInv

\* A call ends: its thread stays alive.
LEMMA CallInv ==
    ASSUME IInv, NEW o \in Objects, call(o)
    PROVE  IInv'
<1> USE DEF IInv, call
<1>1. TypeOK'
  BY DEF TypeOK
<1>2. StartedInOrder'
  BY DEF TypeOK, StartedInOrder
<1>3. Conserved'
  <2>1. Alive' = Alive
    BY DEF TypeOK, Alive
  <2> QED  BY <2>1 DEF Conserved
<1>4. Answers'
  <2>1. ResultsKnown'
    BY DEF TypeOK, Answers, ResultsKnown, Outcomes
  <2>2. QueuedEnded'
    BY DEF TypeOK, Answers, QueuedEnded
  <2>3. ErrorsTrue'
    BY DEF TypeOK, Answers, ErrorsTrue
  <2>4. ErrorsComplete'
    BY DEF TypeOK, Answers, ErrorsComplete, Queued
  <2> QED  BY <2>1, <2>2, <2>3, <2>4 DEF Answers
<1> QED  BY <1>1, <1>2, <1>3, <1>4

\* An answer is put on the queue: one thread less, one answer more.
LEMMA PutInv ==
    ASSUME IInv, NEW o \in Objects, put(o)
    PROVE  IInv'
<1> USE DEF IInv, put
<1>0. /\ q \in Seq(Objects) /\ q' \in Seq(Objects)
      /\ Len(q) \in Nat /\ Len(q') = Len(q) + 1
      /\ q'[Len(q) + 1] = o
      /\ \A k \in 1 .. Len(q) : q'[k] = q[k]
  BY DEF TypeOK
<1>1. TypeOK'
  BY <1>0 DEF TypeOK
<1>2. StartedInOrder'
  BY DEF TypeOK, StartedInOrder
<1>3. Conserved'
  <2>1. o \in Alive /\ Alive' = Alive \ {o}
    BY DEF TypeOK, Alive
  <2>2. Cardinality(Alive') = Cardinality(Alive) - 1
    BY <2>1, AliveIsFinite, FS_RemoveElement
  <2> QED  BY <1>0, <2>2, AliveIsFinite DEF Conserved, TypeOK
<1>4. Answers'
  <2>1. ResultsKnown'
    BY DEF TypeOK, Answers, ResultsKnown
  <2>2. QueuedEnded'
    <3> SUFFICES ASSUME NEW k \in 1 .. Len(q')
                 PROVE  thread'[q'[k]] = "ended"
      BY DEF QueuedEnded
    <3>1. CASE k = Len(q) + 1
      BY <1>0, <3>1 DEF TypeOK
    <3>2. CASE k # Len(q) + 1
      <4>1. k \in 1 .. Len(q)
        BY <1>0, <3>2
      <4>2. q[k] \in Objects /\ thread[q[k]] = "ended"
        BY <1>0, <4>1 DEF Answers, QueuedEnded
      <4> QED  BY <1>0, <4>1, <4>2 DEF TypeOK
    <3> QED  BY <3>1, <3>2
  <2>3. ErrorsTrue'
    BY DEF TypeOK, Answers, ErrorsTrue
  <2>4. ErrorsComplete'
    <3> SUFFICES ASSUME NEW x \in Objects, thread'[x] = "ended", result[x] # "ok"
                 PROVE  x \in errors \/ Queued(x)'
      BY DEF ErrorsComplete
    <3>1. CASE x = o
      <4>1. Len(q) + 1 \in 1 .. Len(q')
        BY <1>0
      <4> QED  BY <1>0, <3>1, <4>1 DEF Queued
    <3>2. CASE x # o
      <4>1. thread[x] = "ended"
        BY <3>2 DEF TypeOK
      <4>2. x \in errors \/ Queued(x)
        BY <4>1 DEF Answers, ErrorsComplete
      <4>3. Queued(x) => Queued(x)'
        BY <1>0 DEF Queued
      <4> QED  BY <4>2, <4>3
    <3> QED  BY <3>1, <3>2
  <2> QED  BY <2>1, <2>2, <2>3, <2>4 DEF Answers
<1> QED  BY <1>1, <1>2, <1>3, <1>4

\* A thread is started: one more started and one more alive.
LEMMA StartInv ==
    ASSUME IInv, start
    PROVE  IInv'
<1> USE DEF IInv
<1>1. CASE UNCHANGED <<started, thread>>
  <2>1. pc' \in {"running", "aborted"}
    BY <1>1 DEF start, TypeOK
  <2>2. Alive' = Alive
    BY <1>1 DEF Alive
  <2> QED
    BY <1>1, <2>1, <2>2 DEF start, TypeOK, StartedInOrder, Conserved, Answers,
       ResultsKnown, QueuedEnded, ErrorsTrue, ErrorsComplete, Queued
<1>2. CASE /\ started' = started + 1
           /\ thread' = [thread EXCEPT ![started + 1] = "calling"]
           /\ UNCHANGED pc
  <2> DEFINE o == started + 1
  <2>0. /\ o \in Objects /\ thread[o] = "none"
        /\ started \in Nat /\ thread' = [thread EXCEPT ![o] = "calling"]
        /\ UNCHANGED <<result, q, done, errors>>
    BY <1>2, SizeAssumption DEF start, TypeOK, StartedInOrder, Objects
  <2>1. TypeOK'
    BY <1>2, <2>0, SizeAssumption DEF TypeOK, Objects
  <2>2. StartedInOrder'
    <3> SUFFICES ASSUME NEW x \in Objects
                 PROVE  thread'[x] = "none" <=> started' < x
      BY DEF StartedInOrder
    <3>1. CASE x = o
      BY <1>2, <2>0, <3>1 DEF TypeOK
    <3>2. CASE x # o
      <4>1. thread'[x] = thread[x]
        BY <2>0, <3>2 DEF TypeOK
      <4>2. started < x <=> started + 1 < x
        BY <2>0, <3>2, SizeAssumption DEF Objects
      <4> QED  BY <1>2, <4>1, <4>2 DEF StartedInOrder
    <3> QED  BY <3>1, <3>2
  <2>3. Conserved'
    <3> HIDE DEF o
    <3>1. o \notin Alive /\ Alive' = Alive \cup {o}
      BY <2>0 DEF TypeOK, Alive
    <3>2. Cardinality(Alive') = Cardinality(Alive) + 1
      BY <3>1, AliveIsFinite, FS_AddElement
    <3> QED  BY <1>2, <2>0, <3>2, AliveIsFinite DEF Conserved, TypeOK
  <2>4. Answers'
    <3> HIDE DEF o
    <3>1. ResultsKnown'
      BY <2>0 DEF TypeOK, Answers, ResultsKnown
    <3>2. QueuedEnded'
      BY <2>0 DEF TypeOK, Answers, QueuedEnded
    <3>3. ErrorsTrue'
      BY <2>0 DEF TypeOK, Answers, ErrorsTrue
    <3>4. ErrorsComplete'
      BY <2>0 DEF TypeOK, Answers, ErrorsComplete, Queued
    <3> QED  BY <3>1, <3>2, <3>3, <3>4 DEF Answers
  <2> QED  BY <2>1, <2>2, <2>3, <2>4
<1> QED  BY <1>1, <1>2 DEF start

\* An answer is taken from the queue and counted.
LEMMA CollectInv ==
    ASSUME IInv, collect
    PROVE  IInv'
<1> USE DEF IInv, collect
<1>0. /\ q \in Seq(Objects) /\ q' \in Seq(Objects) /\ q # <<>>
      /\ Len(q) \in Nat \ {0} /\ Len(q') = Len(q) - 1
      /\ \A k \in 1 .. Len(q') : q'[k] = q[k + 1] /\ k + 1 \in 1 .. Len(q)
      /\ Head(q) = q[1] /\ Head(q) \in Objects
  BY DEF TypeOK
<1>1. TypeOK'
  <2>1. done' \in 0 .. N /\ errors' \subseteq Objects
    BY <1>0, SizeAssumption DEF TypeOK
  <2> QED  BY <1>0, <2>1 DEF TypeOK
<1>2. StartedInOrder'
  BY DEF StartedInOrder
<1>3. Conserved'
  <2>1. Alive' = Alive
    BY DEF Alive
  <2> QED  BY <1>0, <2>1, AliveIsFinite DEF Conserved, TypeOK
<1>4. Answers'
  <2>1. ResultsKnown'
    BY DEF Answers, ResultsKnown
  <2>2. QueuedEnded'
    BY <1>0 DEF Answers, QueuedEnded
  <2>3. ErrorsTrue'
    <3>1. thread[Head(q)] = "ended"
      BY <1>0 DEF Answers, QueuedEnded
    <3> QED  BY <3>1 DEF Answers, ErrorsTrue
  <2>4. ErrorsComplete'
    <3> SUFFICES ASSUME NEW x \in Objects, thread[x] = "ended", result[x] # "ok"
                 PROVE  x \in errors' \/ Queued(x)'
      BY DEF ErrorsComplete
    <3>1. x \in errors \/ Queued(x)
      BY DEF Answers, ErrorsComplete
    <3>2. CASE x \in errors
      BY <3>2
    <3>3. CASE Queued(x)
      <4>1. PICK k \in 1 .. Len(q) : q[k] = x
        BY <3>3 DEF Queued
      <4>2. CASE k = 1
        BY <1>0, <4>1, <4>2
      <4>3. CASE k # 1
        <5>1. k - 1 \in 1 .. Len(q')
          BY <1>0, <4>3
        <5>2. q'[k - 1] = q[(k - 1) + 1]
          BY <1>0, <5>1
        <5>3. (k - 1) + 1 = k
          BY <4>1
        <5> QED  BY <4>1, <5>1, <5>2, <5>3 DEF Queued
      <4> QED  BY <4>2, <4>3
    <3> QED  BY <3>1, <3>2, <3>3
  <2> QED  BY <2>1, <2>2, <2>3, <2>4 DEF Answers
<1> QED  BY <1>1, <1>2, <1>3, <1>4

\* Steps that change at most the program counter.
LEMMA RestInv ==
    ASSUME IInv, finish \/ interrupt \/ Terminated \/ UNCHANGED vars
    PROVE  IInv'
<1>1. UNCHANGED <<started, thread, result, q, done, errors>>
  BY DEF finish, interrupt, Terminated, vars
<1>2. TypeOK'
  BY <1>1 DEF IInv, TypeOK, finish, interrupt, Terminated, vars
<1>3. Alive' = Alive
  BY <1>1 DEF Alive
<1> QED
  BY <1>1, <1>2, <1>3 DEF IInv, StartedInOrder, Conserved, Answers,
     ResultsKnown, QueuedEnded, ErrorsTrue, ErrorsComplete, Queued

LEMMA NextInv == IInv /\ [Next]_vars => IInv'
<1> SUFFICES ASSUME IInv, [Next]_vars  PROVE IInv'
  OBVIOUS
<1>1. CASE Caller
  BY <1>1, StartInv, CollectInv, RestInv DEF Caller
<1>2. CASE \E o \in Objects : Thread(o)
  BY <1>2, CallInv, PutInv DEF Thread
<1> QED  BY <1>1, <1>2, RestInv DEF Next

LEMMA InvIsInvariant == Spec => []IInv
BY InitInv, NextInv, PTL DEF Spec

\* The caller, the threads and the queue keep their types.
THEOREM TypeCorrect == Spec => []TypeOK
<1>1. IInv => TypeOK
  BY DEF IInv
<1> QED  BY <1>1, InvIsInvariant, PTL

\* No answer is ever lost or counted twice.
THEOREM AnswersAreConserved == Spec => []Conserved
<1>1. IInv => Conserved
  BY DEF IInv
<1> QED  BY <1>1, InvIsInvariant, PTL

-----------------------------------------------------------------------------
(***************************************************************************)
(* The refinement                                                          *)
(***************************************************************************)
answer == IF pc = "running" THEN "none" ELSE pc

\* When as many answers were counted as there are objects, every thread has
\* ended and every answer that is not "ok" is among the errors.
LEMMA AllCounted ==
    ASSUME IInv, started = N, done = N
    PROVE  \A o \in Objects : /\ thread[o] = "ended"
                              /\ result[o] \in Outcomes
                              /\ result[o] # "ok" => o \in errors
<1>1. Cardinality(Alive) = 0 /\ Len(q) = 0
  BY AliveIsFinite, SizeAssumption DEF IInv, Conserved, TypeOK
<1>2. Alive = {}
  BY <1>1, AliveIsFinite, FS_EmptySet
<1>3. \A o \in Objects : thread[o] = "ended"
  <2> SUFFICES ASSUME NEW o \in Objects  PROVE thread[o] = "ended"
    OBVIOUS
  <2>1. ~ (started < o)
    BY SizeAssumption DEF Objects
  <2>2. thread[o] # "none"
    BY <2>1 DEF IInv, StartedInOrder
  <2> QED  BY <1>2, <2>2 DEF Alive, IInv, TypeOK
<1>4. \A o \in Objects : result[o] \in Outcomes
  BY <1>3 DEF IInv, TypeOK, Answers, ResultsKnown
<1>5. \A o \in Objects : ~ Queued(o)
  BY <1>1 DEF Queued
<1> QED  BY <1>3, <1>4, <1>5 DEF IInv, Answers, ErrorsComplete

LEMMA StepRefines ==
    ASSUME IInv, [Next]_vars
    PROVE  [ForEachObject!Next]_<<result, answer>>
<1>1. ASSUME NEW o \in Objects, call(o)
      PROVE  ForEachObject!Act(o)
  <2>1. result[o] = "waiting" /\ o \in 1 .. N
    BY <1>1 DEF IInv, call, Answers, ResultsKnown, Objects
  <2> QED
    BY <1>1, <2>1 DEF call, ForEachObject!Act, ForEachObject!Outcomes, Outcomes
<1>2. CASE finish
  <2>1. \A o \in Objects : /\ thread[o] = "ended"
                           /\ result[o] \in Outcomes
                           /\ result[o] # "ok" => o \in errors
    BY <1>2, AllCounted DEF finish
  <2>2. pc = "running" /\ result' = result
    BY <1>2 DEF finish
  <2>3. CASE \E o \in errors : result[o] = "unexpected_exception"
    <3>1. pc' = "raised"
      BY <1>2, <2>3 DEF finish
    <3>2. \E o \in 1 .. N : result[o] = "unexpected_exception"
      BY <2>3 DEF IInv, TypeOK, Objects
    <3>3. \A o \in 1 .. N : result[o] # "waiting"
      BY <2>1 DEF Objects, Outcomes
    <3>4. ForEachObject!Raise
      BY <2>2, <3>1, <3>2, <3>3 DEF ForEachObject!Raise
    <3> QED  BY <3>4 DEF ForEachObject!Next
  <2>4. CASE ~ \E o \in errors : result[o] = "unexpected_exception"
    <3>1. pc' = "returned"
      BY <1>2, <2>4 DEF finish
    <3>2. \A o \in 1 .. N : result[o] \in {"ok", "error"}
      BY <2>1, <2>4 DEF Objects, Outcomes
    <3>3. ForEachObject!Return
      BY <2>2, <3>1, <3>2 DEF ForEachObject!Return
    <3> QED  BY <3>3 DEF ForEachObject!Next
  <2> QED  BY <2>3, <2>4
<1>3. CASE start \/ interrupt
  <2>1. pc = "running" /\ pc' \in {"running", "aborted"} /\ result' = result
    BY <1>3 DEF start, interrupt
  <2>2. CASE pc' = "running"
    BY <2>1, <2>2 DEF answer
  <2>3. CASE pc' = "aborted"
    <3>1. ForEachObject!Abort
      BY <2>1, <2>3 DEF ForEachObject!Abort
    <3> QED  BY <3>1 DEF ForEachObject!Next
  <2> QED  BY <2>1, <2>2, <2>3
<1>4. ASSUME NEW o \in Objects, put(o)
      PROVE  UNCHANGED <<result, answer>>
  BY <1>4 DEF put, answer
<1>5. CASE collect \/ Terminated \/ UNCHANGED vars
  BY <1>5 DEF collect, Terminated, vars, answer
<1>6. ASSUME NEW o \in Objects, call(o)
      PROVE  ForEachObject!Next
  BY <1>1, <1>6 DEF ForEachObject!Next, Objects
<1> QED
  BY <1>2, <1>3, <1>4, <1>5, <1>6 DEF Next, Caller, Thread

\* Unless it is aborted, parallel_execute ends after every object was acted on
\* once, and raises if and only if something unexpected happened to one.
THEOREM Refines == Spec => ImplementsForEach
<1>1. Init => ForEachObject!Init
  BY DEF Init, ForEachObject!Init, Objects
<1>2. IInv /\ [Next]_vars => [ForEachObject!Next]_<<result, answer>>
  BY StepRefines
<1> QED
  BY <1>1, <1>2, InvIsInvariant, PTL DEF Spec, ImplementsForEach, ForEachObject!Spec, answer
=============================================================================
