-------------------------- MODULE ParallelExecute ---------------------------
(***************************************************************************)
(* utils.parallel_execute: one thread per object calls obj_callable and    *)
(* puts what came of it on a queue; the caller counts the answers, and     *)
(* raises what was unexpected after the last one.                          *)
(*                                                                         *)
(* Objects are named by their position in the list.  A thread is started,  *)
(* calls, and puts its answer: three steps, in any order with those of the *)
(* other threads.  A get that times out changes nothing.                   *)
(***************************************************************************)
EXTENDS Naturals, Sequences, FiniteSets

CONSTANTS
    N,            \* number of objects
    ThreadLimit,  \* threads the process may have at a time
    Interrupts    \* TRUE if the user may interrupt the caller

ASSUME SizeAssumption == N \in Nat /\ ThreadLimit \in Nat \ {0}
ASSUME InterruptAssumption == Interrupts \in BOOLEAN

Objects == 1 .. N
Outcomes == {"ok", "error", "unexpected_exception"}

VARIABLES
    pc,       \* of the caller: "running", or how the call ended
    started,  \* number of threads started
    thread,   \* of each object: "none", "calling", "putting" or "ended"
    result,   \* of each object: what its call came to
    q,        \* objects whose answers are on the queue, oldest first
    done,     \* number of answers taken from the queue
    errors    \* the objects in the dictionary of errors

vars == <<pc, started, thread, result, q, done, errors>>

Init ==
    /\ pc = "running"
    /\ started = 0
    /\ thread = [o \in Objects |-> "none"]
    /\ result = [o \in Objects |-> "waiting"]
    /\ q = <<>>
    /\ done = 0
    /\ errors = {}

(***************************************************************************)
(* The threads                                                             *)
(***************************************************************************)
call(o) ==
    /\ thread[o] = "calling"
    /\ \E r \in Outcomes : result' = [result EXCEPT ![o] = r]
    /\ thread' = [thread EXCEPT ![o] = "putting"]
    /\ UNCHANGED <<pc, started, q, done, errors>>

\* Mutant: only an APIError is caught, any other exception ends the thread.
put_mutant(o) ==
    /\ thread[o] = "putting"
    /\ q' = IF result[o] = "unexpected_exception" THEN q ELSE Append(q, o)
    /\ thread' = [thread EXCEPT ![o] = "ended"]
    /\ UNCHANGED <<pc, started, result, done, errors>>

put(o) ==
    /\ thread[o] = "putting"
    /\ q' = Append(q, o)
    /\ thread' = [thread EXCEPT ![o] = "ended"]
    /\ UNCHANGED <<pc, started, result, done, errors>>

Thread(o) == call(o) \/ put(o)

(***************************************************************************)
(* The caller                                                              *)
(***************************************************************************)
Alive == {o \in Objects : thread[o] \in {"calling", "putting"}}

\* Mutant: one thread too many.
start_mutant ==
    /\ pc = "running"
    /\ started <= N
    /\ started' = started + 1
    /\ thread' = [thread EXCEPT ![started + 1] = "calling"]
    /\ UNCHANGED <<pc, result, q, done, errors>>

\* Thread.start; what it raises when there can be no more threads is not
\* handled, and leaves the threads already started to themselves
start ==
    /\ pc = "running"
    /\ started < N
    /\ IF Cardinality(Alive) < ThreadLimit
       THEN /\ started' = started + 1
            /\ thread' = [thread EXCEPT ![started + 1] = "calling"]
            /\ UNCHANGED pc
       ELSE pc' = "aborted" /\ UNCHANGED <<started, thread>>
    /\ UNCHANGED <<result, q, done, errors>>

\* Mutant: a get that times out is counted.
collect_mutant ==
    /\ pc = "running" /\ started = N
    /\ done < N
    /\ done' = done + 1
    /\ IF q = <<>> THEN UNCHANGED <<q, errors>>
       ELSE /\ q' = Tail(q)
            /\ errors' = IF result[Head(q)] = "ok" THEN errors
                         ELSE errors \cup {Head(q)}
    /\ UNCHANGED <<pc, started, thread, result>>

collect ==
    /\ pc = "running" /\ started = N
    /\ done < N
    /\ q # <<>>
    /\ q' = Tail(q)
    /\ done' = done + 1
    /\ errors' = IF result[Head(q)] = "ok" THEN errors
                 ELSE errors \cup {Head(q)}
    /\ UNCHANGED <<pc, started, thread, result>>

\* Mutant: whatever is in the dictionary is raised.
finish_mutant ==
    /\ pc = "running" /\ started = N
    /\ done = N
    /\ pc' = IF errors # {} THEN "raised" ELSE "returned"
    /\ UNCHANGED <<started, thread, result, q, done, errors>>

\* an APIError is printed, nothing else
finish ==
    /\ pc = "running" /\ started = N
    /\ done = N
    /\ pc' = IF \E o \in errors : result[o] = "unexpected_exception"
             THEN "raised" ELSE "returned"
    /\ UNCHANGED <<started, thread, result, q, done, errors>>

\* KeyboardInterrupt, in whatever the caller does
interrupt ==
    /\ Interrupts
    /\ pc = "running"
    /\ pc' = "aborted"
    /\ UNCHANGED <<started, thread, result, q, done, errors>>

Caller == start \/ collect \/ finish

Terminated ==
    /\ pc # "running" /\ Alive = {}
    /\ UNCHANGED vars

Next == Caller \/ interrupt \/ (\E o \in Objects : Thread(o)) \/ Terminated

Spec == Init /\ [][Next]_vars

\* threads are scheduled, and the calls of the Docker API time out
FairSpec ==
    /\ Spec
    /\ WF_vars(Caller)
    /\ \A o \in Objects : WF_vars(Thread(o))

(***************************************************************************)
(* Properties                                                              *)
(***************************************************************************)
\* The caller, the threads and the queue hold values of their types.
TypeOK ==
    /\ pc \in {"running", "returned", "raised", "aborted"}
    /\ started \in 0 .. N
    /\ thread \in [Objects -> {"none", "calling", "putting", "ended"}]
    /\ result \in [Objects -> Outcomes \cup {"waiting"}]
    /\ q \in Seq(Objects)
    /\ done \in 0 .. N
    /\ errors \subseteq Objects

\* No answer is lost or counted twice: every thread that was started is alive,
\* or its answer is on the queue, or the caller has counted it.
Conserved == done + Len(q) + Cardinality(Alive) = started

\* The loop over the queue ends, whatever the calls raise.
CallEnds == <>(pc # "running")

ForEachObject ==
    INSTANCE ForEach
        WITH acted <- result, answer <- IF pc = "running" THEN "none" ELSE pc

\* Unless it is interrupted, or out of threads, the call ends after every
\* object was acted on once, and raises if and only if something unexpected
\* happened to one of them.
ImplementsForEach == ForEachObject!Spec
=============================================================================
