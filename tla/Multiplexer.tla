----------------------------- MODULE Multiplexer -----------------------------
(***************************************************************************)
(* The logs of several containers on one output (LogPrinter, Multiplexer): *)
(* a reader thread for each container cuts its log stream into lines and   *)
(* puts them on a queue; one loop takes them off and prints them.          *)
(*                                                                         *)
(* A container writes pieces of lines; the stream hands over any number of *)
(* pieces at a time.                                                       *)
(***************************************************************************)
EXTENDS Integers, Sequences, FiniteSets

CONSTANTS
    Containers,   \* whose logs are printed (build_log_printer)
    MaxPieces,    \* pieces a container writes
    Faults        \* streams fail

ASSUME MaxPiecesAssumption == MaxPieces \in Nat
ASSUME ContainersAssumption == IsFiniteSet(Containers) /\ Faults \in BOOLEAN

VARIABLES
    has_api_logs, \* containers with a log driver Docker can read
    exited,       \* containers that have
    written,      \* what each wrote: for each piece, whether it ends its line
    got,          \* pieces its reader has had from the stream
    put,          \* pieces its reader has put on the queue, in lines
    reader,       \* where its reader is
    queue,        \* what the readers have put and the loop not taken
    printed,      \* what of each container is printed
    num_running,  \* readers that have not stopped
    loop          \* of Multiplexer: "on", or how it ended

vars == <<has_api_logs, exited, written, got, put, reader, queue, printed, num_running, loop>>

Line(from, to) == [kind |-> "line", from |-> from, to |-> to]
Item(kind) == [kind |-> kind, from |-> 0, to |-> 0]
Items == [kind : {"line", "warning", "exit", "stop", "error"},
          from : 0 .. MaxPieces, to : 0 .. MaxPieces]

\* queue.put, unbounded
Put(c, item) == queue' = Append(queue, [of |-> c, item |-> item])

Init ==
    /\ has_api_logs \in SUBSET Containers /\ exited \in SUBSET Containers
    /\ written = [c \in Containers |-> <<>>]
    /\ got = [c \in Containers |-> 0] /\ put = [c \in Containers |-> 0]
    /\ reader = [c \in Containers |-> IF c \in has_api_logs THEN "stream" ELSE "warning"]
    /\ queue = <<>> /\ printed = [c \in Containers |-> <<>>]
    /\ num_running = Cardinality(Containers)
    /\ loop = "on"

(***************************************************************************)
(* The containers                                                          *)
(***************************************************************************)
\* what Docker cannot read does not matter here
write(c) ==
    /\ c \in has_api_logs \ exited /\ Len(written[c]) < MaxPieces
    /\ \E ends \in BOOLEAN : written' = [written EXCEPT ![c] = Append(@, ends)]
    /\ UNCHANGED <<has_api_logs, exited, got, put, reader, queue, printed, num_running, loop>>

exit(c) ==
    /\ c \notin exited /\ exited' = exited \cup {c}
    /\ UNCHANGED <<has_api_logs, written, got, put, reader, queue, printed, num_running, loop>>

(***************************************************************************)
(* The readers                                                             *)
(***************************************************************************)
Reads(c, from, to) ==
    /\ reader[c] = from /\ reader' = [reader EXCEPT ![c] = to]
    /\ UNCHANGED <<has_api_logs, exited, written, printed, num_running, loop>>

\* the ends of lines in what is buffered
Ends(c) == {k \in put[c] + 1 .. got[c] : written[c][k]}

\* split_buffer: the stream gives more, once there is no whole line left
more_data(c) ==
    /\ Reads(c, "stream", "stream")
    /\ Ends(c) = {}
    /\ \E n \in got[c] + 1 .. Len(written[c]) : got' = [got EXCEPT ![c] = n]
    /\ UNCHANGED <<put, queue>>

\* Mutant: all that is buffered goes out with the line.
put_line_mutant(c) ==
    /\ Reads(c, "stream", "stream")
    /\ Ends(c) # {}
    /\ put' = [put EXCEPT ![c] = got[c]]
    /\ Put(c, Line(put[c] + 1, got[c]))
    /\ UNCHANGED got

put_line(c) ==
    /\ Reads(c, "stream", "stream")
    /\ \E k \in Ends(c) :
          /\ \A l \in Ends(c) : k <= l
          /\ put' = [put EXCEPT ![c] = k]
          /\ Put(c, Line(put[c] + 1, k))
    /\ UNCHANGED got

\* Mutant: a last line that does not end is forgotten.
end_of_stream_mutant(c) ==
    /\ Reads(c, "stream", "wait")
    /\ c \in exited /\ got[c] = Len(written[c]) /\ Ends(c) = {}
    /\ UNCHANGED <<got, put, queue>>

end_of_stream(c) ==
    /\ Reads(c, "stream", "wait")
    /\ c \in exited /\ got[c] = Len(written[c]) /\ Ends(c) = {}
    /\ put' = [put EXCEPT ![c] = got[c]]
    /\ IF put[c] < got[c] THEN Put(c, Line(put[c] + 1, got[c])) ELSE UNCHANGED queue
    /\ UNCHANGED got

\* build_no_log_generator
warn(c) ==
    /\ Reads(c, "warning", "wait")
    /\ Put(c, Item("warning"))
    /\ UNCHANGED <<got, put>>

wait_on_exit(c) ==
    /\ Reads(c, "wait", "stop")
    /\ c \in exited
    /\ Put(c, Item("exit"))
    /\ UNCHANGED <<got, put>>

put_stop(c) ==
    /\ Reads(c, "stop", "done")
    /\ Put(c, Item("stop"))
    /\ UNCHANGED <<got, put>>

\* Mutant: the thread dies of the exception.
put_error_mutant(c) ==
    /\ Faults
    /\ reader[c] \in {"stream", "wait"} /\ reader' = [reader EXCEPT ![c] = "done"]
    /\ UNCHANGED <<has_api_logs, exited, written, got, put, queue, printed, num_running, loop>>

\* attach, the stream or wait raises
put_error(c) ==
    /\ Faults
    /\ reader[c] \in {"stream", "wait"} /\ reader' = [reader EXCEPT ![c] = "done"]
    /\ Put(c, Item("error"))
    /\ UNCHANGED <<has_api_logs, exited, written, got, put, printed, num_running, loop>>

(***************************************************************************)
(* The loop                                                                *)
(***************************************************************************)
Shown(c, item) == printed' = [printed EXCEPT ![c] = Append(@, item)]

\* Mutant: the first reader that stops ends the loop.
next_item_mutant ==
    LET c == Head(queue).of
        item == Head(queue).item
    IN
    /\ num_running > 0 /\ queue # <<>>
    /\ queue' = Tail(queue)
    /\ CASE item.kind = "error" -> loop' = "raised" /\ UNCHANGED <<printed, num_running>>
         [] item.kind = "stop" -> num_running' = 0 /\ UNCHANGED <<printed, loop>>
         [] OTHER -> Shown(c, item) /\ UNCHANGED <<num_running, loop>>
    /\ UNCHANGED <<has_api_logs, exited, written, got, put, reader>>

next_item ==
    LET c == Head(queue).of
        item == Head(queue).item
    IN
    /\ num_running > 0 /\ queue # <<>>
    /\ queue' = Tail(queue)
    /\ CASE item.kind = "error" -> loop' = "raised" /\ UNCHANGED <<printed, num_running>>
         [] item.kind = "stop" -> /\ num_running' = num_running - 1
                                  /\ UNCHANGED <<printed, loop>>
         [] OTHER -> Shown(c, item) /\ UNCHANGED <<num_running, loop>>
    /\ UNCHANGED <<has_api_logs, exited, written, got, put, reader>>

loop_ends ==
    /\ num_running = 0 /\ loop' = "ended"
    /\ UNCHANGED <<has_api_logs, exited, written, got, put, reader, queue, printed, num_running>>

\* The readers are daemons: nothing goes on when the loop has ended.
Reader(c) == loop = "on" /\ (more_data(c) \/ put_line(c) \/ end_of_stream(c)
                             \/ warn(c) \/ wait_on_exit(c) \/ put_stop(c))
Loop == loop = "on" /\ (next_item \/ loop_ends)

Next ==
    \/ \E c \in Containers : Reader(c) \/ (loop = "on" /\ put_error(c))
    \/ \E c \in Containers : loop = "on" /\ (write(c) \/ exit(c))
    \/ Loop
    \/ (loop # "on" /\ UNCHANGED vars)

Spec == Init /\ [][Next]_vars

\* threads that nothing holds up; containers need not exit
FairSpec == Spec /\ WF_vars(Loop) /\ \A c \in Containers : WF_vars(Reader(c))

(***************************************************************************)
(* Properties                                                              *)
(***************************************************************************)
\* Every variable has its type; num_running counts the readers whose STOP or
\* exception the loop has not taken.
TypeOK ==
    /\ has_api_logs \subseteq Containers /\ exited \subseteq Containers
    /\ \A c \in Containers :
          /\ put[c] <= got[c] /\ got[c] <= Len(written[c])
          /\ reader[c] \in {"stream", "warning", "wait", "stop", "done"}
          /\ \A i \in DOMAIN printed[c] : printed[c][i] \in Items
    /\ \A i \in DOMAIN queue : queue[i].of \in Containers /\ queue[i].item \in Items
    /\ loop # "raised" => num_running = Cardinality(
          {c \in Containers : reader[c] # "done" \/ \E i \in DOMAIN queue :
              queue[i].of = c /\ queue[i].item.kind \in {"stop", "error"}})
    /\ loop \in {"on", "ended", "raised"}

\* How far what is printed of a container gets with its item i.
UpTo(c, i) == IF i = 0 THEN 0 ELSE printed[c][i].to

\* However the readers take turns and the streams are cut into chunks, the
\* lines of a container are printed once, in order and one at a time: what is
\* printed goes on where the last one ended, has no end of line within it, and
\* ends with one unless it is the last line.
PrintedInOrder ==
    \A c \in Containers : \A i \in DOMAIN printed[c] :
       LET line == printed[c][i] IN
       line.kind = "line" =>
          /\ line.from = UpTo(c, i - 1) + 1 /\ line.from <= line.to
          /\ i > 1 => printed[c][i - 1].kind = "line"
          /\ \A k \in line.from .. line.to - 1 : ~written[c][k]
          /\ ~written[c][line.to] => c \in exited /\ line.to = Len(written[c])

\* A container's exit is printed last and only once it has exited and all it
\* wrote is printed; the loop ends by itself only when this is so for every
\* container, and no reader's exception overtakes the lines it put before.
NothingLost ==
    /\ \A c \in Containers : \A i \in DOMAIN printed[c] :
          printed[c][i].kind = "exit" =>
             /\ c \in exited /\ i = Len(printed[c])
             /\ IF c \in has_api_logs THEN UpTo(c, i - 1) = Len(written[c])
                ELSE printed[c][1] = Item("warning")
    /\ loop = "ended" => \A c \in Containers :
          printed[c] # <<>> /\ printed[c][Len(printed[c])] = Item("exit")
    /\ loop = "raised" => \E c \in Containers :
          /\ reader[c] = "done"
          /\ \A i \in DOMAIN queue : queue[i].of # c
          /\ put[c] > 0 => UpTo(c, Len(printed[c])) = put[c]

\* When the containers have exited the loop ends, whichever readers fail.
LoopEnds == exited = Containers ~> loop # "on"
=============================================================================
