-------------------------- MODULE MultiplexerProofs --------------------------
(***************************************************************************)
(* Multiplexer prints the lines of every container in order and loses none *)
(* of them, for any finite number of containers and any number of pieces   *)
(* they write, and whichever readers fail.                                 *)
(*                                                                         *)
(* The items of one reader lie in two places, in what is printed of its    *)
(* container and among those of the others on the queue, and no invariant  *)
(* needs to put them together again: it is enough to say of any two of     *)
(* them which was put first (Order), that every piece that was put is in a *)
(* line of either place (Covered), and what each item is worth where its   *)
(* reader is now (ItemOK).  That a line goes on where the last one ended   *)
(* follows: the piece before it is in some line, and that line can be no   *)
(* other.                                                                  *)
(***************************************************************************)
EXTENDS Multiplexer, FiniteSetTheorems, TLAPS

\* the types, with that of every item
MTyped ==
    /\ has_api_logs \subseteq Containers /\ exited \subseteq Containers
    /\ written \in [Containers -> Seq(BOOLEAN)]
    /\ got \in [Containers -> Nat] /\ put \in [Containers -> Nat]
    /\ reader \in [Containers -> {"stream", "warning", "wait", "stop", "done"}]
    /\ queue \in Seq([of : Containers, item : Items])
    /\ printed \in [Containers -> Seq(Items)]
    /\ loop \in {"on", "ended", "raised"}
    /\ \A c \in Containers :
          put[c] <= got[c] /\ got[c] <= Len(written[c]) /\ Len(written[c]) <= MaxPieces

\* where the reader is, and what it has put by then
ReaderOK(c) ==
    /\ c \in has_api_logs => reader[c] # "warning"
    /\ c \notin has_api_logs => reader[c] # "stream" /\ Len(written[c]) = 0
    /\ c \in has_api_logs /\ reader[c] \in {"wait", "stop"} =>
          c \in exited /\ put[c] = Len(written[c])

\* a line holds no end of line but its last piece, or is the last of all
IsLine(c, a) ==
    /\ c \in has_api_logs
    /\ 1 <= a.from /\ a.from <= a.to /\ a.to <= put[c]
    /\ \A k \in a.from .. a.to - 1 : ~written[c][k]
    /\ ~written[c][a.to] => c \in exited /\ a.to = Len(written[c])

\* the kinds of items a reader has put when it is there
PutBy(where) ==
    CASE where = "warning" -> {}
      [] where = "stream" -> {"line"}
      [] where = "wait" -> {"line", "warning"}
      [] where = "stop" -> {"line", "warning", "exit"}
      [] where = "done" -> {"line", "warning", "exit", "stop", "error"}

\* an item is what its reader can have put by now
ItemOK(c, a) ==
    /\ a.kind \in PutBy(reader[c])
    /\ a.kind = "line" => IsLine(c, a)
    /\ a.kind # "line" => a = Item(a.kind)
    /\ a.kind = "warning" => c \notin has_api_logs
    /\ a.kind = "exit" => c \in exited /\ put[c] = Len(written[c])

\* the order in which a reader puts two of its items
Before(a, b) ==
    \/ a.kind = "line" /\ b.kind = "line" /\ a.to < b.from
    \/ a.kind \in {"line", "warning"} /\ b.kind \in {"exit", "stop", "error"}
    \/ a.kind = "exit" /\ b.kind = "stop"

\* where an item of c is
Queued(c, a) == \E i \in DOMAIN queue : queue[i].of = c /\ queue[i].item = a
Printed(c, a) == \E i \in DOMAIN printed[c] : printed[c][i] = a
Has(c, a) == Queued(c, a) \/ Printed(c, a)

Order ==
    /\ \A i, j \in DOMAIN queue :
          i < j /\ queue[i].of = queue[j].of => Before(queue[i].item, queue[j].item)
    /\ \A c \in Containers :
          /\ \A i, j \in DOMAIN printed[c] : i < j => Before(printed[c][i], printed[c][j])
          /\ \A a, b \in Items : Printed(c, a) /\ Queued(c, b) => Before(a, b)
          /\ \A a \in Items : Printed(c, a) => a.kind \in {"line", "warning", "exit"}

\* every piece that was put is in a line that is printed or will be
Covered(c) ==
    \A k \in 1 .. put[c] : \E a \in Items :
       Has(c, a) /\ a.kind = "line" /\ a.from <= k /\ k <= a.to

\* a reader does not get anywhere without saying so
Announced(c) ==
    /\ c \notin has_api_logs /\ reader[c] # "warning" => Has(c, Item("warning"))
    /\ reader[c] = "stop" => Has(c, Item("exit"))
    /\ reader[c] = "done" /\ loop # "raised" =>
          Has(c, Item("exit")) \/ Queued(c, Item("error"))
    /\ Queued(c, Item("exit")) => reader[c] = "stop" \/ Queued(c, Item("stop"))

\* the readers whose STOP or exception the loop has not taken
Waiting ==
    {c \in Containers : reader[c] # "done" \/ \E i \in DOMAIN queue :
        queue[i].of = c /\ queue[i].item.kind \in {"stop", "error"}}

\* the promises of NothingLost about the end of the loop
RaisedOK == loop = "raised" => \E c \in Containers :
    /\ reader[c] = "done"
    /\ \A i \in DOMAIN queue : queue[i].of # c
    /\ put[c] > 0 => UpTo(c, Len(printed[c])) = put[c]

EndedOK == loop = "ended" => \A c \in Containers :
    printed[c] # <<>> /\ printed[c][Len(printed[c])] = Item("exit")

MInv ==
    /\ MTyped
    /\ \A c \in Containers : ReaderOK(c) /\ Covered(c) /\ Announced(c)
    /\ \A c \in Containers, a \in Items : Has(c, a) => ItemOK(c, a)
    /\ Order
    /\ loop # "raised" => num_running = Cardinality(Waiting)
    /\ RaisedOK /\ EndedOK

(***************************************************************************)
(* Items and the queue                                                     *)
(***************************************************************************)
\* Items are made of a kind and two numbers of pieces.
LEMMA ItemsAre ==
    /\ MaxPieces \in Nat
    /\ \A k \in {"line", "warning", "exit", "stop", "error"} : Item(k) \in Items
    /\ \A a \in Items : /\ a.kind \in {"line", "warning", "exit", "stop", "error"}
                        /\ a.from \in Nat /\ a.to \in Nat
    /\ \A f, t \in 0 .. MaxPieces : Line(f, t) \in Items
BY MaxPiecesAssumption DEF Items, Item, Line

\* The places of a sequence when an element comes to its end, or its first goes.
LEMMA AppendIs ==
    ASSUME NEW S, NEW s \in Seq(S), NEW x \in S
    PROVE  /\ Append(s, x) \in Seq(S) /\ Len(s) \in Nat
           /\ Len(Append(s, x)) = Len(s) + 1
           /\ DOMAIN s = 1 .. Len(s)
           /\ DOMAIN Append(s, x) = 1 .. Len(s) + 1
           /\ \A i \in DOMAIN s : i \in DOMAIN Append(s, x) /\ Append(s, x)[i] = s[i]
           /\ Append(s, x)[Len(s) + 1] = x
           /\ \A i \in DOMAIN Append(s, x) : i \in DOMAIN s \/ i = Len(s) + 1
           /\ \A i \in DOMAIN s : i < Len(s) + 1
OBVIOUS

LEMMA TailIs ==
    ASSUME NEW S, NEW s \in Seq(S), s # <<>>
    PROVE  /\ Tail(s) \in Seq(S) /\ Head(s) = s[1] /\ s[1] \in S
           /\ 1 \in DOMAIN s /\ DOMAIN s \subseteq Nat
           /\ \A i \in DOMAIN Tail(s) : /\ i + 1 \in DOMAIN s /\ Tail(s)[i] = s[i + 1]
                                        /\ i \in Nat /\ 1 < i + 1
           /\ \A i \in DOMAIN s : i = 1 \/ \E j \in DOMAIN Tail(s) : i = j + 1
<1>1. /\ Len(s) \in Nat /\ Len(s) > 0 /\ DOMAIN s = 1 .. Len(s)
      /\ DOMAIN Tail(s) = 1 .. Len(s) - 1
      /\ \A i \in 1 .. Len(s) - 1 : Tail(s)[i] = s[i + 1]
      /\ Tail(s) \in Seq(S) /\ Head(s) = s[1]
  OBVIOUS
<1>2. 1 \in DOMAIN s /\ s[1] \in S /\ DOMAIN s \subseteq Nat
  BY <1>1
<1>3. \A i \in DOMAIN Tail(s) : /\ i + 1 \in DOMAIN s /\ Tail(s)[i] = s[i + 1]
                                /\ i \in Nat /\ 1 < i + 1
  BY <1>1
<1>4. \A i \in DOMAIN s : i = 1 \/ \E j \in DOMAIN Tail(s) : i = j + 1
  <2> SUFFICES ASSUME NEW i \in DOMAIN s, i # 1 PROVE \E j \in DOMAIN Tail(s) : i = j + 1
    OBVIOUS
  <2>1. i - 1 \in DOMAIN Tail(s) /\ i = (i - 1) + 1
    BY <1>1
  <2> QED BY <2>1
<1> QED BY <1>1, <1>2, <1>3, <1>4

\* what the queue holds
Packet(c, item) == [of |-> c, item |-> item]
Packets == [of : Containers, item : Items]

LEMMA PacketIs ==
    ASSUME NEW c \in Containers, NEW a \in Items
    PROVE  Packet(c, a) \in Packets /\ Packet(c, a).of = c /\ Packet(c, a).item = a
BY DEF Packet, Packets

\* What is on the queue after an item was put on it.
LEMMA PutHas ==
    ASSUME MTyped, NEW c \in Containers, NEW item \in Items, Put(c, item)
    PROVE  /\ queue' \in Seq(Packets)
           /\ \A d \in Containers, a \in Items :
                 Queued(d, a)' <=> Queued(d, a) \/ (d = c /\ a = item)
<1>1. queue \in Seq(Packets) /\ queue' = Append(queue, Packet(c, item))
  BY DEF MTyped, Put, Packet, Packets
<1>2. /\ Packet(c, item) \in Packets
      /\ Packet(c, item).of = c /\ Packet(c, item).item = item
  BY PacketIs
<1>3. /\ queue' \in Seq(Packets) /\ Len(queue) + 1 \in DOMAIN queue'
      /\ \A i \in DOMAIN queue : i \in DOMAIN queue' /\ queue'[i] = queue[i]
      /\ queue'[Len(queue) + 1] = Packet(c, item)
      /\ \A i \in DOMAIN queue' : i \in DOMAIN queue \/ i = Len(queue) + 1
  BY <1>1, <1>2, AppendIs
<1>4. ASSUME NEW d \in Containers, NEW a \in Items
      PROVE  Queued(d, a)' <=> Queued(d, a) \/ (d = c /\ a = item)
  BY <1>2, <1>3 DEF Queued
<1> QED BY <1>3, <1>4

\* What is on the queue after the loop took its head.
LEMMA TakeHas ==
    ASSUME MTyped, queue # <<>>, queue' = Tail(queue)
    PROVE  /\ queue' \in Seq(Packets) /\ Head(queue) \in Packets
           /\ Head(queue) = queue[1] /\ 1 \in DOMAIN queue
           /\ \A d \in Containers, a \in Items :
                 Queued(d, a) <=> Queued(d, a)' \/ (d = Head(queue).of /\ a = Head(queue).item)
<1>1. queue \in Seq(Packets)
  BY DEF MTyped, Packets
<1>2. /\ queue' \in Seq(Packets) /\ Head(queue) = queue[1] /\ queue[1] \in Packets
      /\ 1 \in DOMAIN queue
      /\ \A i \in DOMAIN queue' : i + 1 \in DOMAIN queue /\ queue'[i] = queue[i + 1]
      /\ \A i \in DOMAIN queue : i = 1 \/ \E j \in DOMAIN queue' : i = j + 1
  BY <1>1, TailIs
<1>3. ASSUME NEW d \in Containers, NEW a \in Items
      PROVE  Queued(d, a) <=> Queued(d, a)' \/ (d = Head(queue).of /\ a = Head(queue).item)
  BY <1>2 DEF Queued
<1> QED BY <1>2, <1>3

LEMMA QueuedItems ==
    ASSUME MTyped, NEW i \in DOMAIN queue
    PROVE  /\ queue[i].of \in Containers /\ queue[i].item \in Items
           /\ Queued(queue[i].of, queue[i].item)
<1>1. queue \in Seq(Packets)
  BY DEF MTyped, Packets
<1>2. queue[i] \in Packets
  BY <1>1
<1> QED BY <1>2 DEF Packets, Queued

\* Whom the loop still waits for, in terms of what is on the queue.
WaitsFor(c) == reader[c] # "done" \/ \E a \in Items : Queued(c, a) /\ a.kind \in {"stop", "error"}
WaitingKnown == \A c \in Containers : c \in Waiting <=> WaitsFor(c)
LEMMA WaitingIs == MTyped => WaitingKnown
<1> SUFFICES ASSUME MTyped, NEW c \in Containers
             PROVE  (\E i \in DOMAIN queue :
                        queue[i].of = c /\ queue[i].item.kind \in {"stop", "error"})
                    <=> \E a \in Items : Queued(c, a) /\ a.kind \in {"stop", "error"}
  BY DEF Waiting, WaitsFor, WaitingKnown
<1> QED BY QueuedItems DEF Queued

(***************************************************************************)
(* A step of a reader                                                      *)
(***************************************************************************)
\* What is left alone when the reader of c takes a step.
Steady(c) ==
    /\ UNCHANGED <<has_api_logs, exited, written, printed, num_running, loop>>
    /\ \A d \in Containers \ {c} : reader'[d] = reader[d] /\ put'[d] = put[d]

\* The order, when every item of c comes before the one that is put.
LEMMA OrderAfterPut ==
    ASSUME MTyped, Order, NEW c \in Containers, NEW item \in Items, Put(c, item),
           UNCHANGED printed, \A a \in Items : Has(c, a) => Before(a, item)
    PROVE  Order'
<1>1. queue \in Seq(Packets) /\ queue' = Append(queue, Packet(c, item))
  BY DEF MTyped, Put, Packet, Packets
<1>2. /\ Packet(c, item) \in Packets
      /\ Packet(c, item).of = c /\ Packet(c, item).item = item
  BY PacketIs
<1>3. /\ Len(queue) \in Nat /\ DOMAIN queue = 1 .. Len(queue)
      /\ \A i \in DOMAIN queue : queue'[i] = queue[i]
      /\ queue'[Len(queue) + 1] = Packet(c, item)
      /\ \A i \in DOMAIN queue' : i \in DOMAIN queue \/ i = Len(queue) + 1
  BY <1>1, <1>2, AppendIs
<1>4. ASSUME NEW i \in DOMAIN queue', NEW j \in DOMAIN queue', i < j,
             queue'[i].of = queue'[j].of
      PROVE  Before(queue'[i].item, queue'[j].item)
  <2>1. i \in DOMAIN queue
    BY <1>3, <1>4
  <2>2. CASE j \in DOMAIN queue
    BY <1>3, <1>4, <2>1, <2>2 DEF Order
  <2>3. CASE j = Len(queue) + 1
    BY <1>2, <1>3, <1>4, <2>1, <2>3, QueuedItems DEF Has
  <2> QED BY <1>3, <2>2, <2>3
<1>5. ASSUME NEW d \in Containers, NEW a \in Items, NEW b \in Items,
             Printed(d, a), Queued(d, b)'
      PROVE  Before(a, b)
  <2>1. Queued(d, b) \/ (d = c /\ b = item)
    BY <1>5, PutHas
  <2> QED BY <1>5, <2>1 DEF Order, Has
<1>6. \A d \in Containers, a \in Items : Printed(d, a)' <=> Printed(d, a)
  BY DEF Printed
<1>7. \A d \in Containers : DOMAIN printed'[d] = DOMAIN printed[d] /\ printed'[d] = printed[d]
  OBVIOUS
<1> QED BY <1>4, <1>5, <1>6, <1>7 DEF Order, Before

LEMMA InvOf ==
    ASSUME MInv
    PROVE  /\ MTyped /\ Order
           /\ \A c \in Containers : ReaderOK(c) /\ Covered(c) /\ Announced(c)
           /\ \A c \in Containers, a \in Items : Has(c, a) => ItemOK(c, a)
BY DEF MInv

\* The invariant after a step of the reader of c, from what it says of c.
LEMMA ReaderKeeps ==
    ASSUME MInv, NEW c \in Containers, Steady(c), loop = "on", MTyped', Order',
           \A d \in Containers, a \in Items :
              /\ Has(d, a) => Has(d, a)'
              /\ Has(d, a)' => Has(d, a) \/ (d = c /\ ItemOK(c, a)')
              /\ d # c => (Queued(d, a)' <=> Queued(d, a)),
           put[c] <= put'[c], put'[c] # put[c] => reader[c] = "stream",
           PutBy(reader[c]) \subseteq PutBy(reader'[c]),
           ReaderOK(c)', Covered(c)', Announced(c)', Waiting' = Waiting
    PROVE  MInv'
<1>1. /\ \A d \in Containers : ReaderOK(d) /\ Covered(d) /\ Announced(d)
      /\ \A d \in Containers, a \in Items : Has(d, a) => ItemOK(d, a)
  BY InvOf
<1>2. ASSUME NEW d \in Containers, d # c
      PROVE  ReaderOK(d)' /\ Covered(d)' /\ Announced(d)'
  <2>1. reader'[d] = reader[d] /\ put'[d] = put[d] /\ written'[d] = written[d]
        /\ exited' = exited /\ has_api_logs' = has_api_logs /\ loop' = loop
    BY <1>2 DEF Steady
  <2>2. \A a \in Items : /\ Has(d, a) => Has(d, a)'
                         /\ Queued(d, a)' <=> Queued(d, a)
    BY <1>2
  <2>3. ReaderOK(d)'
    BY <1>1, <2>1 DEF ReaderOK
  <2>4. Covered(d)'
    BY <1>1, <2>1, <2>2 DEF Covered
  <2>5. Announced(d)'
    BY <1>1, <2>1, <2>2, ItemsAre DEF Announced
  <2> QED BY <2>3, <2>4, <2>5
<1>3. ASSUME NEW d \in Containers, NEW a \in Items, Has(d, a)'
      PROVE  ItemOK(d, a)'
  <2>1. CASE d # c
    <3>1. Has(d, a)
      BY <1>3, <2>1
    <3>2. ItemOK(d, a)
      BY <1>1, <3>1
    <3>3. reader'[d] = reader[d] /\ put'[d] = put[d] /\ written'[d] = written[d]
          /\ exited' = exited /\ has_api_logs' = has_api_logs
      BY <2>1 DEF Steady
    <3> QED BY <3>2, <3>3 DEF ItemOK, IsLine
  <2>2. CASE d = c /\ Has(c, a)
    <3>1. ItemOK(c, a)
      BY <1>1, <2>2
    <3>2. written'[c] = written[c] /\ exited' = exited /\ has_api_logs' = has_api_logs
      BY DEF Steady
    <3>3. a.kind \in PutBy(reader'[c])
      BY <3>1 DEF ItemOK
    <3>4. a.kind = "line" => IsLine(c, a)'
      <4>1. put[c] \in Nat /\ put'[c] \in Nat /\ a.to \in Nat
        BY InvOf, ItemsAre DEF MTyped
      <4> QED BY <3>1, <3>2, <4>1 DEF ItemOK, IsLine
    <3>5. a.kind = "exit" => c \in exited' /\ put'[c] = Len(written'[c])
      <4>1. a.kind = "exit" => reader[c] # "stream"
        BY <3>1 DEF ItemOK, PutBy
      <4> QED BY <3>1, <3>2, <4>1 DEF ItemOK
    <3>6. /\ a.kind # "line" => a = Item(a.kind)
          /\ a.kind = "warning" => c \notin has_api_logs'
      BY <3>1, <3>2 DEF ItemOK
    <3> QED BY <2>2, <3>3, <3>4, <3>5, <3>6 DEF ItemOK, Item
  <2> QED BY <1>3, <2>1, <2>2
<1>4. (loop # "raised" => num_running = Cardinality(Waiting))'
  BY DEF MInv, Steady
<1>5. RaisedOK' /\ EndedOK'
  BY DEF Steady, RaisedOK, EndedOK
<1>6. \A d \in Containers : ReaderOK(d)' /\ Covered(d)' /\ Announced(d)'
  BY <1>2
<1> QED BY <1>3, <1>4, <1>5, <1>6 DEF MInv

\* A reader puts an item.
LEMMA PutKeeps ==
    ASSUME MInv, NEW c \in Containers, Steady(c), loop = "on",
           NEW item \in Items, Put(c, item),
           MTyped', \A a \in Items : Has(c, a) => Before(a, item),
           ItemOK(c, item)',
           put[c] <= put'[c], put'[c] # put[c] => reader[c] = "stream",
           PutBy(reader[c]) \subseteq PutBy(reader'[c]),
           ReaderOK(c)', Covered(c)', Announced(c)',
           reader[c] # "done",
           reader'[c] # "done" \/ item.kind \in {"stop", "error"}
    PROVE  MInv'
<1>1. MTyped /\ Order /\ UNCHANGED printed
  BY InvOf DEF Steady
<1>2. Order'
  BY <1>1, OrderAfterPut
<1>3. \A d \in Containers, a \in Items :
         /\ Queued(d, a)' <=> Queued(d, a) \/ (d = c /\ a = item)
         /\ Printed(d, a)' <=> Printed(d, a)
  BY <1>1, PutHas DEF Printed
<1>4. \A d \in Containers, a \in Items :
         /\ Has(d, a) => Has(d, a)'
         /\ Has(d, a)' => Has(d, a) \/ (d = c /\ ItemOK(c, a)')
         /\ d # c => (Queued(d, a)' <=> Queued(d, a))
  BY <1>3 DEF Has
<1>5. Waiting' = Waiting
  <2>1. (MTyped => WaitingKnown)'
    BY WaitingIs, PTL
  <2>2. /\ \A d \in Containers : d \in Waiting <=> WaitsFor(d)
        /\ \A d \in Containers : d \in Waiting' <=> WaitsFor(d)'
    BY <1>1, <2>1, WaitingIs DEF WaitingKnown
  <2>3. \A d \in Containers : d # c => (d \in Waiting' <=> d \in Waiting)
    BY <1>3, <2>2 DEF Steady, WaitsFor
  <2>4. c \in Waiting' /\ c \in Waiting
    BY <1>3, <2>2 DEF WaitsFor
  <2>5. Waiting \subseteq Containers /\ Waiting' \subseteq Containers
    BY DEF Waiting
  <2> QED BY <2>3, <2>4, <2>5
<1> QED BY <1>2, <1>4, <1>5, ReaderKeeps

\* A reader puts nothing.
LEMMA NoPutKeeps ==
    ASSUME MInv, NEW c \in Containers, Steady(c), loop = "on", UNCHANGED <<queue, put>>,
           MTyped', PutBy(reader[c]) \subseteq PutBy(reader'[c]),
           ReaderOK(c)', Announced(c)',
           reader[c] # "done", reader'[c] # "done"
    PROVE  MInv'
<1>1. MTyped /\ Order /\ UNCHANGED printed /\ Covered(c)
  BY InvOf DEF Steady
<1>2. Order'
  BY <1>1 DEF Order, Printed, Queued, Before
<1>3. \A d \in Containers, a \in Items :
         /\ Queued(d, a)' <=> Queued(d, a)
         /\ Has(d, a)' <=> Has(d, a)
  BY <1>1 DEF Printed, Queued, Has
<1>4. Covered(c)'
  BY <1>1, <1>3 DEF Covered
<1>5. Waiting' = Waiting
  <2>1. \A d \in Containers : (reader'[d] # "done") <=> (reader[d] # "done")
    BY DEF Steady
  <2> QED BY <2>1 DEF Waiting
<1>6. put[c] <= put'[c] /\ put'[c] = put[c]
  BY <1>1 DEF MTyped
<1> QED BY <1>2, <1>3, <1>4, <1>5, <1>6, ReaderKeeps

\* A step of the reader's own, in the terms of the lemmas above.
LEMMA ReadsIs ==
    ASSUME MTyped, NEW c \in Containers, NEW from,
           NEW to \in {"stream", "warning", "wait", "stop", "done"}, Reads(c, from, to)
    PROVE  /\ reader[c] = from /\ reader'[c] = to
           /\ \A d \in Containers \ {c} : reader'[d] = reader[d]
           /\ reader' \in [Containers -> {"stream", "warning", "wait", "stop", "done"}]
           /\ UNCHANGED <<has_api_logs, exited, written, printed, num_running, loop>>
BY DEF MTyped, Reads

\* The steps of the readers, one by one.
LEMMA MoreDataKeeps ==
    ASSUME MInv, NEW c \in Containers, loop = "on", more_data(c) PROVE MInv'
<1>1. MTyped /\ ReaderOK(c) /\ Announced(c)
  BY InvOf
<1>2. /\ reader[c] = "stream" /\ reader'[c] = "stream"
      /\ \A d \in Containers \ {c} : reader'[d] = reader[d]
      /\ reader' \in [Containers -> {"stream", "warning", "wait", "stop", "done"}]
      /\ UNCHANGED <<has_api_logs, exited, written, printed, num_running, loop>>
      /\ UNCHANGED <<queue, put>>
  BY <1>1, ReadsIs DEF more_data
<1>3. PICK n \in got[c] + 1 .. Len(written[c]) : got' = [got EXCEPT ![c] = n]
  BY DEF more_data
<1>4. got[c] \in Nat /\ put[c] \in Nat /\ Len(written[c]) \in Nat /\ put[c] <= got[c]
  BY <1>1 DEF MTyped
<1>5. n \in Nat /\ put[c] <= n /\ n <= Len(written[c])
  BY <1>3, <1>4
<1>6. MTyped'
  <2>1. got' \in [Containers -> Nat]
    BY <1>1, <1>3, <1>5 DEF MTyped
  <2>2. \A d \in Containers : put'[d] <= got'[d] /\ got'[d] <= Len(written'[d])
    BY <1>1, <1>2, <1>3, <1>5 DEF MTyped
  <2> QED BY <1>1, <1>2, <2>1, <2>2 DEF MTyped
<1>7. Steady(c)
  BY <1>2 DEF Steady
<1>8. ReaderOK(c)' /\ Announced(c)'
  <2>1. Queued(c, Item("exit"))' <=> Queued(c, Item("exit"))
    BY <1>2 DEF Queued
  <2>2. Queued(c, Item("stop"))' <=> Queued(c, Item("stop"))
    BY <1>2 DEF Queued
  <2>3. ~Queued(c, Item("exit"))
    BY <1>1, <1>2, InvOf, ItemsAre DEF ItemOK, PutBy, Has, Item
  <2> QED BY <1>1, <1>2, <2>1, <2>2, <2>3 DEF ReaderOK, Announced
<1> QED BY <1>2, <1>6, <1>7, <1>8, NoPutKeeps

\* A line goes out: the pieces after the last one, up to the first end of line
\* or to the last piece of all.
LEMMA LineKeeps ==
    ASSUME MInv, NEW c \in Containers, loop = "on", Steady(c), UNCHANGED got,
           reader[c] = "stream", reader' \in [Containers -> {"stream", "warning", "wait", "stop", "done"}],
           NEW k \in put[c] + 1 .. got[c], put' = [put EXCEPT ![c] = k],
           Put(c, Line(put[c] + 1, k)),
           \A l \in put[c] + 1 .. k - 1 : ~written[c][l],
           \/ reader'[c] = "stream" /\ written[c][k]
           \/ reader'[c] = "wait" /\ c \in exited /\ k = Len(written[c])
    PROVE  MInv'
<1>1. MTyped /\ ReaderOK(c) /\ Announced(c) /\ Covered(c)
  BY InvOf
<1>2. /\ got[c] \in Nat /\ put[c] \in Nat /\ Len(written[c]) \in Nat /\ MaxPieces \in Nat
      /\ put[c] <= got[c] /\ got[c] <= Len(written[c]) /\ Len(written[c]) <= MaxPieces
  BY <1>1, ItemsAre DEF MTyped
<1>3. k \in Nat /\ put[c] + 1 <= k /\ k <= got[c] /\ k <= MaxPieces /\ put[c] + 1 \in Nat
  BY <1>2
<1>4. PICK item \in Items : /\ item = Line(put[c] + 1, k) /\ item.kind = "line"
                            /\ item.from = put[c] + 1 /\ item.to = k
  BY <1>2, <1>3, ItemsAre DEF Line
<1>5. Put(c, item)
  BY <1>4
<1>6. /\ put' \in [Containers -> Nat] /\ put'[c] = k
      /\ \A d \in Containers \ {c} : put'[d] = put[d]
  BY <1>1, <1>3 DEF MTyped
<1>7. MTyped'
  <2>1. queue' \in Seq(Packets)
    BY <1>1, <1>4, <1>5, PutHas
  <2>2. \A d \in Containers : put'[d] <= got'[d]
    BY <1>1, <1>3, <1>6 DEF MTyped
  <2> QED BY <1>1, <1>6, <2>1, <2>2 DEF MTyped, Packets, Steady
<1>8. \A a \in Items : Has(c, a) => a.kind = "line" /\ a.to <= put[c]
  BY InvOf DEF ItemOK, PutBy, IsLine
<1>9. \A a \in Items : Has(c, a) => Before(a, item)
  <2> SUFFICES ASSUME NEW a \in Items, Has(c, a) PROVE Before(a, item)
    OBVIOUS
  <2>1. a.kind = "line" /\ a.to <= put[c] /\ a.to \in Nat
    BY <1>8, ItemsAre
  <2>2. a.to < item.from
    BY <1>2, <1>4, <2>1
  <2> QED BY <1>4, <2>1, <2>2 DEF Before
<1>10. c \in has_api_logs /\ reader'[c] \in {"stream", "wait"}
  BY <1>1 DEF ReaderOK
<1>11. ItemOK(c, item)'
  <2>1. item.kind \in PutBy(reader'[c])
    BY <1>4, <1>10 DEF PutBy
  <2>2. IsLine(c, item)'
    <3>1. written'[c] = written[c] /\ exited' = exited /\ has_api_logs' = has_api_logs
      BY DEF Steady
    <3>2. \A l \in item.from .. item.to - 1 : ~written'[c][l]
      BY <1>4, <3>1
    <3>3. ~written'[c][item.to] => c \in exited' /\ item.to = Len(written'[c])
      BY <1>4, <3>1
    <3>4. 1 <= item.from /\ item.from <= item.to /\ item.to <= put'[c]
      BY <1>2, <1>3, <1>4, <1>6
    <3> QED BY <1>10, <3>1, <3>2, <3>3, <3>4 DEF IsLine
  <2> QED BY <1>4, <2>1, <2>2 DEF ItemOK
<1>12. \A a \in Items : /\ Queued(c, a)' <=> Queued(c, a) \/ a = item
                        /\ Has(c, a) \/ a = item => Has(c, a)'
  <2>1. \A a \in Items : Queued(c, a)' <=> Queued(c, a) \/ a = item
    BY <1>1, <1>4, <1>5, PutHas
  <2>2. \A a \in Items : Printed(c, a)' <=> Printed(c, a)
    BY DEF Printed, Steady
  <2> QED BY <2>1, <2>2 DEF Has
<1>13. Covered(c)'
  <2> SUFFICES ASSUME NEW l \in 1 .. k
               PROVE  \E a \in Items : Has(c, a)' /\ a.kind = "line" /\ a.from <= l /\ l <= a.to
    BY <1>6 DEF Covered
  <2>1. CASE l \in 1 .. put[c]
    BY <1>1, <1>12, <2>1 DEF Covered
  <2>2. CASE l \notin 1 .. put[c]
    <3>1. item.from <= l /\ l <= item.to
      BY <1>2, <1>3, <1>4, <2>2
    <3> QED BY <1>4, <1>12, <3>1
  <2> QED BY <2>1, <2>2
<1>14. ReaderOK(c)'
  BY <1>6, <1>10 DEF ReaderOK, Steady
<1>15. Announced(c)'
  <2>1. Item("exit").kind = "exit" /\ Item("exit") \in Items
    BY ItemsAre DEF Item
  <2>2. ~Queued(c, Item("exit"))
    BY <1>8, <2>1 DEF Has
  <2>3. ~Queued(c, Item("exit"))'
    BY <1>4, <1>12, <2>1, <2>2
  <2> QED BY <1>10, <2>3 DEF Announced, Steady
<1>16. PutBy(reader[c]) \subseteq PutBy(reader'[c])
  BY <1>10 DEF PutBy
<1>17. put[c] <= put'[c] /\ reader[c] # "done" /\ reader'[c] # "done"
  BY <1>2, <1>3, <1>6, <1>10
<1> QED BY <1>4, <1>5, <1>7, <1>9, <1>11, <1>13, <1>14, <1>15, <1>16, <1>17, PutKeeps

LEMMA PutLineKeeps ==
    ASSUME MInv, NEW c \in Containers, loop = "on", put_line(c) PROVE MInv'
<1>1. MTyped
  BY InvOf
<1>2. /\ reader[c] = "stream" /\ reader'[c] = "stream"
      /\ \A d \in Containers \ {c} : reader'[d] = reader[d]
      /\ reader' \in [Containers -> {"stream", "warning", "wait", "stop", "done"}]
      /\ UNCHANGED <<has_api_logs, exited, written, printed, num_running, loop>>
      /\ UNCHANGED got
  BY <1>1, ReadsIs DEF put_line
<1>3. PICK k \in Ends(c) : /\ \A l \in Ends(c) : k <= l
                           /\ put' = [put EXCEPT ![c] = k]
                           /\ Put(c, Line(put[c] + 1, k))
  BY DEF put_line
<1>4. got[c] \in Nat /\ put[c] \in Nat
  BY <1>1 DEF MTyped
<1>5. k \in put[c] + 1 .. got[c] /\ written[c][k]
  BY DEF Ends
<1>6. \A l \in put[c] + 1 .. k - 1 : ~written[c][l]
  <2> SUFFICES ASSUME NEW l \in put[c] + 1 .. k - 1, written[c][l] PROVE FALSE
    OBVIOUS
  <2>1. l \in put[c] + 1 .. got[c] /\ l < k
    BY <1>4, <1>5
  <2>2. l \in Ends(c)
    BY <2>1 DEF Ends
  <2> QED BY <1>3, <1>4, <1>5, <2>1, <2>2
<1>7. Steady(c)
  BY <1>1, <1>2, <1>3 DEF Steady, MTyped
<1> QED BY <1>2, <1>3, <1>5, <1>6, <1>7, LineKeeps

LEMMA EndOfStreamKeeps ==
    ASSUME MInv, NEW c \in Containers, loop = "on", end_of_stream(c) PROVE MInv'
<1>1. MTyped /\ Announced(c)
  BY InvOf
<1>2. /\ reader[c] = "stream" /\ reader'[c] = "wait"
      /\ \A d \in Containers \ {c} : reader'[d] = reader[d]
      /\ reader' \in [Containers -> {"stream", "warning", "wait", "stop", "done"}]
      /\ UNCHANGED <<has_api_logs, exited, written, printed, num_running, loop>>
      /\ UNCHANGED got
  BY <1>1, ReadsIs DEF end_of_stream
<1>3. /\ c \in exited /\ got[c] = Len(written[c]) /\ Ends(c) = {}
      /\ put' = [put EXCEPT ![c] = got[c]]
  BY DEF end_of_stream
<1>4. got[c] \in Nat /\ put[c] \in Nat /\ put[c] <= got[c]
  BY <1>1 DEF MTyped
<1>5. Steady(c)
  BY <1>1, <1>2, <1>3 DEF Steady, MTyped
<1>6. CASE put[c] < got[c]
  <2>1. Put(c, Line(put[c] + 1, got[c]))
    BY <1>6 DEF end_of_stream
  <2>2. got[c] \in put[c] + 1 .. got[c]
    BY <1>4, <1>6
  <2>3. \A l \in put[c] + 1 .. got[c] - 1 : ~written[c][l]
    <3> SUFFICES ASSUME NEW l \in put[c] + 1 .. got[c] - 1, written[c][l] PROVE FALSE
      OBVIOUS
    <3>1. l \in put[c] + 1 .. got[c]
      BY <1>4
    <3> QED BY <1>3, <3>1 DEF Ends
  <2>4. PICK k \in put[c] + 1 .. got[c] : k = got[c]
    BY <2>2
  <2>5. /\ put' = [put EXCEPT ![c] = k] /\ Put(c, Line(put[c] + 1, k))
        /\ \A l \in put[c] + 1 .. k - 1 : ~written[c][l]
        /\ k = Len(written[c])
    BY <1>3, <2>1, <2>3, <2>4
  <2> QED BY <1>2, <1>3, <1>5, <2>5, LineKeeps
<1>7. CASE ~(put[c] < got[c])
  <2>1. put[c] = got[c] /\ UNCHANGED <<queue, put>>
    BY <1>1, <1>3, <1>4, <1>7 DEF end_of_stream, MTyped
  <2>2. MTyped'
    BY <1>1, <1>2, <2>1 DEF MTyped
  <2>3. ReaderOK(c)'
    BY <1>2, <1>3, <2>1, InvOf DEF ReaderOK
  <2>4. Announced(c)'
    <3>1. ~Queued(c, Item("exit"))
      BY <1>1, <1>2, InvOf, ItemsAre DEF ItemOK, PutBy, Has, Item
    <3>2. c \in has_api_logs
      BY <1>2, InvOf DEF ReaderOK
    <3> QED BY <1>2, <2>1, <3>1, <3>2 DEF Announced, Queued
  <2>5. PutBy(reader[c]) \subseteq PutBy(reader'[c])
    BY <1>2 DEF PutBy
  <2> QED BY <1>2, <1>5, <2>1, <2>2, <2>3, <2>4, <2>5, NoPutKeeps
<1> QED BY <1>6, <1>7

\* An item that is not a line goes out.
LEMMA ItemKeeps ==
    ASSUME MInv, NEW c \in Containers, loop = "on", Steady(c), UNCHANGED <<got, put>>,
           reader' \in [Containers -> {"stream", "warning", "wait", "stop", "done"}],
           NEW kind \in {"warning", "exit", "stop", "error"}, Put(c, Item(kind)),
           \A a \in Items : Has(c, a) => Before(a, Item(kind)),
           reader[c] # "done", reader'[c] # "done" \/ kind \in {"stop", "error"},
           PutBy(reader[c]) \subseteq PutBy(reader'[c]), kind \in PutBy(reader'[c]),
           kind = "warning" => c \notin has_api_logs,
           kind = "exit" => c \in exited /\ put[c] = Len(written[c]),
           ReaderOK(c)',
           reader[c] = "warning" => kind = "warning",
           reader'[c] = "stop" => kind = "exit",
           kind = "exit" => reader'[c] = "stop",
           reader'[c] = "done" => reader[c] = "stop" \/ kind = "error",
           reader[c] = "stop" => kind = "stop"
    PROVE  MInv'
<1>1. MTyped /\ Announced(c) /\ Covered(c)
  BY InvOf
<1>2. PICK item \in Items : item = Item(kind)
  BY ItemsAre
<1>3. item.kind = kind /\ Put(c, item)
  BY <1>2 DEF Item
<1>4. UNCHANGED <<has_api_logs, exited, written, printed, num_running, loop>>
  BY DEF Steady
<1>5. MTyped'
  <2>1. queue' \in Seq(Packets)
    BY <1>1, <1>3, PutHas
  <2> QED BY <1>1, <1>4, <2>1 DEF MTyped, Packets
<1>6. ItemOK(c, item)'
  BY <1>2, <1>3, <1>4 DEF ItemOK, Item
<1>7. \A a \in Items : /\ Queued(c, a)' <=> Queued(c, a) \/ a = item
                       /\ Has(c, a) \/ a = item => Has(c, a)'
  <2>1. \A a \in Items : Queued(c, a)' <=> Queued(c, a) \/ a = item
    BY <1>1, <1>3, PutHas
  <2>2. \A a \in Items : Printed(c, a)' <=> Printed(c, a)
    BY <1>4 DEF Printed
  <2> QED BY <2>1, <2>2 DEF Has
<1>8. Covered(c)'
  BY <1>1, <1>7 DEF Covered
<1>9. Announced(c)'
  <2>0. /\ Item("warning") \in Items /\ Item("exit") \in Items /\ Item("stop") \in Items
        /\ Item("error") \in Items
        /\ Item("exit").kind = "exit" /\ Item("stop").kind = "stop"
    BY ItemsAre DEF Item
  <2>1. c \notin has_api_logs => Has(c, Item("warning"))'
    BY <1>1, <1>2, <1>7, <2>0 DEF Announced
  <2>2. reader'[c] = "stop" => Has(c, Item("exit"))'
    BY <1>2, <1>7, <2>0
  <2>3. reader'[c] = "done" => Has(c, Item("exit"))' \/ Queued(c, Item("error"))'
    BY <1>1, <1>2, <1>7, <2>0 DEF Announced
  <2>4. Queued(c, Item("exit"))' => reader'[c] = "stop" \/ Queued(c, Item("stop"))'
    BY <1>1, <1>2, <1>3, <1>7, <2>0 DEF Announced
  <2> QED BY <1>4, <2>1, <2>2, <2>3, <2>4 DEF Announced
<1>10. put[c] <= put'[c] /\ put'[c] = put[c]
  BY <1>1 DEF MTyped
<1> QED BY <1>2, <1>3, <1>5, <1>6, <1>8, <1>9, <1>10, PutKeeps

LEMMA WarnKeeps == ASSUME MInv, NEW c \in Containers, loop = "on", warn(c) PROVE MInv'
<1>1. MTyped /\ ReaderOK(c)
  BY InvOf
<1>2. /\ reader[c] = "warning" /\ reader'[c] = "wait"
      /\ \A d \in Containers \ {c} : reader'[d] = reader[d]
      /\ reader' \in [Containers -> {"stream", "warning", "wait", "stop", "done"}]
      /\ UNCHANGED <<has_api_logs, exited, written, printed, num_running, loop>>
      /\ UNCHANGED <<got, put>> /\ Put(c, Item("warning"))
  BY <1>1, ReadsIs DEF warn
<1>3. \A a \in Items : ~Has(c, a)
  BY <1>2, InvOf DEF ItemOK, PutBy
<1>4. Steady(c) /\ c \notin has_api_logs
  BY <1>1, <1>2 DEF Steady, ReaderOK
<1>5. ReaderOK(c)'
  BY <1>1, <1>2, <1>4 DEF ReaderOK
<1>6. PutBy(reader[c]) \subseteq PutBy(reader'[c]) /\ "warning" \in PutBy(reader'[c])
  BY <1>2 DEF PutBy
<1> QED BY <1>2, <1>3, <1>4, <1>5, <1>6, ItemKeeps

LEMMA WaitOnExitKeeps ==
    ASSUME MInv, NEW c \in Containers, loop = "on", wait_on_exit(c) PROVE MInv'
<1>1. MTyped /\ ReaderOK(c)
  BY InvOf
<1>2. /\ reader[c] = "wait" /\ reader'[c] = "stop"
      /\ \A d \in Containers \ {c} : reader'[d] = reader[d]
      /\ reader' \in [Containers -> {"stream", "warning", "wait", "stop", "done"}]
      /\ UNCHANGED <<has_api_logs, exited, written, printed, num_running, loop>>
      /\ UNCHANGED <<got, put>> /\ Put(c, Item("exit")) /\ c \in exited
  BY <1>1, ReadsIs DEF wait_on_exit
<1>3. \A a \in Items : Has(c, a) => a.kind \in {"line", "warning"}
  BY <1>2, InvOf DEF ItemOK, PutBy
<1>4. \A a \in Items : Has(c, a) => Before(a, Item("exit"))
  BY <1>3 DEF Before, Item
<1>5. Steady(c)
  BY <1>2 DEF Steady
<1>6. ReaderOK(c)'
  BY <1>1, <1>2 DEF ReaderOK
<1>7. PutBy(reader[c]) \subseteq PutBy(reader'[c]) /\ "exit" \in PutBy(reader'[c])
  BY <1>2 DEF PutBy
<1>8. put[c] = Len(written[c])
  BY <1>1, <1>2 DEF ReaderOK, MTyped
<1> QED BY <1>2, <1>4, <1>5, <1>6, <1>7, <1>8, ItemKeeps

LEMMA PutStopKeeps ==
    ASSUME MInv, NEW c \in Containers, loop = "on", put_stop(c) PROVE MInv'
<1>1. MTyped /\ ReaderOK(c)
  BY InvOf
<1>2. /\ reader[c] = "stop" /\ reader'[c] = "done"
      /\ \A d \in Containers \ {c} : reader'[d] = reader[d]
      /\ reader' \in [Containers -> {"stream", "warning", "wait", "stop", "done"}]
      /\ UNCHANGED <<has_api_logs, exited, written, printed, num_running, loop>>
      /\ UNCHANGED <<got, put>> /\ Put(c, Item("stop"))
  BY <1>1, ReadsIs DEF put_stop
<1>3. \A a \in Items : Has(c, a) => a.kind \in {"line", "warning", "exit"}
  BY <1>2, InvOf DEF ItemOK, PutBy
<1>4. \A a \in Items : Has(c, a) => Before(a, Item("stop"))
  BY <1>3 DEF Before, Item
<1>5. Steady(c)
  BY <1>2 DEF Steady
<1>6. ReaderOK(c)'
  BY <1>1, <1>2 DEF ReaderOK
<1>7. PutBy(reader[c]) \subseteq PutBy(reader'[c]) /\ "stop" \in PutBy(reader'[c])
  BY <1>2 DEF PutBy
<1> QED BY <1>2, <1>4, <1>5, <1>6, <1>7, ItemKeeps

LEMMA PutErrorKeeps ==
    ASSUME MInv, NEW c \in Containers, loop = "on", put_error(c) PROVE MInv'
<1>1. MTyped /\ ReaderOK(c)
  BY InvOf
<1>2. /\ reader[c] \in {"stream", "wait"} /\ reader'[c] = "done"
      /\ \A d \in Containers \ {c} : reader'[d] = reader[d]
      /\ reader' \in [Containers -> {"stream", "warning", "wait", "stop", "done"}]
      /\ UNCHANGED <<has_api_logs, exited, written, printed, num_running, loop>>
      /\ UNCHANGED <<got, put>> /\ Put(c, Item("error"))
  BY <1>1 DEF put_error, MTyped
<1>3. \A a \in Items : Has(c, a) => a.kind \in {"line", "warning"}
  BY <1>2, InvOf DEF ItemOK, PutBy
<1>4. \A a \in Items : Has(c, a) => Before(a, Item("error"))
  BY <1>3 DEF Before, Item
<1>5. Steady(c)
  BY <1>2 DEF Steady
<1>6. ReaderOK(c)'
  BY <1>1, <1>2 DEF ReaderOK
<1>7. PutBy(reader[c]) \subseteq PutBy(reader'[c]) /\ "error" \in PutBy(reader'[c])
  BY <1>2 DEF PutBy
<1> QED BY <1>2, <1>4, <1>5, <1>6, <1>7, ItemKeeps

(***************************************************************************)
(* The containers and the loop                                             *)
(***************************************************************************)
\* A container that writes has not exited: it has no last line yet.
LEMMA WriteKeeps == ASSUME MInv, NEW c \in Containers, loop = "on", write(c) PROVE MInv'
<1>1. MTyped
  BY InvOf
<1>2. /\ c \in has_api_logs /\ c \notin exited /\ Len(written[c]) < MaxPieces
      /\ UNCHANGED <<has_api_logs, exited, got, put, reader, queue, printed, num_running, loop>>
  BY DEF write
<1>3. PICK ends \in BOOLEAN : written' = [written EXCEPT ![c] = Append(@, ends)]
  BY DEF write
<1>4. /\ written[c] \in Seq(BOOLEAN) /\ Len(written[c]) \in Nat /\ MaxPieces \in Nat
      /\ put[c] \in Nat /\ got[c] \in Nat
      /\ put[c] <= got[c] /\ got[c] <= Len(written[c])
  BY <1>1, ItemsAre DEF MTyped
<1>5. /\ written' \in [Containers -> Seq(BOOLEAN)]
      /\ written'[c] = Append(written[c], ends)
      /\ \A d \in Containers \ {c} : written'[d] = written[d]
  BY <1>1, <1>3, <1>4 DEF MTyped
<1>6. /\ Len(written'[c]) = Len(written[c]) + 1
      /\ \A k \in 1 .. Len(written[c]) : written'[c][k] = written[c][k]
  BY <1>4, <1>5
<1>7. MTyped'
  <2>1. \A d \in Containers : /\ put'[d] <= got'[d] /\ got'[d] <= Len(written'[d])
                              /\ Len(written'[d]) <= MaxPieces
    <3> SUFFICES ASSUME NEW d \in Containers
                 PROVE  /\ put'[d] <= got'[d] /\ got'[d] <= Len(written'[d])
                        /\ Len(written'[d]) <= MaxPieces
      OBVIOUS
    <3>1. CASE d = c
      BY <1>2, <1>4, <1>6, <3>1
    <3>2. CASE d # c
      BY <1>1, <1>2, <1>5, <3>2 DEF MTyped
    <3> QED BY <3>1, <3>2
  <2> QED BY <1>1, <1>2, <1>5, <2>1 DEF MTyped
<1>8. \A d \in Containers, a \in Items : Has(d, a)' <=> Has(d, a)
  BY <1>2 DEF Has, Queued, Printed
<1>9. \A d \in Containers : ReaderOK(d)' /\ Covered(d)' /\ Announced(d)'
  <2> SUFFICES ASSUME NEW d \in Containers PROVE ReaderOK(d)' /\ Covered(d)' /\ Announced(d)'
    OBVIOUS
  <2>1. ReaderOK(d)'
    BY <1>2, <1>5, InvOf DEF ReaderOK
  <2>2. Covered(d)'
    BY <1>2, <1>8, InvOf DEF Covered
  <2>3. Announced(d)'
    BY <1>2, InvOf DEF Announced, Has, Queued, Printed
  <2> QED BY <2>1, <2>2, <2>3
<1>10. ASSUME NEW d \in Containers, NEW a \in Items, Has(d, a)' PROVE ItemOK(d, a)'
  <2>1. ItemOK(d, a)
    BY <1>8, <1>10, InvOf
  <2>2. CASE d # c
    BY <1>2, <1>5, <2>1, <2>2 DEF ItemOK, IsLine
  <2>3. CASE d = c
    <3>1. a.kind # "exit"
      BY <1>2, <2>1, <2>3 DEF ItemOK
    <3>2. a.kind = "line" => IsLine(d, a)'
      <4> SUFFICES ASSUME a.kind = "line" PROVE IsLine(d, a)'
        OBVIOUS
      <4>1. IsLine(c, a) /\ a.from \in Nat /\ a.to \in Nat
        BY <2>1, <2>3, ItemsAre DEF ItemOK
      <4>2. \A k \in a.from .. a.to : k \in 1 .. Len(written[c])
        BY <1>4, <4>1 DEF IsLine
      <4>3. \A k \in a.from .. a.to : written'[c][k] = written[c][k]
        BY <1>6, <4>2
      <4>4. a.to \in a.from .. a.to /\ \A k \in a.from .. a.to - 1 : k \in a.from .. a.to
        BY <4>1 DEF IsLine
      <4> QED BY <1>2, <2>3, <4>1, <4>3, <4>4 DEF IsLine
    <3> QED BY <1>2, <2>1, <3>1, <3>2 DEF ItemOK
  <2> QED BY <2>2, <2>3
<1>11. Order'
  BY <1>2, InvOf DEF Order, Printed, Queued, Before
<1>12. (loop # "raised" => num_running = Cardinality(Waiting))'
  BY <1>2 DEF MInv, Waiting
<1>13. RaisedOK' /\ EndedOK'
  BY <1>2 DEF RaisedOK, EndedOK
<1> QED BY <1>7, <1>9, <1>10, <1>11, <1>12, <1>13 DEF MInv

LEMMA ExitKeeps == ASSUME MInv, NEW c \in Containers, loop = "on", exit(c) PROVE MInv'
<1>1. MTyped
  BY InvOf
<1>2. /\ exited' = exited \cup {c}
      /\ UNCHANGED <<has_api_logs, written, got, put, reader, queue, printed, num_running, loop>>
  BY DEF exit
<1>3. MTyped'
  BY <1>1, <1>2 DEF MTyped
<1>4. \A d \in Containers, a \in Items : Has(d, a)' <=> Has(d, a)
  BY <1>2 DEF Has, Queued, Printed
<1>5. \A d \in Containers : ReaderOK(d)' /\ Covered(d)' /\ Announced(d)'
  <2> SUFFICES ASSUME NEW d \in Containers PROVE ReaderOK(d)' /\ Covered(d)' /\ Announced(d)'
    OBVIOUS
  <2>1. ReaderOK(d)'
    BY <1>2, InvOf DEF ReaderOK
  <2>2. Covered(d)'
    BY <1>2, <1>4, InvOf DEF Covered
  <2>3. Announced(d)'
    BY <1>2, InvOf DEF Announced, Has, Queued, Printed
  <2> QED BY <2>1, <2>2, <2>3
<1>6. \A d \in Containers, a \in Items : Has(d, a)' => ItemOK(d, a)'
  <2> SUFFICES ASSUME NEW d \in Containers, NEW a \in Items, Has(d, a)' PROVE ItemOK(d, a)'
    OBVIOUS
  <2>1. ItemOK(d, a)
    BY <1>4, InvOf
  <2> QED BY <1>2, <2>1 DEF ItemOK, IsLine
<1>7. Order'
  BY <1>2, InvOf DEF Order, Printed, Queued, Before
<1>8. (loop # "raised" => num_running = Cardinality(Waiting))'
  BY <1>2 DEF MInv, Waiting
<1>9. RaisedOK' /\ EndedOK'
  BY <1>2 DEF RaisedOK, EndedOK
<1> QED BY <1>3, <1>5, <1>6, <1>7, <1>8, <1>9 DEF MInv

\* The order of the queue without its head, and of the head before the rest.
LEMMA OrderAfterTake ==
    ASSUME MTyped, Order, queue # <<>>, queue' = Tail(queue)
    PROVE  /\ \A i, j \in DOMAIN queue' :
                 i < j /\ queue'[i].of = queue'[j].of => Before(queue'[i].item, queue'[j].item)
           /\ \A i \in DOMAIN queue' :
                 queue'[i].of = Head(queue).of => Before(Head(queue).item, queue'[i].item)
           /\ \A c \in Containers, a \in Items :
                 c = Head(queue).of /\ Queued(c, a)' => Before(Head(queue).item, a)
<1>1. queue \in Seq(Packets)
  BY DEF MTyped, Packets
<1>2. /\ Head(queue) = queue[1] /\ 1 \in DOMAIN queue
      /\ \A i \in DOMAIN queue' : /\ i + 1 \in DOMAIN queue /\ queue'[i] = queue[i + 1]
                                  /\ i \in Nat /\ 1 < i + 1
  BY <1>1, TailIs
<1>3. ASSUME NEW i \in DOMAIN queue', NEW j \in DOMAIN queue', i < j,
             queue'[i].of = queue'[j].of
      PROVE  Before(queue'[i].item, queue'[j].item)
  <2>1. i + 1 < j + 1 /\ i + 1 \in DOMAIN queue /\ j + 1 \in DOMAIN queue
    BY <1>2, <1>3
  <2> QED BY <1>2, <1>3, <2>1 DEF Order
<1>4. \A i \in DOMAIN queue' :
         queue'[i].of = Head(queue).of => Before(Head(queue).item, queue'[i].item)
  BY <1>2 DEF Order
<1>5. \A c \in Containers, a \in Items :
         c = Head(queue).of /\ Queued(c, a)' => Before(Head(queue).item, a)
  BY <1>4 DEF Queued
<1> QED BY <1>3, <1>4, <1>5

\* If the first n items printed of a container are lines, one of them has the
\* piece p and none goes beyond it, the last of them ends with it.
LEMMA LinesEndWith ==
    ASSUME MTyped, Order, NEW c \in Containers, NEW n \in Nat, n <= Len(printed[c]), NEW p \in Nat,
           \A a \in Items : Printed(c, a) /\ a.kind = "line" => 1 <= a.from /\ a.from <= a.to,
           \A m \in 1 .. n : printed[c][m].kind = "line" /\ printed[c][m].to <= p,
           p > 0 => \E m \in 1 .. n : printed[c][m].from <= p /\ p <= printed[c][m].to
    PROVE  UpTo(c, n) = p
<1>1. /\ Len(printed[c]) \in Nat /\ DOMAIN printed[c] = 1 .. Len(printed[c])
      /\ \A m \in DOMAIN printed[c] : printed[c][m] \in Items
  BY DEF MTyped
<1>2. \A m \in 1 .. n : /\ m \in DOMAIN printed[c]
                        /\ printed[c][m].from \in Nat /\ printed[c][m].to \in Nat
                        /\ 1 <= printed[c][m].from /\ printed[c][m].from <= printed[c][m].to
  <2> SUFFICES ASSUME NEW m \in 1 .. n
               PROVE  /\ m \in DOMAIN printed[c]
                      /\ printed[c][m].from \in Nat /\ printed[c][m].to \in Nat
                      /\ 1 <= printed[c][m].from /\ printed[c][m].from <= printed[c][m].to
    OBVIOUS
  <2>1. m \in DOMAIN printed[c]
    BY <1>1
  <2>2. printed[c][m] \in Items /\ Printed(c, printed[c][m])
    BY <1>1, <2>1 DEF Printed
  <2> QED BY <2>1, <2>2, ItemsAre
<1>3. CASE p = 0
  <2>1. n = 0
    <3> SUFFICES ASSUME n # 0 PROVE FALSE
      OBVIOUS
    <3>1. n \in 1 .. n
      OBVIOUS
    <3> QED BY <1>2, <1>3, <3>1
  <2> QED BY <1>3, <2>1 DEF UpTo
<1>4. CASE p > 0
  <2>1. PICK m \in 1 .. n : printed[c][m].from <= p /\ p <= printed[c][m].to
    BY <1>4
  <2>2. n \in 1 .. n /\ n # 0
    BY <2>1
  <2>3. m = n
    <3> SUFFICES ASSUME m < n PROVE FALSE
      BY <2>1
    <3>1. Before(printed[c][m], printed[c][n])
      BY <1>2, <2>1, <2>2 DEF Order
    <3>2. printed[c][m].to < printed[c][n].from
      BY <2>2, <3>1 DEF Before
    <3> QED BY <1>2, <2>1, <2>2, <3>2, SMTT(30)
  <2>4. printed[c][n].to = p
    BY <1>2, <2>1, <2>2, <2>3
  <2> QED BY <2>2, <2>4 DEF UpTo
<1> QED BY <1>3, <1>4

\* Lines that are not on the queue any more are printed.
LEMMA AllPrinted ==
    ASSUME MInv, NEW c \in Containers,
           \A a \in Items : a.kind = "line" => ~Queued(c, a),
           NEW n \in Nat, n <= Len(printed[c]),
           \A m \in DOMAIN printed[c] : m <= n <=> printed[c][m].kind # "exit",
           c \in has_api_logs
    PROVE  UpTo(c, n) = put[c]
<1>1. MTyped /\ Order /\ Covered(c) /\ \A a \in Items : Has(c, a) => ItemOK(c, a)
  BY InvOf
<1>2. /\ Len(printed[c]) \in Nat /\ DOMAIN printed[c] = 1 .. Len(printed[c])
      /\ \A m \in DOMAIN printed[c] : printed[c][m] \in Items
      /\ put[c] \in Nat
  BY <1>1 DEF MTyped
<1>3. \A a \in Items : Printed(c, a) /\ a.kind = "line" => 1 <= a.from /\ a.from <= a.to /\ a.to <= put[c]
  BY <1>1 DEF Has, ItemOK, IsLine
<1>4. \A m \in 1 .. n : printed[c][m].kind = "line" /\ printed[c][m].to <= put[c]
  <2> SUFFICES ASSUME NEW m \in 1 .. n
               PROVE  printed[c][m].kind = "line" /\ printed[c][m].to <= put[c]
    OBVIOUS
  <2>1. m \in DOMAIN printed[c] /\ printed[c][m] \in Items /\ printed[c][m].kind # "exit"
    BY <1>2
  <2>2. Printed(c, printed[c][m])
    BY <2>1 DEF Printed
  <2>3. printed[c][m].kind \in {"line", "warning", "exit"}
    BY <1>1, <2>1, <2>2 DEF Order
  <2>4. printed[c][m].kind # "warning"
    BY <1>1, <2>1, <2>2 DEF Has, ItemOK
  <2> QED BY <1>3, <2>1, <2>2, <2>3, <2>4
<1>5. put[c] > 0 => \E m \in 1 .. n : printed[c][m].from <= put[c] /\ put[c] <= printed[c][m].to
  <2> SUFFICES ASSUME put[c] > 0
               PROVE  \E m \in 1 .. n : printed[c][m].from <= put[c] /\ put[c] <= printed[c][m].to
    OBVIOUS
  <2>1. put[c] \in 1 .. put[c]
    BY <1>2
  <2>2. PICK a \in Items : Has(c, a) /\ a.kind = "line" /\ a.from <= put[c] /\ put[c] <= a.to
    BY <1>1, <2>1 DEF Covered
  <2>3. PICK m \in DOMAIN printed[c] : printed[c][m] = a
    BY <2>2 DEF Has, Printed
  <2>4. m \in 1 .. n
    BY <1>2, <2>2, <2>3
  <2> QED BY <2>2, <2>3, <2>4
<1> QED BY <1>1, <1>2, <1>3, <1>4, <1>5, LinesEndWith

\* What all three cases of next_item have in common.
Takes(c, item) ==
    /\ queue # <<>> /\ Head(queue) = Packet(c, item) /\ queue' = Tail(queue)
    /\ UNCHANGED <<has_api_logs, exited, written, got, put, reader>>

LEMMA TakesIs ==
    ASSUME MTyped, Order, NEW c \in Containers, NEW item \in Items, Takes(c, item)
    PROVE  /\ queue' \in Seq(Packets)
           /\ \A d \in Containers, a \in Items :
                 Queued(d, a) <=> Queued(d, a)' \/ (d = c /\ a = item)
           /\ \A i, j \in DOMAIN queue' :
                 i < j /\ queue'[i].of = queue'[j].of => Before(queue'[i].item, queue'[j].item)
           /\ \A a \in Items : Queued(c, a)' => Before(item, a)
           /\ Has(c, item)
<1>1. queue # <<>> /\ queue' = Tail(queue) /\ Head(queue).of = c /\ Head(queue).item = item
  BY PacketIs DEF Takes
<1>2. \A d \in Containers, a \in Items :
         Queued(d, a) <=> Queued(d, a)' \/ (d = c /\ a = item)
  BY <1>1, TakeHas
<1>3. queue' \in Seq(Packets)
  BY <1>1, TakeHas
<1> QED BY <1>1, <1>2, <1>3, OrderAfterTake DEF Has

\* An item is printed: it changes its place, and nothing else.
LEMMA ShownKeeps ==
    ASSUME MInv, NEW c \in Containers, NEW item \in Items, Takes(c, item), loop = "on",
           item.kind \in {"line", "warning", "exit"}, Shown(c, item),
           UNCHANGED <<num_running, loop>>
    PROVE  MInv'
<1>1. MTyped /\ Order /\ Announced(c)
  BY InvOf
<1>2. /\ queue' \in Seq(Packets)
      /\ \A d \in Containers, a \in Items :
            Queued(d, a) <=> Queued(d, a)' \/ (d = c /\ a = item)
      /\ \A i, j \in DOMAIN queue' :
            i < j /\ queue'[i].of = queue'[j].of => Before(queue'[i].item, queue'[j].item)
      /\ \A a \in Items : Queued(c, a)' => Before(item, a)
      /\ Has(c, item)
  BY <1>1, TakesIs
<1>3. UNCHANGED <<has_api_logs, exited, written, got, put, reader>>
  BY DEF Takes
<1>4. /\ printed[c] \in Seq(Items) /\ printed' \in [Containers -> Seq(Items)]
      /\ printed'[c] = Append(printed[c], item)
      /\ \A d \in Containers \ {c} : printed'[d] = printed[d]
  BY <1>1 DEF MTyped, Shown
<1>5. /\ DOMAIN printed[c] = 1 .. Len(printed[c]) /\ Len(printed[c]) \in Nat
      /\ \A i \in DOMAIN printed[c] : i \in DOMAIN printed'[c] /\ printed'[c][i] = printed[c][i]
      /\ Len(printed[c]) + 1 \in DOMAIN printed'[c]
      /\ printed'[c][Len(printed[c]) + 1] = item
      /\ \A i \in DOMAIN printed'[c] : i \in DOMAIN printed[c] \/ i = Len(printed[c]) + 1
  BY <1>4, AppendIs
<1>6. \A d \in Containers, a \in Items :
         Printed(d, a)' <=> Printed(d, a) \/ (d = c /\ a = item)
  <2> SUFFICES ASSUME NEW d \in Containers, NEW a \in Items
               PROVE  Printed(d, a)' <=> Printed(d, a) \/ (d = c /\ a = item)
    OBVIOUS
  <2>1. CASE d = c
    BY <1>5, <2>1 DEF Printed
  <2>2. CASE d # c
    BY <1>4, <2>2 DEF Printed
  <2> QED BY <2>1, <2>2
<1>7. \A d \in Containers, a \in Items : Has(d, a)' <=> Has(d, a)
  BY <1>2, <1>6 DEF Has
<1>8. MTyped'
  BY <1>1, <1>2, <1>3, <1>4 DEF MTyped, Packets
<1>9. Order'
  <2>1. ASSUME NEW d \in Containers, NEW i \in DOMAIN printed'[d], NEW j \in DOMAIN printed'[d],
               i < j
        PROVE  Before(printed'[d][i], printed'[d][j])
    <3>1. CASE d # c
      BY <1>1, <1>4, <2>1, <3>1 DEF Order
    <3>2. CASE d = c /\ j \in DOMAIN printed[c]
      <4>1. i \in DOMAIN printed[c]
        BY <1>5, <2>1, <3>2
      <4> QED BY <1>1, <1>5, <2>1, <3>2, <4>1 DEF Order
    <3>3. CASE d = c /\ j = Len(printed[c]) + 1
      <4>1. i \in DOMAIN printed[c]
        BY <1>5, <2>1, <3>3
      <4>2. Printed(c, printed[c][i]) /\ printed[c][i] \in Items
        BY <1>4, <4>1 DEF Printed
      <4>3. Queued(c, item)
        BY <1>2
      <4>4. Before(printed[c][i], item)
        BY <1>1, <4>2, <4>3 DEF Order
      <4> QED BY <1>5, <3>3, <4>1, <4>4
    <3> QED BY <1>5, <3>1, <3>2, <3>3
  <2>2. ASSUME NEW d \in Containers, NEW a \in Items, NEW b \in Items,
               Printed(d, a)', Queued(d, b)'
        PROVE  Before(a, b)
    <3>1. Queued(d, b)
      BY <1>2, <2>2
    <3>2. CASE Printed(d, a)
      BY <1>1, <3>1, <3>2 DEF Order
    <3>3. CASE d = c /\ a = item
      BY <1>2, <2>2, <3>3
    <3> QED BY <1>6, <2>2, <3>2, <3>3
  <2>3. \A d \in Containers, a \in Items : Printed(d, a)' => a.kind \in {"line", "warning", "exit"}
    BY <1>1, <1>6 DEF Order
  <2> QED BY <1>2, <2>1, <2>2, <2>3 DEF Order, Before
<1>10. \A d \in Containers : ReaderOK(d)' /\ Covered(d)' /\ Announced(d)'
  <2> SUFFICES ASSUME NEW d \in Containers PROVE ReaderOK(d)' /\ Covered(d)' /\ Announced(d)'
    OBVIOUS
  <2>1. ReaderOK(d)'
    BY <1>3, InvOf DEF ReaderOK
  <2>2. Covered(d)'
    BY <1>3, <1>7, InvOf DEF Covered
  <2>3. /\ Item("stop") \in Items /\ Item("error") \in Items
        /\ Item("exit") \in Items /\ Item("warning") \in Items
        /\ Item("stop").kind = "stop" /\ Item("error").kind = "error"
    BY ItemsAre DEF Item
  <2>4. Announced(d)'
    BY <1>2, <1>3, <1>7, <2>3, InvOf DEF Announced
  <2> QED BY <2>1, <2>2, <2>4
<1>11. \A d \in Containers, a \in Items : Has(d, a)' => ItemOK(d, a)'
  <2> SUFFICES ASSUME NEW d \in Containers, NEW a \in Items, Has(d, a)' PROVE ItemOK(d, a)'
    OBVIOUS
  <2>1. ItemOK(d, a)
    BY <1>7, InvOf
  <2> QED BY <1>3, <2>1 DEF ItemOK, IsLine
<1>12. Waiting' = Waiting
  <2>1. (MTyped => WaitingKnown)'
    BY WaitingIs, PTL
  <2>2. /\ \A d \in Containers : d \in Waiting <=> WaitsFor(d)
        /\ \A d \in Containers : d \in Waiting' <=> WaitsFor(d)'
    BY <1>1, <1>8, <2>1, WaitingIs DEF WaitingKnown
  <2>3. \A d \in Containers : WaitsFor(d)' <=> WaitsFor(d)
    BY <1>2, <1>3 DEF WaitsFor
  <2>4. Waiting \subseteq Containers /\ Waiting' \subseteq Containers
    BY DEF Waiting
  <2> QED BY <2>2, <2>3, <2>4
<1>13. RaisedOK' /\ EndedOK'
  BY DEF RaisedOK, EndedOK
<1>14. (loop # "raised" => num_running = Cardinality(Waiting))'
  BY <1>12 DEF MInv
<1> QED BY <1>8, <1>9, <1>10, <1>11, <1>13, <1>14 DEF MInv

\* What does not become visible: a STOP, or an exception.
LEMMA HiddenKeeps ==
    ASSUME MInv, NEW c \in Containers, NEW item \in Items, Takes(c, item), loop = "on",
           item.kind \in {"stop", "error"}, UNCHANGED printed,
           loop' \in {"on", "raised"}, loop' = "on" => item.kind = "stop",
           item.kind = "stop" => loop' = "on" /\ num_running' = num_running - 1
    PROVE  MInv'
<1>1. MTyped /\ Order /\ Announced(c) /\ ReaderOK(c)
  BY InvOf
<1>2. /\ queue' \in Seq(Packets)
      /\ \A d \in Containers, a \in Items :
            Queued(d, a) <=> Queued(d, a)' \/ (d = c /\ a = item)
      /\ \A i, j \in DOMAIN queue' :
            i < j /\ queue'[i].of = queue'[j].of => Before(queue'[i].item, queue'[j].item)
      /\ \A a \in Items : Queued(c, a)' => Before(item, a)
      /\ Has(c, item)
  BY <1>1, TakesIs
<1>3. UNCHANGED <<has_api_logs, exited, written, got, put, reader>>
  BY DEF Takes
<1>4. \A d \in Containers, a \in Items : Printed(d, a)' <=> Printed(d, a)
  BY DEF Printed
<1>5. \A d \in Containers, a \in Items : /\ Has(d, a)' => Has(d, a)
                                         /\ Has(d, a) => Has(d, a)' \/ (d = c /\ a = item)
  BY <1>2, <1>4 DEF Has
<1>6. MTyped'
  BY <1>1, <1>2, <1>3 DEF MTyped, Packets
<1>7. Order'
  <2>1. \A d \in Containers, a, b \in Items : Printed(d, a)' /\ Queued(d, b)' => Before(a, b)
    BY <1>1, <1>2, <1>4 DEF Order
  <2>2. \A d \in Containers : printed'[d] = printed[d]
    OBVIOUS
  <2> QED BY <1>1, <1>2, <1>4, <2>1, <2>2 DEF Order, Before
<1>8. \A a \in Items : ~Queued(c, a)'
  BY <1>2 DEF Before
<1>9. reader[c] = "done"
  <2>1. ItemOK(c, item)
    BY <1>2, InvOf
  <2>2. reader[c] \in {"stream", "warning", "wait", "stop", "done"}
    BY <1>1 DEF MTyped
  <2> QED BY <2>1, <2>2 DEF ItemOK, PutBy
<1>10. \A d \in Containers : ReaderOK(d)' /\ Covered(d)' /\ Announced(d)'
  <2> SUFFICES ASSUME NEW d \in Containers PROVE ReaderOK(d)' /\ Covered(d)' /\ Announced(d)'
    OBVIOUS
  <2>1. ReaderOK(d)'
    BY <1>3, InvOf DEF ReaderOK
  <2>2. Covered(d)'
    BY <1>3, <1>5, InvOf DEF Covered
  <2>3. /\ Item("stop") \in Items /\ Item("error") \in Items
        /\ Item("exit") \in Items /\ Item("warning") \in Items
        /\ Item("stop").kind = "stop" /\ Item("error").kind = "error"
        /\ Item("exit").kind = "exit" /\ Item("warning").kind = "warning"
    BY ItemsAre DEF Item
  <2>4. Announced(d)'
    BY <1>2, <1>3, <1>5, <1>8, <2>3, InvOf DEF Announced
  <2> QED BY <2>1, <2>2, <2>4
<1>11. \A d \in Containers, a \in Items : Has(d, a)' => ItemOK(d, a)'
  <2> SUFFICES ASSUME NEW d \in Containers, NEW a \in Items, Has(d, a)' PROVE ItemOK(d, a)'
    OBVIOUS
  <2>1. ItemOK(d, a)
    BY <1>5, InvOf
  <2> QED BY <1>3, <2>1 DEF ItemOK, IsLine
<1>12. (loop # "raised" => num_running = Cardinality(Waiting))'
  <2> SUFFICES ASSUME item.kind = "stop", loop' = "on" PROVE num_running' = Cardinality(Waiting')
    OBVIOUS
  <2>1. (MTyped => WaitingKnown)'
    BY WaitingIs, PTL
  <2>2. /\ \A d \in Containers : d \in Waiting <=> WaitsFor(d)
        /\ \A d \in Containers : d \in Waiting' <=> WaitsFor(d)'
    BY <1>1, <1>6, <2>1, WaitingIs DEF WaitingKnown
  <2>3. \A d \in Containers \ {c} : WaitsFor(d)' <=> WaitsFor(d)
    BY <1>2, <1>3 DEF WaitsFor
  <2>4. WaitsFor(c) /\ ~WaitsFor(c)'
    BY <1>2, <1>3, <1>8, <1>9 DEF WaitsFor
  <2>5. Waiting \subseteq Containers /\ Waiting' \subseteq Containers
    BY DEF Waiting
  <2>6. Waiting' = Waiting \ {c} /\ c \in Waiting
    BY <2>2, <2>3, <2>4, <2>5
  <2>7. IsFiniteSet(Waiting)
    BY <2>5, ContainersAssumption, FS_Subset
  <2>8. Cardinality(Waiting') = Cardinality(Waiting) - 1
    BY <2>6, <2>7, FS_RemoveElement
  <2>9. num_running = Cardinality(Waiting)
    BY DEF MInv
  <2> QED BY <2>8, <2>9
<1>13. EndedOK'
  BY DEF EndedOK
<1>14. RaisedOK'
  <2> SUFFICES ASSUME loop' = "raised" PROVE RaisedOK'
    BY DEF RaisedOK
  <2>1. item.kind = "error"
    OBVIOUS
  <2>2. \A i \in DOMAIN queue' : queue'[i].of # c
    <3> SUFFICES ASSUME NEW i \in DOMAIN queue', queue'[i].of = c PROVE FALSE
      OBVIOUS
    <3>1. queue'[i] \in Packets
      BY <1>2
    <3>2. PICK b \in Items : b = queue'[i].item
      BY <3>1 DEF Packets
    <3>3. Queued(c, b)'
      BY <3>2 DEF Queued
    <3> QED BY <1>8, <3>3
  <2>3. put'[c] > 0 => UpTo(c, Len(printed[c])) = put[c]
    <3> SUFFICES ASSUME put[c] > 0 PROVE UpTo(c, Len(printed[c])) = put[c]
      BY <1>3
    <3>1. Len(printed[c]) \in Nat /\ DOMAIN printed[c] = 1 .. Len(printed[c])
          /\ \A m \in DOMAIN printed[c] : printed[c][m] \in Items
      BY <1>1 DEF MTyped
    <3>2. \A a \in Items : Queued(c, a) => a = item
      BY <1>2, <1>8
    <3>3. \A a \in Items : a.kind = "line" => ~Queued(c, a)
      BY <2>1, <3>2
    <3>4. \A m \in DOMAIN printed[c] : printed[c][m].kind # "exit"
      <4> SUFFICES ASSUME NEW m \in DOMAIN printed[c], printed[c][m].kind = "exit" PROVE FALSE
        OBVIOUS
      <4>1. printed[c][m] \in Items /\ Printed(c, printed[c][m]) /\ Queued(c, item)
        BY <1>2, <3>1 DEF Printed
      <4>2. Before(printed[c][m], item)
        BY <1>1, <4>1 DEF Order
      <4> QED BY <2>1, <4>2 DEF Before
    <3>5. c \in has_api_logs
      BY <1>1 DEF ReaderOK, MTyped
    <3> QED BY <3>1, <3>3, <3>4, <3>5, AllPrinted
  <2>4. UpTo(c, Len(printed[c]))' = UpTo(c, Len(printed[c]))
    BY DEF UpTo
  <2> QED BY <1>3, <1>9, <2>2, <2>3, <2>4 DEF RaisedOK
<1> QED BY <1>6, <1>7, <1>10, <1>11, <1>12, <1>13, <1>14 DEF MInv

LEMMA NextItemKeeps == ASSUME MInv, loop = "on", next_item PROVE MInv'
<1>1. MTyped
  BY InvOf
<1>2. queue # <<>> /\ Head(queue) \in Packets
  BY <1>1, TakeHas DEF next_item
<1>3. PICK c \in Containers, item \in Items : Head(queue) = Packet(c, item)
  BY <1>2 DEF Packets, Packet
<1>4. Head(queue).of = c /\ Head(queue).item = item
  BY <1>3, PacketIs
<1>5. Takes(c, item)
  BY <1>3 DEF next_item, Takes
<1>6. CASE item.kind = "error"
  BY <1>4, <1>5, <1>6, HiddenKeeps DEF next_item
<1>7. CASE item.kind = "stop"
  BY <1>4, <1>5, <1>7, HiddenKeeps DEF next_item
<1>8. CASE item.kind \notin {"error", "stop"}
  <2>1. Shown(c, item) /\ UNCHANGED <<num_running, loop>>
    BY <1>4, <1>8 DEF next_item
  <2>2. item.kind \in {"line", "warning", "exit"}
    BY <1>8, ItemsAre
  <2> QED BY <1>5, <2>1, <2>2, ShownKeeps
<1> QED BY <1>6, <1>7, <1>8

\* An exit that is printed is printed last.
LEMMA ExitIsLast ==
    ASSUME MInv, NEW c \in Containers, NEW i \in DOMAIN printed[c], printed[c][i].kind = "exit"
    PROVE  /\ i = Len(printed[c]) /\ i \in Nat /\ i > 0
           /\ \A m \in DOMAIN printed[c] : m <= i - 1 <=> printed[c][m].kind # "exit"
           /\ printed[c][i] \in Items /\ Printed(c, printed[c][i])
<1>1. Order /\ Len(printed[c]) \in Nat /\ DOMAIN printed[c] = 1 .. Len(printed[c])
      /\ \A m \in DOMAIN printed[c] : printed[c][m] \in Items
  BY InvOf DEF MTyped
<1>2. \A m \in DOMAIN printed[c] : ~(i < m)
  <2> SUFFICES ASSUME NEW m \in DOMAIN printed[c], i < m PROVE FALSE
    OBVIOUS
  <2>1. Before(printed[c][i], printed[c][m])
    BY <1>1 DEF Order
  <2>2. Printed(c, printed[c][m]) /\ printed[c][m] \in Items
    BY <1>1 DEF Printed
  <2>3. printed[c][m].kind \in {"line", "warning", "exit"}
    BY <1>1, <2>2 DEF Order
  <2> QED BY <2>1, <2>3 DEF Before
<1>3. \A m \in DOMAIN printed[c] : m < i => printed[c][m].kind # "exit"
  <2> SUFFICES ASSUME NEW m \in DOMAIN printed[c], m < i PROVE printed[c][m].kind # "exit"
    OBVIOUS
  <2>1. Before(printed[c][m], printed[c][i])
    BY <1>1 DEF Order
  <2> QED BY <2>1 DEF Before
<1>4. i = Len(printed[c]) /\ i \in Nat /\ i > 0
  <2>1. i \in 1 .. Len(printed[c]) /\ Len(printed[c]) \in DOMAIN printed[c]
    BY <1>1
  <2>2. ~(i < Len(printed[c]))
    BY <1>2, <2>1
  <2> QED BY <1>1, <2>1, <2>2
<1>5. \A m \in DOMAIN printed[c] : m \in Nat /\ m <= i /\ (m <= i - 1 <=> m # i)
  BY <1>1, <1>4
<1> QED BY <1>1, <1>3, <1>4, <1>5 DEF Printed

\* The loop ends when it has taken every STOP: then every exit is printed.
LEMMA LoopEndsKeeps == ASSUME MInv, loop = "on", loop_ends PROVE MInv'
<1>1. MTyped /\ Order
  BY InvOf
<1>2. /\ num_running = 0 /\ loop' = "ended"
      /\ UNCHANGED <<has_api_logs, exited, written, got, put, reader, queue, printed, num_running>>
  BY DEF loop_ends
<1>3. Waiting = {}
  <2>1. Waiting \subseteq Containers
    BY DEF Waiting
  <2>2. IsFiniteSet(Waiting) /\ Cardinality(Waiting) = 0
    BY <1>2, <2>1, ContainersAssumption, FS_Subset DEF MInv
  <2> QED BY <2>2, FS_EmptySet
<1>4. \A c \in Containers : ~WaitsFor(c)
  BY <1>1, <1>3, WaitingIs DEF WaitingKnown
<1>5. EndedOK'
  <2> SUFFICES ASSUME NEW c \in Containers
               PROVE  printed[c] # <<>> /\ printed[c][Len(printed[c])] = Item("exit")
    BY <1>2 DEF EndedOK, Item
  <2>1. /\ Item("stop") \in Items /\ Item("error") \in Items /\ Item("exit") \in Items
        /\ Item("stop").kind = "stop" /\ Item("error").kind = "error"
        /\ Item("exit").kind = "exit"
    BY ItemsAre DEF Item
  <2>2. reader[c] = "done" /\ ~Queued(c, Item("stop")) /\ ~Queued(c, Item("error"))
    BY <1>4, <2>1 DEF WaitsFor
  <2>3. Printed(c, Item("exit"))
    BY <2>2, InvOf DEF Announced, Has
  <2>4. PICK i \in DOMAIN printed[c] : printed[c][i] = Item("exit")
    BY <2>3 DEF Printed
  <2>5. i = Len(printed[c]) /\ i \in Nat /\ i > 0
    BY <2>1, <2>4, ExitIsLast
  <2>6. printed[c] # <<>>
    BY <2>5
  <2> QED BY <2>4, <2>5, <2>6
<1>6. \A c \in Containers, a \in Items : Has(c, a)' <=> Has(c, a)
  BY <1>2 DEF Has, Queued, Printed
<1>7. MTyped'
  BY <1>1, <1>2 DEF MTyped
<1>8. \A c \in Containers : ReaderOK(c)' /\ Covered(c)' /\ Announced(c)'
  <2> SUFFICES ASSUME NEW c \in Containers PROVE ReaderOK(c)' /\ Covered(c)' /\ Announced(c)'
    OBVIOUS
  <2>1. ReaderOK(c)'
    BY <1>2, InvOf DEF ReaderOK
  <2>2. Covered(c)'
    BY <1>2, <1>6, InvOf DEF Covered
  <2>3. Announced(c)'
    BY <1>2, InvOf DEF Announced, Has, Queued, Printed
  <2> QED BY <2>1, <2>2, <2>3
<1>9. \A c \in Containers, a \in Items : Has(c, a)' => ItemOK(c, a)'
  <2> SUFFICES ASSUME NEW c \in Containers, NEW a \in Items, Has(c, a)' PROVE ItemOK(c, a)'
    OBVIOUS
  <2>1. ItemOK(c, a)
    BY <1>6, InvOf
  <2> QED BY <1>2, <2>1 DEF ItemOK, IsLine
<1>10. Order'
  BY <1>1, <1>2 DEF Order, Printed, Queued, Before
<1>11. (loop # "raised" => num_running = Cardinality(Waiting))'
  BY <1>2 DEF MInv, Waiting
<1>12. RaisedOK'
  BY <1>2 DEF RaisedOK
<1> QED BY <1>5, <1>7, <1>8, <1>9, <1>10, <1>11, <1>12 DEF MInv

LEMMA InitMInv == Init => MInv
<1> SUFFICES ASSUME Init PROVE MInv
  OBVIOUS
<1>1. MTyped
  <2>1. queue \in Seq([of : Containers, item : Items]) /\ written \in [Containers -> Seq(BOOLEAN)]
        /\ printed \in [Containers -> Seq(Items)]
    BY DEF Init
  <2>2. \A c \in Containers : put[c] <= got[c] /\ got[c] <= Len(written[c]) /\ Len(written[c]) <= MaxPieces
    BY MaxPiecesAssumption DEF Init
  <2> QED BY <2>1, <2>2 DEF Init, MTyped
<1>2. \A c \in Containers, a \in Items : ~Queued(c, a) /\ ~Printed(c, a)
  BY DEF Init, Queued, Printed
<1>3. \A c \in Containers : ReaderOK(c)
  BY DEF Init, ReaderOK
<1>4. \A c \in Containers : Covered(c)
  BY DEF Init, Covered
<1>5. \A c \in Containers : Announced(c)
  BY <1>2, ItemsAre DEF Init, Announced
<1>6. Order
  BY <1>2 DEF Init, Order
<1>7. num_running = Cardinality(Waiting)
  <2>1. \A c \in Containers : reader[c] # "done"
    BY DEF Init
  <2>2. Waiting = Containers
    BY <2>1 DEF Waiting
  <2> QED BY <2>2 DEF Init
<1>8. RaisedOK /\ EndedOK
  BY DEF Init, RaisedOK, EndedOK
<1>9. \A c \in Containers, a \in Items : ~Has(c, a)
  BY <1>2 DEF Has
<1> QED BY <1>1, <1>3, <1>4, <1>5, <1>6, <1>7, <1>8, <1>9 DEF MInv

LEMMA NextMInv == MInv /\ [Next]_vars => MInv'
<1> SUFFICES ASSUME MInv, [Next]_vars PROVE MInv'
  OBVIOUS
<1>1. CASE UNCHANGED vars
  <2>1. \A c \in Containers, a \in Items : Has(c, a)' <=> Has(c, a)
    BY <1>1 DEF vars, Has, Queued, Printed
  <2>2. MTyped' /\ Order'
    BY <1>1, InvOf DEF vars, MTyped, Order, Queued, Printed, Before
  <2>3. \A c \in Containers : ReaderOK(c)' /\ Covered(c)' /\ Announced(c)'
    BY <1>1, <2>1, InvOf DEF vars, ReaderOK, Covered, Announced, Has, Queued, Printed
  <2>4. \A c \in Containers, a \in Items : Has(c, a)' => ItemOK(c, a)'
    BY <1>1, <2>1, InvOf DEF vars, ItemOK, IsLine
  <2>5. (loop # "raised" => num_running = Cardinality(Waiting))' /\ RaisedOK' /\ EndedOK'
    BY <1>1 DEF vars, MInv, Waiting, RaisedOK, EndedOK, UpTo
  <2> QED BY <2>2, <2>3, <2>4, <2>5 DEF MInv
<1>2. ASSUME NEW c \in Containers, loop = "on", Reader(c) \/ put_error(c) PROVE MInv'
  BY <1>2, MoreDataKeeps, PutLineKeeps, EndOfStreamKeeps, WarnKeeps, WaitOnExitKeeps,
     PutStopKeeps, PutErrorKeeps DEF Reader
<1>3. ASSUME NEW c \in Containers, loop = "on", write(c) \/ exit(c) PROVE MInv'
  BY <1>3, WriteKeeps, ExitKeeps
<1>4. CASE Loop
  BY <1>4, NextItemKeeps, LoopEndsKeeps DEF Loop
<1> QED BY <1>1, <1>2, <1>3, <1>4 DEF Next, Reader

LEMMA MInvHolds == Spec => []MInv
BY InitMInv, NextMInv, PTL DEF Spec

\* The queue, what is printed and the readers always have their types, and
\* num_running counts the readers the loop has to wait for (Multiplexer.loop).
THEOREM TypeCorrect == Spec => []TypeOK
<1>1. MInv => TypeOK
  <2> SUFFICES ASSUME MInv PROVE TypeOK
    OBVIOUS
  <2>1. MTyped /\ (loop # "raised" => num_running = Cardinality(Waiting))
    BY DEF MInv
  <2>2. \A i \in DOMAIN queue : queue[i].of \in Containers /\ queue[i].item \in Items
    BY <2>1, QueuedItems
  <2>3. \A c \in Containers : \A i \in DOMAIN printed[c] : printed[c][i] \in Items
    BY <2>1 DEF MTyped
  <2> QED BY <2>1, <2>2, <2>3 DEF MTyped, TypeOK, Waiting
<1> QED BY <1>1, MInvHolds, PTL

\* The lines of every container are printed once, in order and one at a time,
\* however many containers there are and whatever pieces they write
\* (split_buffer, _enqueue_output, Multiplexer.loop).
THEOREM LinesInOrder == Spec => []PrintedInOrder
<1>1. MInv => PrintedInOrder
  <2> SUFFICES ASSUME MInv, NEW c \in Containers, NEW i \in DOMAIN printed[c],
                      printed[c][i].kind = "line"
               PROVE  LET line == printed[c][i] IN
                      /\ line.from = UpTo(c, i - 1) + 1 /\ line.from <= line.to
                      /\ i > 1 => printed[c][i - 1].kind = "line"
                      /\ \A k \in line.from .. line.to - 1 : ~written[c][k]
                      /\ ~written[c][line.to] => c \in exited /\ line.to = Len(written[c])
    BY DEF PrintedInOrder
  <2> DEFINE line == printed[c][i]
  <2>1. /\ MTyped /\ Order /\ Covered(c) /\ \A a \in Items : Has(c, a) => ItemOK(c, a)
        /\ Len(printed[c]) \in Nat /\ DOMAIN printed[c] = 1 .. Len(printed[c])
        /\ \A m \in DOMAIN printed[c] : printed[c][m] \in Items /\ Printed(c, printed[c][m])
        /\ put[c] \in Nat
    BY InvOf DEF MTyped, Printed
  <2>2. IsLine(c, line) /\ line \in Items
    BY <2>1 DEF ItemOK, Has
  <2>3. line.from \in Nat /\ line.to \in Nat /\ 1 <= line.from /\ line.from <= line.to /\ line.to <= put[c]
    BY <2>2, ItemsAre DEF IsLine
  <2>4. \A m \in 1 .. i - 1 : printed[c][m].kind = "line" /\ printed[c][m].to <= line.from - 1
    <3> SUFFICES ASSUME NEW m \in 1 .. i - 1
                 PROVE  printed[c][m].kind = "line" /\ printed[c][m].to <= line.from - 1
      OBVIOUS
    <3>1. m \in DOMAIN printed[c] /\ m < i
      BY <2>1
    <3>2. Before(printed[c][m], line) /\ printed[c][m].to \in Nat
      BY <2>1, <3>1, ItemsAre DEF Order
    <3> QED BY <2>3, <3>2 DEF Before
  <2>5. line.from - 1 > 0 =>
           \E m \in 1 .. i - 1 : printed[c][m].from <= line.from - 1 /\ line.from - 1 <= printed[c][m].to
    <3> SUFFICES ASSUME line.from - 1 > 0
                 PROVE  \E m \in 1 .. i - 1 : /\ printed[c][m].from <= line.from - 1
                                              /\ line.from - 1 <= printed[c][m].to
      OBVIOUS
    <3>1. line.from - 1 \in 1 .. put[c]
      BY <2>1, <2>3
    <3>2. PICK a \in Items : /\ Has(c, a) /\ a.kind = "line"
                             /\ a.from <= line.from - 1 /\ line.from - 1 <= a.to
      BY <2>1, <3>1 DEF Covered
    <3>3. a.from \in Nat /\ ~(line.to < a.from)
      BY <2>3, <3>2, ItemsAre
    <3>4. ~Queued(c, a)
      <4> SUFFICES ASSUME Queued(c, a) PROVE FALSE
        OBVIOUS
      <4>1. Before(line, a)
        BY <2>1, <2>2 DEF Order
      <4> QED BY <3>2, <3>3, <4>1 DEF Before
    <3>5. PICK m \in DOMAIN printed[c] : printed[c][m] = a
      BY <3>2, <3>4 DEF Has, Printed
    <3>6. ~(i < m)
      <4> SUFFICES ASSUME i < m PROVE FALSE
        OBVIOUS
      <4>1. Before(line, a)
        BY <2>1, <3>5 DEF Order
      <4> QED BY <3>2, <3>3, <4>1 DEF Before
    <3>7. m # i
      BY <2>3, <3>2, <3>5
    <3>8. m \in 1 .. i - 1
      BY <2>1, <3>6, <3>7
    <3> QED BY <3>2, <3>5, <3>8
  <2>6. i - 1 \in Nat /\ i - 1 <= Len(printed[c]) /\ line.from - 1 \in Nat
    BY <2>1, <2>3
  <2>7. \A a \in Items : Printed(c, a) /\ a.kind = "line" => 1 <= a.from /\ a.from <= a.to
    BY <2>1 DEF Has, ItemOK, IsLine
  <2>8. UpTo(c, i - 1) = line.from - 1
    BY <2>1, <2>4, <2>5, <2>6, <2>7, LinesEndWith
  <2>9. i > 1 => i - 1 \in 1 .. i - 1
    BY <2>6
  <2> QED BY <2>2, <2>3, <2>4, <2>8, <2>9 DEF IsLine
<1> QED BY <1>1, MInvHolds, PTL

\* Nothing a container wrote is lost before its exit, the end of the loop or an
\* exception of its reader is shown (attach, wait_on_exit, Multiplexer.loop).
THEOREM NothingIsLost == Spec => []NothingLost
<1>1. MInv => NothingLost
  <2> SUFFICES ASSUME MInv PROVE NothingLost
    OBVIOUS
  <2>1. ASSUME NEW c \in Containers, NEW i \in DOMAIN printed[c], printed[c][i].kind = "exit"
        PROVE  /\ c \in exited /\ i = Len(printed[c])
               /\ IF c \in has_api_logs THEN UpTo(c, i - 1) = Len(written[c])
                  ELSE printed[c][1] = Item("warning")
    <3>1. /\ i = Len(printed[c]) /\ i \in Nat /\ i > 0
          /\ \A m \in DOMAIN printed[c] : m <= i - 1 <=> printed[c][m].kind # "exit"
          /\ printed[c][i] \in Items /\ Printed(c, printed[c][i])
      BY <2>1, ExitIsLast
    <3>2. ItemOK(c, printed[c][i]) /\ Order /\ MTyped /\ Announced(c)
      BY <3>1, InvOf DEF Has
    <3>3. c \in exited /\ put[c] = Len(written[c])
      BY <2>1, <3>2 DEF ItemOK
    <3>4. \A a \in Items : Queued(c, a) => a.kind = "stop"
      BY <2>1, <3>1, <3>2 DEF Order, Before
    <3>5. CASE c \in has_api_logs
      <4>1. i - 1 \in Nat /\ i - 1 <= Len(printed[c])
        BY <3>1
      <4>2. UpTo(c, i - 1) = put[c]
        BY <3>1, <3>4, <3>5, <4>1, AllPrinted
      <4> QED BY <3>1, <3>3, <3>5, <4>2
    <3>6. CASE c \notin has_api_logs
      <4>1. "exit" \in PutBy(reader[c])
        BY <2>1, <3>2 DEF ItemOK
      <4>2. reader[c] # "warning"
        BY <4>1 DEF PutBy
      <4>3. Item("warning").kind = "warning" /\ Item("warning") \in Items
        BY ItemsAre DEF Item
      <4>4. Printed(c, Item("warning"))
        BY <3>2, <3>4, <3>6, <4>2, <4>3 DEF Announced, Has
      <4>5. PICK m \in DOMAIN printed[c] : printed[c][m] = Item("warning")
        BY <4>4 DEF Printed
      <4>6. Len(printed[c]) \in Nat /\ DOMAIN printed[c] = 1 .. Len(printed[c])
        BY <3>2 DEF MTyped
      <4>7. m = 1
        <5> SUFFICES ASSUME m # 1 PROVE FALSE
          OBVIOUS
        <5>1. 1 \in DOMAIN printed[c] /\ 1 < m
          BY <4>6
        <5>2. Before(printed[c][1], printed[c][m])
          BY <3>2, <5>1 DEF Order
        <5> QED BY <4>3, <4>5, <5>2 DEF Before
      <4> QED BY <3>1, <3>3, <3>6, <4>5, <4>7
    <3> QED BY <3>5, <3>6
  <2>2. RaisedOK /\ EndedOK
    BY DEF MInv
  <2> QED BY <2>1, <2>2 DEF NothingLost, RaisedOK, EndedOK
<1> QED BY <1>1, MInvHolds, PTL
=============================================================================
