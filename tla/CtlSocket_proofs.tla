--------------------------- MODULE CtlSocket_proofs ---------------------------
(***************************************************************************)
(* Proofs about CtlSocket, for any capacity of the queue and any number of *)
(* events.                                                                 *)
(*                                                                         *)
(* The properties of StreamIsHonest speak of what the script reads and of  *)
(* what was published; in between, lines are in the queue and in a batch.  *)
(* The invariant follows them through (InOrder, Counted), which needs that *)
(* the read loop and the pump never have a batch at the same time          *)
(* (OneWriter) and that publish finds the connection as long as it is open *)
(* and the server is not closing (Registered).                             *)
(***************************************************************************)
EXTENDS CtlSocket, SequenceTheorems, TLAPS

-----------------------------------------------------------------------------
(* The inductive invariant *)

Line == [kind : {"event", "gap", "snapshot"}, n : Nat, lost : SUBSET Nat]

\* Lines are lines, wherever they are.
LinesOK == queue \in Seq(Line) /\ batch \in Seq(Line) /\ out \in Seq(Line)

\* The pump exists once the read loop is done with subscribe, and either of them
\* has lines to write only where it writes.
OneWriter ==
  /\ conn = "none" => reader = "none"
  /\ reader = "none" => sub = "nil"
  /\ reader \in {"check", "seed", "take", "write"} => pump = "none" /\ sub = "set"
  /\ pump # "none" => sub = "set" /\ reader # "none"
  /\ batch # <<>> => reader = "write" \/ pump = "write"

\* An open connection is in the registry until Close takes it from there, and
\* Close then drops it; a subscription ends with its connection.
Registered ==
  /\ closed <=> closer # "idle"
  /\ conn = "open" => (IF closed THEN closer = "drop" ELSE listed)
  /\ conn = "closed" /\ sub = "set" => done

\* Events ascend within what was read, the batch and the queue, and from each to
\* the next.
Sorted(lines) ==
  \A i, j \in DOMAIN lines :
    i < j /\ lines[i].kind = "event" /\ lines[j].kind = "event" => lines[i].n < lines[j].n
Read == EventsOf(out)
Taken == EventsOf(batch)
Queued == EventsOf(queue)
InOrder ==
  /\ Sorted(out) /\ Sorted(batch) /\ Sorted(queue)
  /\ \A m \in Read, n \in Taken \cup Queued : m < n
  /\ \A m \in Taken, n \in Queued : m < n
  /\ \A n \in Read \cup Taken \cup Queued : n <= published

\* Every event since the subscription is somewhere, or counted.
Known == Read \cup Taken \cup Queued \cup dropped \cup LostOf(batch) \cup LostOf(out)
Counted ==
  conn = "open" /\ sub = "set" /\ ~closed => since + 1 .. published \subseteq Known

Inv == TypeOK /\ LinesOK /\ OneWriter /\ Registered /\ InOrder /\ Counted

-----------------------------------------------------------------------------
(* Lines *)

\* What publish, subscribe and take put into a queue or a batch are lines.
LEMMA LineTypes ==
  /\ \A n \in Nat : Event(n) \in Line /\ Event(n).kind = "event" /\ Event(n).n = n /\ Event(n).lost = {}
  /\ Snapshot \in Line /\ Snapshot.kind = "snapshot" /\ Snapshot.n = 0 /\ Snapshot.lost = {}
  /\ \A S \in SUBSET Nat : Gap(S) \in Line /\ Gap(S).kind = "gap" /\ Gap(S).lost = S
  BY DEF Event, Snapshot, Gap, Line

\* The empty sequence has no lines.
LEMMA NoLines == Sorted(<<>>) /\ EventsOf(<<>>) = {} /\ LostOf(<<>>) = {}
  BY DEF Sorted, EventsOf, LostOf

\* Lines have numbers.
LEMMA EventTypes ==
  ASSUME NEW s \in Seq(Line)
  PROVE  /\ EventsOf(s) \subseteq Nat
         /\ \A i \in DOMAIN s : s[i] \in Line /\ s[i].lost \subseteq LostOf(s)
                                /\ (s[i].kind = "event" => s[i].n \in EventsOf(s))
<1>1. \A i \in DOMAIN s : s[i] \in Line
  BY LenProperties, ElementOfSeq
<1>2. \A i \in DOMAIN s : s[i].n \in Nat
  BY <1>1 DEF Line
<1>3. EventsOf(s) \subseteq Nat
  BY <1>2 DEF EventsOf
<1>4. \A i \in DOMAIN s : s[i].lost \subseteq LostOf(s) /\ (s[i].kind = "event" => s[i].n \in EventsOf(s))
  BY DEF LostOf, EventsOf
<1> QED
  BY <1>1, <1>3, <1>4

\* A line that is appended comes last.
LEMMA AppendLine ==
  ASSUME NEW s \in Seq(Line), NEW l \in Line
  PROVE  /\ Append(s, l) \in Seq(Line)
         /\ EventsOf(Append(s, l)) = EventsOf(s) \cup (IF l.kind = "event" THEN {l.n} ELSE {})
         /\ LostOf(Append(s, l)) = LostOf(s) \cup l.lost
         /\ Sorted(s) /\ (l.kind = "event" => \A n \in EventsOf(s) : n < l.n) => Sorted(Append(s, l))
<1> DEFINE t == Append(s, l)
<1>1. /\ t \in Seq(Line) /\ Len(s) \in Nat /\ Len(t) = Len(s) + 1
      /\ DOMAIN s = 1 .. Len(s) /\ DOMAIN t = 1 .. Len(s) + 1
      /\ (\A i \in 1 .. Len(s) : t[i] = s[i]) /\ t[Len(s) + 1] = l
  BY AppendProperties, LenProperties
<1> HIDE DEF t
<1>2. EventsOf(t) = EventsOf(s) \cup (IF l.kind = "event" THEN {l.n} ELSE {})
  <2>1. ASSUME NEW n PROVE n \in EventsOf(t) <=> (n \in EventsOf(s) \/ (l.kind = "event" /\ n = l.n))
    <3>1. n \in EventsOf(t) <=> \E i \in 1 .. Len(s) + 1 : t[i].kind = "event" /\ n = t[i].n
      BY <1>1 DEF EventsOf
    <3>2. n \in EventsOf(s) <=> \E i \in 1 .. Len(s) : s[i].kind = "event" /\ n = s[i].n
      BY <1>1 DEF EventsOf
    <3>3. \A i \in 1 .. Len(s) + 1 : i \in 1 .. Len(s) \/ i = Len(s) + 1
      BY <1>1
    <3>4. \A i \in 1 .. Len(s) : i \in 1 .. Len(s) + 1
      BY <1>1
    <3>5. Len(s) + 1 \in 1 .. Len(s) + 1
      BY <1>1
    <3> QED
      BY <1>1, <3>1, <3>2, <3>3, <3>4, <3>5
  <2> QED
    BY <2>1
<1>3. LostOf(t) = LostOf(s) \cup l.lost
  <2>1. ASSUME NEW n PROVE n \in LostOf(t) <=> (n \in LostOf(s) \/ n \in l.lost)
    <3>1. n \in LostOf(t) <=> \E i \in 1 .. Len(s) + 1 : n \in t[i].lost
      BY <1>1 DEF LostOf
    <3>2. n \in LostOf(s) <=> \E i \in 1 .. Len(s) : n \in s[i].lost
      BY <1>1 DEF LostOf
    <3>3. \A i \in 1 .. Len(s) + 1 : i \in 1 .. Len(s) \/ i = Len(s) + 1
      BY <1>1
    <3>4. \A i \in 1 .. Len(s) : i \in 1 .. Len(s) + 1
      BY <1>1
    <3>5. Len(s) + 1 \in 1 .. Len(s) + 1
      BY <1>1
    <3> QED
      BY <1>1, <3>1, <3>2, <3>3, <3>4, <3>5
  <2> QED
    BY <2>1
<1>4. ASSUME Sorted(s), l.kind = "event" => \A n \in EventsOf(s) : n < l.n PROVE Sorted(t)
  <2> SUFFICES ASSUME NEW i \in 1 .. Len(s) + 1, NEW j \in 1 .. Len(s) + 1, i < j,
                      t[i].kind = "event", t[j].kind = "event"
               PROVE  t[i].n < t[j].n
    BY <1>1 DEF Sorted
  <2>1. i \in 1 .. Len(s)
    BY <1>1
  <2>2. CASE j \in 1 .. Len(s)
    BY <1>1, <1>4, <2>1, <2>2 DEF Sorted
  <2>3. CASE j = Len(s) + 1
    <3>1. t[i].n \in EventsOf(s)
      BY <1>1, <2>1, EventTypes
    <3> QED
      BY <1>1, <1>4, <2>3, <3>1
  <2> QED
    BY <1>1, <2>2, <2>3
<1> QED
  BY <1>1, <1>2, <1>3, <1>4 DEF t

\* The head of a batch comes before its tail.
LEMMA HeadLine ==
  ASSUME NEW s \in Seq(Line), s # <<>>
  PROVE  /\ Head(s) \in Line /\ Tail(s) \in Seq(Line)
         /\ EventsOf(s) = EventsOf(Tail(s)) \cup (IF Head(s).kind = "event" THEN {Head(s).n} ELSE {})
         /\ LostOf(s) = LostOf(Tail(s)) \cup Head(s).lost
         /\ Sorted(s) => /\ Sorted(Tail(s))
                         /\ Head(s).kind = "event" => \A n \in EventsOf(Tail(s)) : Head(s).n < n
<1> DEFINE t == Tail(s)
           h == Head(s)
<1>1. /\ h \in Line /\ t \in Seq(Line) /\ Len(t) \in Nat /\ Len(s) = Len(t) + 1
      /\ DOMAIN s = 1 .. Len(t) + 1 /\ DOMAIN t = 1 .. Len(t)
      /\ (\A i \in 1 .. Len(t) : t[i] = s[i + 1]) /\ s[1] = h
  BY HeadTailProperties, LenProperties, EmptySeq
<1> HIDE DEF t, h
<1>a. \A i \in 1 .. Len(t) + 1 : i = 1 \/ (i - 1 \in 1 .. Len(t) /\ s[i] = t[i - 1])
  <2> SUFFICES ASSUME NEW i \in 1 .. Len(t) + 1, i # 1 PROVE i - 1 \in 1 .. Len(t) /\ s[i] = t[i - 1]
    OBVIOUS
  <2>1. i - 1 \in 1 .. Len(t) /\ (i - 1) + 1 = i
    BY <1>1
  <2> QED
    BY <1>1, <2>1
<1>b. 1 \in 1 .. Len(t) + 1 /\ \A i \in 1 .. Len(t) : i + 1 \in 1 .. Len(t) + 1
  BY <1>1
<1>2. EventsOf(s) = EventsOf(t) \cup (IF h.kind = "event" THEN {h.n} ELSE {})
  <2>1. ASSUME NEW n PROVE n \in EventsOf(s) <=> (n \in EventsOf(t) \/ (h.kind = "event" /\ n = h.n))
    <3>1. n \in EventsOf(s) <=> \E i \in 1 .. Len(t) + 1 : s[i].kind = "event" /\ n = s[i].n
      BY <1>1 DEF EventsOf
    <3>2. n \in EventsOf(t) <=> \E i \in 1 .. Len(t) : t[i].kind = "event" /\ n = t[i].n
      BY <1>1 DEF EventsOf
    <3> QED
      BY <1>1, <1>a, <1>b, <3>1, <3>2
  <2> QED
    BY <2>1
<1>3. LostOf(s) = LostOf(t) \cup h.lost
  <2>1. ASSUME NEW n PROVE n \in LostOf(s) <=> (n \in LostOf(t) \/ n \in h.lost)
    <3>1. n \in LostOf(s) <=> \E i \in 1 .. Len(t) + 1 : n \in s[i].lost
      BY <1>1 DEF LostOf
    <3>2. n \in LostOf(t) <=> \E i \in 1 .. Len(t) : n \in t[i].lost
      BY <1>1 DEF LostOf
    <3> QED
      BY <1>1, <1>a, <1>b, <3>1, <3>2
  <2> QED
    BY <2>1
<1>4. ASSUME Sorted(s) PROVE Sorted(t)
  <2> SUFFICES ASSUME NEW i \in 1 .. Len(t), NEW j \in 1 .. Len(t), i < j,
                      t[i].kind = "event", t[j].kind = "event"
               PROVE  t[i].n < t[j].n
    BY <1>1 DEF Sorted
  <2>1. i + 1 \in DOMAIN s /\ j + 1 \in DOMAIN s /\ i + 1 < j + 1
    BY <1>1
  <2> QED
    BY <1>1, <1>4, <2>1 DEF Sorted
<1>5. ASSUME Sorted(s), h.kind = "event", NEW n \in EventsOf(t) PROVE h.n < n
  <2>1. PICK i \in 1 .. Len(t) : t[i].kind = "event" /\ n = t[i].n
    BY <1>1 DEF EventsOf
  <2>2. 1 \in DOMAIN s /\ i + 1 \in DOMAIN s /\ 1 < i + 1
    BY <1>1
  <2> QED
    BY <1>1, <1>5, <2>1, <2>2 DEF Sorted
<1> QED
  BY <1>1, <1>2, <1>3, <1>4, <1>5 DEF t, h

\* A gap ahead of the queue leaves its events as they are.
LEMMA GapFirst ==
  ASSUME NEW s \in Seq(Line), NEW g \in Line, g.kind = "gap"
  PROVE  /\ <<g>> \o s \in Seq(Line)
         /\ EventsOf(<<g>> \o s) = EventsOf(s)
         /\ LostOf(<<g>> \o s) = LostOf(s) \cup g.lost
         /\ Sorted(s) => Sorted(<<g>> \o s)
<1> DEFINE t == <<g>> \o s
<1>1. /\ t \in Seq(Line) /\ Len(s) \in Nat /\ Len(t) = Len(s) + 1
      /\ DOMAIN s = 1 .. Len(s) /\ DOMAIN t = 1 .. Len(s) + 1
  BY ConcatProperties, LenProperties
<1>2. t[1] = g /\ \A i \in 1 .. Len(s) : t[i + 1] = s[i]
  BY ConcatProperties, LenProperties
<1> HIDE DEF t
<1>a. \A i \in 1 .. Len(s) + 1 : i = 1 \/ (i - 1 \in 1 .. Len(s) /\ t[i] = s[i - 1])
  <2> SUFFICES ASSUME NEW i \in 1 .. Len(s) + 1, i # 1 PROVE i - 1 \in 1 .. Len(s) /\ t[i] = s[i - 1]
    OBVIOUS
  <2>1. i - 1 \in 1 .. Len(s) /\ (i - 1) + 1 = i
    BY <1>1
  <2> QED
    BY <1>2, <2>1
<1>b. 1 \in 1 .. Len(s) + 1 /\ \A i \in 1 .. Len(s) : i + 1 \in 1 .. Len(s) + 1
  BY <1>1
<1>3. EventsOf(t) = EventsOf(s)
  <2>1. ASSUME NEW n PROVE n \in EventsOf(t) <=> n \in EventsOf(s)
    <3>1. n \in EventsOf(t) <=> \E i \in 1 .. Len(s) + 1 : t[i].kind = "event" /\ n = t[i].n
      BY <1>1 DEF EventsOf
    <3>2. n \in EventsOf(s) <=> \E i \in 1 .. Len(s) : s[i].kind = "event" /\ n = s[i].n
      BY <1>1 DEF EventsOf
    <3> QED
      BY <1>2, <1>a, <1>b, <3>1, <3>2
  <2> QED
    BY <2>1
<1>4. LostOf(t) = LostOf(s) \cup g.lost
  <2>1. ASSUME NEW n PROVE n \in LostOf(t) <=> (n \in LostOf(s) \/ n \in g.lost)
    <3>1. n \in LostOf(t) <=> \E i \in 1 .. Len(s) + 1 : n \in t[i].lost
      BY <1>1 DEF LostOf
    <3>2. n \in LostOf(s) <=> \E i \in 1 .. Len(s) : n \in s[i].lost
      BY <1>1 DEF LostOf
    <3> QED
      BY <1>2, <1>a, <1>b, <3>1, <3>2
  <2> QED
    BY <2>1
<1>5. ASSUME Sorted(s) PROVE Sorted(t)
  <2> SUFFICES ASSUME NEW i \in 1 .. Len(s) + 1, NEW j \in 1 .. Len(s) + 1, i < j,
                      t[i].kind = "event", t[j].kind = "event"
               PROVE  t[i].n < t[j].n
    BY <1>1 DEF Sorted
  <2>1. i # 1 /\ j # 1
    BY <1>1, <1>2
  <2>2. i - 1 \in DOMAIN s /\ j - 1 \in DOMAIN s /\ i - 1 < j - 1 /\ t[i] = s[i - 1] /\ t[j] = s[j - 1]
    BY <1>1, <1>a, <2>1
  <2> QED
    BY <1>5, <2>2 DEF Sorted
<1> QED
  BY <1>1, <1>3, <1>4, <1>5 DEF t

-----------------------------------------------------------------------------
(* What enqueue, take and a write do to the lines *)

\* A line is queued behind the others, or counted.
LEMMA EnqueueFacts ==
  ASSUME TypeOK, LinesOK, InOrder, NEW l \in Line, Enqueue(l),
         l.kind = "event" => \A n \in Queued : n < l.n
  PROVE  /\ queue' \in Seq(Line) /\ Len(queue') <= QueueCap /\ Sorted(queue')
         /\ \/ Queued' = Queued \cup (IF l.kind = "event" THEN {l.n} ELSE {}) /\ dropped' = dropped
            \/ Queued' = Queued /\ dropped' = dropped \cup {l.n}
<1>1. queue \in Seq(Line) /\ Len(queue) \in Nat /\ Len(queue) <= QueueCap /\ Sorted(queue) /\ QueueCap \in Nat
  BY LenProperties, CtlAssumption DEF TypeOK, LinesOK, InOrder
<1>2. CASE Len(queue) >= QueueCap
  <2>1. dropped' = dropped \cup {l.n} /\ queue' = queue
    BY <1>2 DEF Enqueue
  <2> QED
    BY <1>1, <2>1 DEF Queued
<1>3. CASE ~(Len(queue) >= QueueCap)
  <2>1. queue' = Append(queue, l) /\ dropped' = dropped
    BY <1>3 DEF Enqueue
  <2>2. /\ queue' \in Seq(Line)
        /\ EventsOf(queue') = EventsOf(queue) \cup (IF l.kind = "event" THEN {l.n} ELSE {})
        /\ Sorted(queue')
    BY <1>1, <2>1, AppendLine DEF Queued
  <2>3. Len(queue') <= QueueCap
    BY <1>1, <1>3, <2>1, AppendProperties
  <2> QED
    BY <2>1, <2>2, <2>3 DEF Queued
<1> QED
  BY <1>2, <1>3

\* The batch is what was queued, with what was counted at its head.
LEMMA TakeFacts ==
  ASSUME TypeOK, LinesOK, InOrder, Take
  PROVE  /\ batch' \in Seq(Line) /\ queue' = <<>> /\ dropped' = {}
         /\ Sorted(batch') /\ Sorted(queue')
         /\ Taken' = Queued /\ Queued' = {} /\ dropped \subseteq LostOf(batch')
<1>1. queue \in Seq(Line) /\ Sorted(queue) /\ dropped \in SUBSET Nat
  BY CtlAssumption DEF TypeOK, LinesOK, InOrder
<1>2. queue' = <<>> /\ dropped' = {}
  BY DEF Take
<1>3. Queued' = {} /\ Sorted(queue')
  BY <1>2, NoLines DEF Queued
<1>4. CASE dropped = {}
  <2>1. batch' = <<>> \o queue
    BY <1>4 DEF Take
  <2>2. batch' = queue
    BY <1>1, <2>1, ConcatEmptySeq
  <2> QED
    BY <1>1, <1>2, <1>3, <1>4, <2>2 DEF Taken, Queued
<1>5. CASE dropped # {}
  <2>1. batch' = <<Gap(dropped)>> \o queue
    BY <1>5 DEF Take
  <2>2. Gap(dropped) \in Line /\ Gap(dropped).kind = "gap" /\ Gap(dropped).lost = dropped
    BY <1>1, LineTypes
  <2>3. /\ batch' \in Seq(Line) /\ EventsOf(batch') = EventsOf(queue)
        /\ LostOf(batch') = LostOf(queue) \cup dropped /\ Sorted(batch')
    BY <1>1, <2>1, <2>2, GapFirst
  <2> QED
    BY <1>2, <1>3, <2>3 DEF Taken, Queued
<1> QED
  BY <1>4, <1>5

\* A write moves the first line of the batch to the end of what is read.
LEMMA WriteFacts ==
  ASSUME LinesOK, InOrder, batch # <<>>, out' = Append(out, Head(batch)), batch' = Tail(batch)
  PROVE  /\ batch' \in Seq(Line) /\ out' \in Seq(Line) /\ Sorted(batch') /\ Sorted(out')
         /\ Read \subseteq Read' /\ Read' \subseteq Read \cup Taken /\ Taken' \subseteq Taken
         /\ Read' \cup Taken' = Read \cup Taken
         /\ \A m \in Read', n \in Taken' : m < n
         /\ LostOf(out') \cup LostOf(batch') = LostOf(out) \cup LostOf(batch)
<1> DEFINE h == Head(batch)
<1>1. batch \in Seq(Line) /\ out \in Seq(Line) /\ Sorted(batch) /\ Sorted(out)
  BY DEF LinesOK, InOrder
<1>2. \A m \in EventsOf(out), n \in EventsOf(batch) : m < n
  BY DEF InOrder, Read, Taken
<1>3. /\ h \in Line /\ batch' \in Seq(Line)
      /\ EventsOf(batch) = EventsOf(batch') \cup (IF h.kind = "event" THEN {h.n} ELSE {})
      /\ LostOf(batch) = LostOf(batch') \cup h.lost
      /\ Sorted(batch')
      /\ h.kind = "event" => \A n \in EventsOf(batch') : h.n < n
  BY <1>1, HeadLine
<1> HIDE DEF h
<1>4. out' = Append(out, h)
  BY DEF h
<1>5. /\ out' \in Seq(Line)
      /\ EventsOf(out') = EventsOf(out) \cup (IF h.kind = "event" THEN {h.n} ELSE {})
      /\ LostOf(out') = LostOf(out) \cup h.lost
      /\ Sorted(out')
  <2>1. h.kind = "event" => \A n \in EventsOf(out) : n < h.n
    BY <1>2, <1>3
  <2> QED
    BY <1>1, <1>3, <1>4, <2>1, AppendLine
<1>6. \A m \in EventsOf(out'), n \in EventsOf(batch') : m < n
  BY <1>2, <1>3, <1>5
<1> QED
  BY <1>3, <1>5, <1>6 DEF Read, Taken

-----------------------------------------------------------------------------
(* Each part of the invariant *)

\* Flags stay flags.
LEMMA FlagTypes ==
  ASSUME TypeOK, [Next]_vars
  PROVE  closed' \in BOOLEAN /\ listed' \in BOOLEAN /\ done' \in BOOLEAN /\ notify' \in BOOLEAN
<1>t. closed \in BOOLEAN /\ listed \in BOOLEAN /\ done \in BOOLEAN /\ notify \in BOOLEAN
  BY DEF TypeOK
<1>1. CASE Publish
  <2>1. UNCHANGED <<closed, listed, done>>
    BY <1>1 DEF Publish, server, subscriber
  <2>2. notify' = TRUE \/ UNCHANGED notify
    BY <1>1 DEF Publish, Enqueue, subscriber
  <2> QED
    BY <1>t, <2>1, <2>2, Zenon
<1>2. CASE Accept
  <2>1. UNCHANGED <<closed, done, notify>> /\ (listed' = TRUE \/ UNCHANGED listed)
    BY <1>2 DEF Accept, subscriber
  <2> QED
    BY <1>t, <2>1, Zenon
<1>3. CASE Seed
  <2>1. UNCHANGED <<closed, listed, done>> /\ notify' = TRUE
    BY <1>3 DEF Seed, Enqueue, server
  <2> QED
    BY <1>t, <2>1, Zenon
<1>4. CASE ReaderEnds \/ PumpFails \/ CloseDrops
  <2>1. UNCHANGED <<closed, notify>> /\ done' = (done \/ sub = "set") /\ listed' = FALSE
    BY <1>4 DEF ReaderEnds, PumpFails, CloseDrops, ShutdownConn
  <2> QED
    BY <1>t, <2>1, Zenon
<1>5. CASE PumpWakes
  <2>1. UNCHANGED <<closed, listed, done>> /\ notify' = FALSE
    BY <1>5 DEF PumpWakes, server
  <2> QED
    BY <1>t, <2>1, Zenon
<1>6. CASE CloseMarks
  <2>1. UNCHANGED <<done, notify>> /\ closed' = TRUE /\ listed' = FALSE
    BY <1>6 DEF CloseMarks, subscriber
  <2> QED
    BY <1>t, <2>1, Zenon
<1>7. CASE \/ Subscribe \/ CheckOpen \/ SeedTake \/ SeedWrite \/ Reply
           \/ PumpTakes \/ PumpWrites \/ PumpEnds \/ UNCHANGED vars
  <2>1. UNCHANGED <<closed, listed, done, notify>>
    BY <1>7 DEF Subscribe, CheckOpen, SeedTake, SeedWrite, Reply, PumpTakes, PumpWrites, PumpEnds,
                vars, server, subscriber
  <2> QED
    BY <1>t, <2>1
<1> QED
  BY <1>1, <1>2, <1>3, <1>4, <1>5, <1>6, <1>7 DEF Next

\* Phases stay phases.
LEMMA PhaseTypes ==
  ASSUME TypeOK, [Next]_vars
  PROVE  /\ closer' \in {"idle", "drop", "done"}
         /\ conn' \in {"none", "open", "closed"}
         /\ reader' \in {"none", "idle", "check", "seed", "take", "write", "reply", "gone"}
         /\ pump' \in {"none", "wait", "take", "write", "gone"}
         /\ sub' \in {"nil", "set"}
         /\ published' \in 0 .. MaxEvents /\ since' \in 0 .. MaxEvents
<1>1. CASE Publish \/ Accept \/ Subscribe \/ CheckOpen
  BY <1>1, CtlAssumption DEF Publish, Accept, Subscribe, CheckOpen, TypeOK, server, subscriber
<1>2. CASE Seed \/ SeedTake \/ SeedWrite \/ Reply \/ ReaderEnds
  BY <1>2 DEF Seed, SeedTake, SeedWrite, Reply, ReaderEnds, ShutdownConn, TypeOK, server, subscriber
<1>3. CASE PumpWakes \/ PumpTakes \/ PumpWrites \/ PumpFails \/ PumpEnds
  BY <1>3 DEF PumpWakes, PumpTakes, PumpWrites, PumpFails, PumpEnds, ShutdownConn, TypeOK, server, subscriber
<1>4. CASE CloseMarks \/ CloseDrops \/ UNCHANGED vars
  BY <1>4 DEF CloseMarks, CloseDrops, ShutdownConn, TypeOK, vars, server, subscriber
<1> QED
  BY <1>1, <1>2, <1>3, <1>4 DEF Next

\* The read loop and the pump take turns.
LEMMA OneWriterStep == Inv /\ [Next]_vars => OneWriter'
<1> SUFFICES ASSUME Inv, [Next]_vars PROVE OneWriter'
  OBVIOUS
<1>t. TypeOK /\ OneWriter
  BY DEF Inv
<1>1. CASE Publish \/ Accept \/ Subscribe \/ CheckOpen
  BY <1>t, <1>1 DEF Publish, Accept, Subscribe, CheckOpen, OneWriter, TypeOK, Enqueue, subscriber
<1>2. CASE Seed \/ SeedTake \/ SeedWrite \/ Reply
  BY <1>t, <1>2 DEF Seed, SeedTake, SeedWrite, Reply, OneWriter, TypeOK, server, subscriber
<1>3. CASE ReaderEnds
  BY <1>t, <1>3 DEF ReaderEnds, ShutdownConn, OneWriter, TypeOK
<1>4. CASE PumpWakes \/ PumpTakes \/ PumpWrites \/ PumpFails \/ PumpEnds
  BY <1>t, <1>4 DEF PumpWakes, PumpTakes, PumpWrites, PumpFails, PumpEnds, ShutdownConn, OneWriter, TypeOK, subscriber
<1>5. CASE CloseMarks \/ CloseDrops \/ UNCHANGED vars
  BY <1>t, <1>5 DEF CloseMarks, CloseDrops, ShutdownConn, OneWriter, TypeOK, vars, subscriber
<1> QED
  BY <1>1, <1>2, <1>3, <1>4, <1>5 DEF Next

\* Nobody is left out by Close.
LEMMA RegisteredStep == Inv /\ [Next]_vars => Registered'
<1> SUFFICES ASSUME Inv, [Next]_vars PROVE Registered'
  OBVIOUS
<1>t. TypeOK /\ OneWriter /\ Registered
  BY DEF Inv
<1>1. CASE UNCHANGED <<closed, closer, listed, conn, sub, done>>
  BY <1>t, <1>1 DEF Registered
<1>2. CASE Accept
  <2>1. /\ UNCHANGED <<closed, closer, sub, done>>
        /\ closed => conn' = "closed"
        /\ ~closed => conn' = "open" /\ listed'
    BY <1>2 DEF Accept, subscriber
  <2>2. sub = "nil"
    BY <1>t, <1>2 DEF Accept, OneWriter
  <2> QED
    BY <1>t, <2>1, <2>2 DEF Registered
<1>3. CASE Subscribe \/ CheckOpen
  <2>1. /\ UNCHANGED <<closed, closer, listed, conn, done>>
        /\ conn = "open" \/ sub' = sub \/ sub' = "nil"
    BY <1>3 DEF Subscribe, CheckOpen, server
  <2> QED
    BY <1>t, <2>1 DEF Registered
<1>4. CASE ReaderEnds \/ PumpFails
  <2>1. UNCHANGED <<closed, closer, sub>> /\ conn' = "closed" /\ (sub = "set" => done')
    BY <1>4 DEF ReaderEnds, PumpFails, ShutdownConn
  <2> QED
    BY <1>t, <2>1 DEF Registered
<1>5. CASE CloseMarks
  <2>1. /\ closed' /\ closer' = (IF listed THEN "drop" ELSE "done") /\ closer = "idle"
        /\ UNCHANGED <<conn, sub, done>>
    BY <1>5 DEF CloseMarks, subscriber
  <2> QED
    BY <1>t, <2>1 DEF Registered
<1>6. CASE CloseDrops
  <2>1. /\ UNCHANGED <<closed, sub>> /\ closer = "drop" /\ closer' = "done"
        /\ conn' = "closed" /\ (sub = "set" => done')
    BY <1>6 DEF CloseDrops, ShutdownConn
  <2> QED
    BY <1>t, <2>1 DEF Registered
<1>7. CASE \/ Publish \/ Seed \/ SeedTake \/ SeedWrite \/ Reply
           \/ PumpWakes \/ PumpTakes \/ PumpWrites \/ PumpEnds \/ UNCHANGED vars
  <2>1. UNCHANGED <<closed, closer, listed, conn, sub, done>>
    BY <1>7 DEF Publish, Seed, SeedTake, SeedWrite, Reply, PumpWakes, PumpTakes, PumpWrites, PumpEnds,
                vars, server, subscriber
  <2> QED
    BY <1>1, <2>1
<1> QED
  BY <1>2, <1>3, <1>4, <1>5, <1>6, <1>7 DEF Next

-----------------------------------------------------------------------------
(* The lines, step by step *)

\* What holds of the lines after every step.
LinesFine ==
  /\ LinesOK /\ InOrder
  /\ Len(queue) <= QueueCap /\ dropped \subseteq 0 .. MaxEvents

\* An event is published, or the snapshot queued.
LEMMA QueueStep ==
  ASSUME Inv, NEW l \in Line, Enqueue(l), UNCHANGED <<batch, out>>,
         published' \in Nat, published' <= MaxEvents,
         published <= published', l.n <= published',
         l.kind = "event" => published < l.n
  PROVE  LinesFine'
<1>1. /\ TypeOK /\ LinesOK /\ InOrder /\ published \in Nat /\ MaxEvents \in Nat
      /\ l.n \in Nat /\ l.kind \in {"event", "gap", "snapshot"}
  BY CtlAssumption DEF Inv, TypeOK, Line
<1>2. \A n \in Read \cup Taken \cup Queued : n \in Nat /\ n <= published
  <2>1. Read \subseteq Nat /\ Taken \subseteq Nat /\ Queued \subseteq Nat
    BY <1>1, EventTypes DEF LinesOK, Read, Taken, Queued
  <2> QED
    BY <1>1, <2>1 DEF InOrder
<1>3. l.kind = "event" => \A n \in Queued : n < l.n
  BY <1>1, <1>2
<1>4. /\ queue' \in Seq(Line) /\ Len(queue') <= QueueCap /\ Sorted(queue')
      /\ \/ Queued' = Queued \cup (IF l.kind = "event" THEN {l.n} ELSE {}) /\ dropped' = dropped
         \/ Queued' = Queued /\ dropped' = dropped \cup {l.n}
  BY <1>1, <1>3, EnqueueFacts
<1>5. Read' = Read /\ Taken' = Taken
  BY DEF Read, Taken
<1>6. LinesOK'
  BY <1>1, <1>4 DEF LinesOK
<1>7. dropped' \subseteq 0 .. MaxEvents
  <2>1. dropped \subseteq 0 .. MaxEvents /\ l.n \in 0 .. MaxEvents
    BY <1>1 DEF TypeOK
  <2> QED
    BY <1>4, <2>1
<1>8. \A n \in Queued' : n \in Queued \/ (l.kind = "event" /\ n = l.n)
  BY <1>4
<1>9. InOrder'
  <2>1. Sorted(out') /\ Sorted(batch') /\ Sorted(queue')
    BY <1>1, <1>4 DEF InOrder
  <2>2. \A m \in Read', n \in Taken' \cup Queued' : m < n
    BY <1>1, <1>2, <1>5, <1>8 DEF InOrder
  <2>3. \A m \in Taken', n \in Queued' : m < n
    BY <1>1, <1>2, <1>5, <1>8 DEF InOrder
  <2>4. \A n \in Read' \cup Taken' \cup Queued' : n <= published'
    BY <1>1, <1>2, <1>5, <1>8
  <2> QED
    BY <2>1, <2>2, <2>3, <2>4 DEF InOrder
<1> QED
  BY <1>4, <1>6, <1>7, <1>9 DEF LinesFine

\* The queue is taken, while no lines are in hand.
LEMMA TakeStep ==
  ASSUME Inv, Take, batch = <<>>, UNCHANGED <<out, published>>
  PROVE  LinesFine'
<1>1. TypeOK /\ LinesOK /\ InOrder
  BY DEF Inv
<1>2. /\ batch' \in Seq(Line) /\ queue' = <<>> /\ dropped' = {}
      /\ Sorted(batch') /\ Sorted(queue')
      /\ Taken' = Queued /\ Queued' = {}
  BY <1>1, TakeFacts
<1>3. Read' = Read
  BY DEF Read
<1>4. LinesOK'
  BY <1>1, <1>2 DEF LinesOK
<1>5. InOrder'
  BY <1>1, <1>2, <1>3 DEF InOrder
<1>6. Len(queue') <= QueueCap
  BY <1>2, CtlAssumption
<1> QED
  BY <1>2, <1>4, <1>5, <1>6 DEF LinesFine

\* A line is written.
LEMMA WriteStep ==
  ASSUME Inv, batch # <<>>, out' = Append(out, Head(batch)), batch' = Tail(batch),
         UNCHANGED <<queue, dropped, published>>
  PROVE  LinesFine'
<1>1. TypeOK /\ LinesOK /\ InOrder
  BY DEF Inv
<1>2. /\ batch' \in Seq(Line) /\ out' \in Seq(Line) /\ Sorted(batch') /\ Sorted(out')
      /\ Read' \subseteq Read \cup Taken /\ Taken' \subseteq Taken
      /\ \A m \in Read', n \in Taken' : m < n
  BY <1>1, WriteFacts
<1>3. Queued' = Queued
  BY DEF Queued
<1>4. LinesOK'
  BY <1>1, <1>2 DEF LinesOK
<1>5. InOrder'
  <2>1. \A m \in Read', n \in Taken' \cup Queued' : m < n
    BY <1>1, <1>2, <1>3 DEF InOrder
  <2>2. \A m \in Taken', n \in Queued' : m < n
    BY <1>1, <1>2, <1>3 DEF InOrder
  <2>3. \A n \in Read' \cup Taken' \cup Queued' : n <= published'
    BY <1>1, <1>2, <1>3 DEF InOrder
  <2> QED
    BY <1>1, <1>2, <2>1, <2>2, <2>3 DEF InOrder
<1> QED
  BY <1>1, <1>4, <1>5 DEF LinesFine, TypeOK

\* Nothing happens to the lines, or those in hand are given up.
LEMMA KeepStep ==
  ASSUME Inv, batch' = batch \/ batch' = <<>>, UNCHANGED <<queue, dropped, out>>,
         published' \in Nat, published <= published'
  PROVE  LinesFine'
<1>1. TypeOK /\ LinesOK /\ InOrder /\ published \in Nat
  BY CtlAssumption DEF Inv, TypeOK
<1>2. Read \subseteq Nat /\ Taken \subseteq Nat /\ Queued \subseteq Nat
  BY <1>1, EventTypes DEF LinesOK, Read, Taken, Queued
<1>3. Read' = Read /\ Queued' = Queued /\ Taken' \subseteq Taken /\ Sorted(batch') /\ batch' \in Seq(Line)
  <2>1. CASE batch' = batch
    BY <1>1, <2>1 DEF Read, Queued, Taken, InOrder, LinesOK
  <2>2. CASE batch' = <<>>
    BY <1>1, <2>2, NoLines DEF Read, Queued, Taken, InOrder, LinesOK
  <2> QED
    BY <2>1, <2>2
<1>4. LinesOK'
  BY <1>1, <1>3 DEF LinesOK
<1>5. InOrder'
  <2>1. \A n \in Read' \cup Taken' \cup Queued' : n <= published'
    BY <1>1, <1>2, <1>3 DEF InOrder
  <2> QED
    BY <1>1, <1>3, <2>1 DEF InOrder
<1> QED
  BY <1>1, <1>4, <1>5 DEF LinesFine, TypeOK

\* Every step leaves the lines well formed and in order.
LEMMA LinesStep == Inv /\ [Next]_vars => LinesFine'
<1> SUFFICES ASSUME Inv, [Next]_vars PROVE LinesFine'
  OBVIOUS
<1>t. TypeOK /\ OneWriter /\ published \in Nat /\ MaxEvents \in Nat /\ published <= MaxEvents
  BY CtlAssumption DEF Inv, TypeOK
<1>1. CASE Publish
  <2>1. published' = published + 1 /\ published < MaxEvents /\ UNCHANGED <<batch, out>>
    BY <1>1 DEF Publish
  <2>2. published' \in Nat /\ published' <= MaxEvents /\ published <= published' /\ published < published'
    BY <1>t, <2>1
  <2>3. CASE ~closed /\ listed /\ sub = "set"
    <3>1. Enqueue(Event(published'))
      BY <1>1, <2>3 DEF Publish
    <3>2. Event(published') \in Line /\ Event(published').n = published'
      BY <2>2, LineTypes
    <3> QED
      BY <2>1, <2>2, <3>1, <3>2, QueueStep
  <2>4. CASE ~(~closed /\ listed /\ sub = "set")
    <3>1. UNCHANGED <<queue, dropped>>
      BY <1>1, <2>4 DEF Publish, subscriber
    <3> QED
      BY <2>1, <2>2, <3>1, KeepStep
  <2> QED
    BY <2>3, <2>4
<1>2. CASE Seed
  <2>1. Enqueue(Snapshot) /\ UNCHANGED <<batch, out, published>>
    BY <1>2 DEF Seed
  <2>2. Snapshot \in Line /\ Snapshot.n = 0 /\ Snapshot.kind # "event"
    BY LineTypes
  <2>3. Snapshot.n <= published' /\ published <= published'
    BY <1>t, <2>1, <2>2
  <2> QED
    BY <1>t, <2>1, <2>2, <2>3, QueueStep
<1>3. CASE SeedTake \/ PumpTakes
  <2>1. Take /\ UNCHANGED <<out, published>> /\ (reader = "take" \/ pump = "take")
    BY <1>3 DEF SeedTake, PumpTakes
  <2>2. batch = <<>>
    BY <1>t, <2>1 DEF OneWriter
  <2> QED
    BY <2>1, <2>2, TakeStep
<1>4. CASE SeedWrite \/ PumpWrites
  <2>1. UNCHANGED <<queue, dropped, published>>
    BY <1>4 DEF SeedWrite, PumpWrites, subscriber
  <2>2. \/ batch # <<>> /\ out' = Append(out, Head(batch)) /\ batch' = Tail(batch)
        \/ UNCHANGED <<out, batch>>
    BY <1>4 DEF SeedWrite, PumpWrites
  <2>3. published <= published'
    BY <1>t, <2>1
  <2> QED
    BY <1>t, <2>1, <2>2, <2>3, WriteStep, KeepStep
<1>5. CASE \/ Accept \/ Subscribe \/ CheckOpen \/ Reply \/ ReaderEnds \/ PumpWakes \/ PumpFails
           \/ PumpEnds \/ CloseMarks \/ CloseDrops \/ UNCHANGED vars
  <2>1. UNCHANGED <<queue, dropped, out, published>> /\ (batch' = batch \/ batch' = <<>>)
    BY <1>5 DEF Accept, Subscribe, CheckOpen, Reply, ReaderEnds, PumpWakes, PumpFails, PumpEnds,
                CloseMarks, CloseDrops, vars, subscriber
  <2>2. published <= published'
    BY <1>t, <2>1
  <2> QED
    BY <1>t, <2>1, <2>2, KeepStep
<1> QED
  BY <1>1, <1>2, <1>3, <1>4, <1>5 DEF Next

\* No event gets lost uncounted.
LEMMA CountedStep == Inv /\ [Next]_vars => Counted'
<1> SUFFICES ASSUME Inv, [Next]_vars, conn' = "open", sub' = "set", ~closed'
             PROVE  (since + 1 .. published \subseteq Known)'
  BY DEF Counted
<1>t. /\ TypeOK /\ LinesOK /\ InOrder /\ OneWriter /\ Registered
      /\ published \in Nat /\ MaxEvents \in Nat /\ since \in Nat
  BY CtlAssumption DEF Inv, TypeOK
<1>0. ASSUME since' = since, published' = published, Known \subseteq Known',
             conn = "open", sub = "set", ~closed
      PROVE  (since + 1 .. published \subseteq Known)'
  BY <1>0 DEF Inv, Counted
<1>1. CASE Publish
  <2>1. /\ published' = published + 1 /\ UNCHANGED <<batch, out, since, conn, closed, listed, sub>>
    BY <1>1 DEF Publish, server, subscriber
  <2>2. conn = "open" /\ sub = "set" /\ ~closed
    BY <2>1
  <2>3. listed
    BY <1>t, <2>2 DEF Registered
  <2>4. Enqueue(Event(published'))
    BY <1>1, <2>2, <2>3 DEF Publish
  <2>5. published' \in Nat
    BY <1>t, <2>1
  <2>6. Event(published') \in Line /\ Event(published').n = published' /\ Event(published').kind = "event"
    BY <2>5, LineTypes
  <2>7. \A n \in Queued : n < published'
    <3>1. Queued \subseteq Nat
      BY <1>t, EventTypes DEF LinesOK, Queued
    <3> QED
      BY <1>t, <2>1, <3>1 DEF InOrder
  <2>8. \/ Queued' = Queued \cup {published'} /\ dropped' = dropped
        \/ Queued' = Queued /\ dropped' = dropped \cup {published'}
    BY <1>t, <2>4, <2>6, <2>7, EnqueueFacts
  <2>9. Known' = Known \cup {published'}
    BY <2>1, <2>8 DEF Known, Read, Taken
  <2>10. since + 1 .. published \subseteq Known
    BY <2>2 DEF Inv, Counted
  <2>11. \A n \in since' + 1 .. published' : n \in since + 1 .. published \/ n = published'
    BY <1>t, <2>1
  <2> QED
    BY <2>9, <2>10, <2>11
<1>2. CASE Seed
  <2>1. Enqueue(Snapshot) /\ UNCHANGED <<batch, out, published, since, conn, sub, closed>>
    BY <1>2 DEF Seed, server
  <2>2. Snapshot \in Line /\ Snapshot.kind # "event"
    BY LineTypes
  <2>3. Queued \subseteq Queued' /\ dropped \subseteq dropped'
    BY <1>t, <2>1, <2>2, EnqueueFacts
  <2> QED
    BY <1>0, <2>1, <2>3 DEF Known, Read, Taken
<1>3. CASE SeedTake \/ PumpTakes
  <2>1. /\ Take /\ UNCHANGED <<out, published, since, conn, sub, closed>>
        /\ reader = "take" \/ pump = "take"
    BY <1>3 DEF SeedTake, PumpTakes, server
  <2>2. batch = <<>>
    BY <1>t, <2>1 DEF OneWriter
  <2>3. Taken = {} /\ LostOf(batch) = {}
    BY <2>2, NoLines DEF Taken
  <2>4. Taken' = Queued /\ dropped \subseteq LostOf(batch')
    BY <1>t, <2>1, TakeFacts
  <2> QED
    BY <1>0, <2>1, <2>3, <2>4 DEF Known, Read
<1>4. CASE SeedWrite \/ PumpWrites
  <2>1. UNCHANGED <<queue, dropped, published, since, conn, sub, closed>>
    BY <1>4 DEF SeedWrite, PumpWrites, subscriber, server
  <2>2. \/ batch # <<>> /\ out' = Append(out, Head(batch)) /\ batch' = Tail(batch)
        \/ UNCHANGED <<out, batch>>
    BY <1>4 DEF SeedWrite, PumpWrites
  <2>3. Known \subseteq Known'
    <3>1. CASE UNCHANGED <<out, batch>>
      BY <2>1, <3>1 DEF Known, Read, Taken, Queued
    <3>2. CASE batch # <<>> /\ out' = Append(out, Head(batch)) /\ batch' = Tail(batch)
      <4>1. /\ Read' \cup Taken' = Read \cup Taken
            /\ LostOf(out') \cup LostOf(batch') = LostOf(out) \cup LostOf(batch)
        BY <1>t, <3>2, WriteFacts
      <4> QED
        BY <2>1, <4>1 DEF Known, Queued
    <3> QED
      BY <2>2, <3>1, <3>2
  <2> QED
    BY <1>0, <2>1, <2>3
<1>5. CASE Subscribe
  <2>1. since' = published /\ published' = published
    BY <1>5 DEF Subscribe
  <2> QED
    BY <1>t, <2>1
<1>6. CASE Accept
  BY <1>t, <1>6 DEF Accept, OneWriter, subscriber
<1>7. CASE ReaderEnds \/ PumpFails \/ CloseMarks \/ CloseDrops
  BY <1>7 DEF ReaderEnds, PumpFails, CloseMarks, CloseDrops, ShutdownConn
<1>8. CASE CheckOpen \/ Reply \/ PumpWakes \/ PumpEnds \/ UNCHANGED vars
  <2>1. UNCHANGED <<queue, dropped, out, batch, published, since, conn, closed>> /\ (sub' = sub \/ sub' = "nil")
    BY <1>8 DEF CheckOpen, Reply, PumpWakes, PumpEnds, vars, server, subscriber
  <2> QED
    BY <1>0, <2>1 DEF Known, Read, Taken, Queued
<1> QED
  BY <1>1, <1>2, <1>3, <1>4, <1>5, <1>6, <1>7, <1>8 DEF Next

-----------------------------------------------------------------------------
(* The theorems *)

\* The inductive invariant holds in every reachable state.
THEOREM InvHolds == Spec => []Inv
<1>1. Init => Inv
  <2> SUFFICES ASSUME Init PROVE Inv
    OBVIOUS
  <2>1. queue = <<>> /\ batch = <<>> /\ out = <<>>
    BY DEF Init
  <2>2. Read = {} /\ Taken = {} /\ Queued = {}
    BY <2>1, NoLines DEF Read, Taken, Queued
  <2>3. LinesOK /\ InOrder
    BY <2>1, <2>2, NoLines DEF LinesOK, InOrder
  <2>4. TypeOK
    <3>1. closed \in BOOLEAN /\ listed \in BOOLEAN /\ done \in BOOLEAN /\ notify \in BOOLEAN
      BY Zenon DEF Init
    <3>2. Len(queue) <= QueueCap /\ published \in 0 .. MaxEvents /\ since \in 0 .. MaxEvents
      BY CtlAssumption DEF Init
    <3> QED
      BY <3>1, <3>2 DEF Init, TypeOK
  <2> QED
    BY <2>3, <2>4 DEF Init, Inv, OneWriter, Registered, Counted
<1>2. Inv /\ [Next]_vars => Inv'
  <2> SUFFICES ASSUME Inv, [Next]_vars PROVE Inv'
    OBVIOUS
  <2>1. LinesFine' /\ OneWriter' /\ Registered' /\ Counted'
    BY LinesStep, OneWriterStep, RegisteredStep, CountedStep
  <2>2. TypeOK'
    <3>1. TypeOK
      BY DEF Inv
    <3> QED
      BY <2>1, <3>1, FlagTypes, PhaseTypes DEF TypeOK, LinesFine
  <2> QED
    BY <2>1, <2>2 DEF Inv, LinesFine
<1> QED
  BY <1>1, <1>2, PTL DEF Spec

\* A subscriber reads every event in the order of publication, or counted in a
\* gap, however publish, the seed and the pump interleave; and when Close has
\* returned no connection is open and no pump waits on a live subscription.
THEOREM StreamIsHonestHolds == Spec => []StreamIsHonest
<1>1. Inv => StreamIsHonest
  <2> SUFFICES ASSUME Inv PROVE StreamIsHonest
    OBVIOUS
  <2>t. TypeOK /\ OneWriter /\ Registered /\ InOrder /\ Counted
    BY DEF Inv
  <2>1. NothingUncounted
    BY <2>t DEF NothingUncounted, Counted, Known, Read, Taken, Queued
  <2>2. EventsInOrder
    BY <2>t DEF EventsInOrder, InOrder, Sorted
  <2>3. CloseIsComplete
    <3> SUFFICES ASSUME closer = "done" PROVE conn # "open" /\ (pump = "wait" => done)
      BY DEF CloseIsComplete
    <3>1. closed /\ conn # "open"
      BY <2>t DEF Registered
    <3>2. pump = "wait" => sub = "set" /\ conn # "none"
      BY <2>t DEF OneWriter
    <3>3. conn \in {"none", "open", "closed"}
      BY <2>t DEF TypeOK
    <3> QED
      BY <2>t, <3>1, <3>2, <3>3 DEF Registered
  <2> QED
    BY <2>t, <2>1, <2>2, <2>3 DEF StreamIsHonest
<1> QED
  BY <1>1, InvHolds, PTL

=============================================================================
