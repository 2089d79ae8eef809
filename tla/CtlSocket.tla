----------------------------- MODULE CtlSocket -----------------------------
(***************************************************************************)
(* internal/ctlsocket: the local control socket's event stream, for one    *)
(* connection of a script.                                                 *)
(*                                                                         *)
(* The read loop of the connection serves the requests and, on subscribe,  *)
(* registers a bounded queue, seeds it with a snapshot and starts a pump.  *)
(* The client's pumps publish from their own goroutines and never wait for *)
(* a subscriber: what does not fit is counted, and the count is reported   *)
(* as a gap at the head of the next batch.  Server.Close runs on the       *)
(* client's main goroutine.  The other three commands call into other      *)
(* components and answer with one line; they do not touch the stream.      *)
(*                                                                         *)
(* An event is the number of its publication.                              *)
(***************************************************************************)
EXTENDS Naturals, Sequences, SequencesExt, FiniteSets

CONSTANTS
  QueueCap,   \* subscriber.queueCap
  MaxEvents   \* bound: events published

ASSUME CtlAssumption ==
  /\ QueueCap \in Nat /\ QueueCap > 0
  /\ MaxEvents \in Nat

VARIABLES
  closed,     \* Server.closed
  closer,     \* where Server.Close is
  listed,     \* the connection is in Server.conns
  conn,       \* the socket: "none", "open" or "closed"
  reader,     \* where the read loop is
  pump,       \* where the pump is
  sub,        \* sc.sub: "nil" or "set"
  done,       \* sub.done is closed
  queue,      \* sub.queue
  dropped,    \* the events behind sub.dropped
  notify,     \* sub.notify holds a wake-up
  batch,      \* lines taken and not yet written
  out,        \* lines the script can read
  published,  \* events published so far
  since       \* events published before the subscriber was registered

server == <<closed, closer, listed>>
subscriber == <<sub, done, queue, dropped, notify>>
vars == <<server, conn, reader, pump, subscriber, batch, out, published, since>>

Event(n) == [kind |-> "event", n |-> n, lost |-> {}]
Gap(lost) == [kind |-> "gap", n |-> 0, lost |-> lost]
Snapshot == [kind |-> "snapshot", n |-> 0, lost |-> {}]

-----------------------------------------------------------------------------
(* The subscriber's queue *)

\* enqueue: a full queue counts the new line as dropped; either way the pump is
\* woken.  The snapshot counts like any other line.
Enqueue(line) ==
  /\ IF Len(queue) >= QueueCap
     THEN dropped' = dropped \cup {line.n} /\ UNCHANGED queue
     ELSE queue' = Append(queue, line) /\ UNCHANGED dropped
  /\ notify' = TRUE

\* take that clears the count without a gap line.
TakeSilently ==
  /\ batch' = queue
  /\ queue' = <<>> /\ dropped' = {}

\* take with the newest line first.
TakeNewestFirst ==
  /\ batch' = (IF dropped # {} THEN <<Gap(dropped)>> ELSE <<>>) \o Reverse(queue)
  /\ queue' = <<>> /\ dropped' = {}

\* take: everything queued, headed by a gap for what was dropped.
Take ==
  /\ batch' = (IF dropped # {} THEN <<Gap(dropped)>> ELSE <<>>) \o queue
  /\ queue' = <<>> /\ dropped' = {}

\* shutdown: end the subscription, close the socket, leave the fan-out.
ShutdownConn ==
  /\ done' = (done \/ sub = "set")
  /\ conn' = "closed"
  /\ listed' = FALSE

\* publish, to a connection that is listed and has a subscriber.
Publish ==
  /\ published < MaxEvents
  /\ published' = published + 1
  /\ IF ~closed /\ listed /\ sub = "set"
     THEN Enqueue(Event(published')) /\ UNCHANGED <<sub, done>>
     ELSE UNCHANGED subscriber
  /\ UNCHANGED <<server, conn, reader, pump, batch, out, since>>

-----------------------------------------------------------------------------
(* Serve and the read loop *)

\* Serve without the look at the closed flag.
AcceptBlindly ==
  /\ conn = "none"
  /\ conn' = "open" /\ listed' = TRUE /\ reader' = "idle"
  /\ UNCHANGED <<closed, closer, pump, subscriber, batch, out, published, since>>

\* Serve: a connection that Close raced is closed here, nobody else would.
Accept ==
  /\ conn = "none"
  /\ IF closed THEN conn' = "closed" /\ UNCHANGED <<listed, reader>>
     ELSE conn' = "open" /\ listed' = TRUE /\ reader' = "idle"
  /\ UNCHANGED <<closed, closer, pump, subscriber, batch, out, published, since>>

\* subscribe, first half: the subscriber exists and publish finds it.  A second
\* request is answered with an error and changes nothing.
Subscribe ==
  /\ reader = "idle" /\ conn = "open"
  /\ sub = "nil"
  /\ sub' = "set"
  /\ since' = published
  /\ reader' = "check"
  /\ UNCHANGED <<server, conn, pump, done, queue, dropped, notify, batch, out, published>>

\* Server shutting down: the subscriber is detached and the request refused.
CheckOpen ==
  /\ reader = "check"
  /\ \/ /\ closed
        /\ sub' = "nil"
        /\ reader' = "reply"
     \/ /\ ~closed
        /\ reader' = "seed"
        /\ UNCHANGED sub
  /\ UNCHANGED <<server, conn, pump, done, queue, dropped, notify, batch, out, published, since>>

\* The snapshot is queued behind whatever has been published meanwhile ...
Seed ==
  /\ reader = "seed"
  /\ Enqueue(Snapshot)
  /\ reader' = "take"
  /\ UNCHANGED <<server, conn, pump, sub, done, batch, out, published, since>>

\* ... and the queue written before the pump exists.
SeedTake ==
  /\ reader = "take"
  /\ Take
  /\ reader' = "write"
  /\ UNCHANGED <<server, conn, pump, sub, done, notify, out, published, since>>

SeedWrite ==
  /\ reader = "write"
  /\ \/ /\ batch # <<>> /\ conn = "open"
        /\ out' = Append(out, Head(batch))
        /\ batch' = Tail(batch)
        /\ UNCHANGED <<reader, pump>>
     \/ /\ batch = <<>>
        /\ pump' = "wait"
        /\ reader' = "reply"
        /\ UNCHANGED <<out, batch>>
  /\ UNCHANGED <<server, conn, subscriber, published, since>>

\* The response line, which no property looks at.
Reply ==
  /\ reader = "reply" /\ conn = "open"
  /\ reader' = "idle"
  /\ UNCHANGED <<server, conn, pump, subscriber, batch, out, published, since>>

\* ReaderEnds that leaves the pump to find out for itself.
ReaderEndsAlone ==
  /\ reader \in {"idle", "reply"} \/ (reader = "write" /\ batch # <<>>)
  /\ reader' = "gone"
  /\ conn' = "closed" /\ listed' = FALSE
  /\ batch' = IF reader = "write" THEN <<>> ELSE batch
  /\ UNCHANGED <<closed, closer, pump, subscriber, out, published, since>>

\* The script goes away, sends what is no line, or does not read in time: the
\* read loop leaves where it reads or writes and shuts the connection down.
ReaderEnds ==
  /\ reader \in {"idle", "reply"} \/ (reader = "write" /\ batch # <<>>)
  /\ reader' = "gone"
  /\ ShutdownConn
  /\ batch' = IF reader = "write" THEN <<>> ELSE batch
  /\ UNCHANGED <<closed, closer, pump, sub, queue, dropped, notify, out, published, since>>

-----------------------------------------------------------------------------
(* The pump *)

PumpWakes ==
  /\ pump = "wait" /\ notify
  /\ notify' = FALSE
  /\ pump' = "take"
  /\ UNCHANGED <<server, conn, reader, sub, done, queue, dropped, batch, out, published, since>>

PumpTakes ==
  /\ pump = "take"
  /\ Take
  /\ pump' = "write"
  /\ UNCHANGED <<server, conn, reader, sub, done, notify, out, published, since>>

\* The pump with the wake-up cleared after the batch instead of before it.
PumpWritesClearingLate ==
  /\ pump = "write"
  /\ \/ /\ batch # <<>> /\ conn = "open"
        /\ out' = Append(out, Head(batch))
        /\ batch' = Tail(batch)
        /\ UNCHANGED <<pump, notify>>
     \/ /\ batch = <<>>
        /\ pump' = "wait"
        /\ notify' = FALSE
        /\ UNCHANGED <<out, batch>>
  /\ UNCHANGED <<server, conn, reader, sub, done, queue, dropped, published, since>>

PumpWrites ==
  /\ pump = "write"
  /\ \/ /\ batch # <<>> /\ conn = "open"
        /\ out' = Append(out, Head(batch))
        /\ batch' = Tail(batch)
        /\ UNCHANGED pump
     \/ /\ batch = <<>>
        /\ pump' = "wait"
        /\ UNCHANGED <<out, batch>>
  /\ UNCHANGED <<server, conn, reader, subscriber, published, since>>

\* A write past its deadline, or to a socket that is closed: shut down.
PumpFails ==
  /\ pump = "write" /\ batch # <<>>
  /\ pump' = "gone"
  /\ batch' = <<>>
  /\ ShutdownConn
  /\ UNCHANGED <<closed, closer, reader, sub, queue, dropped, notify, out, published, since>>

\* The subscription has ended, which both of the pump's selects look at; a
\* wake-up that is ready as well may be preferred.
PumpEnds ==
  /\ done
  /\ \/ pump = "wait"
     \/ pump = "write" /\ batch = <<>>
  /\ pump' = "gone"
  /\ UNCHANGED <<server, conn, reader, subscriber, batch, out, published, since>>

-----------------------------------------------------------------------------
(* Server.Close *)

CloseMarks ==
  /\ closer = "idle"
  /\ closed' = TRUE
  /\ closer' = IF listed THEN "drop" ELSE "done"
  /\ listed' = FALSE
  /\ UNCHANGED <<conn, reader, pump, subscriber, batch, out, published, since>>

CloseDrops ==
  /\ closer = "drop"
  /\ closer' = "done"
  /\ ShutdownConn
  /\ UNCHANGED <<closed, reader, pump, sub, queue, dropped, notify, batch, out, published, since>>

Init ==
  /\ closed = FALSE /\ closer = "idle" /\ listed = FALSE
  /\ conn = "none" /\ reader = "none" /\ pump = "none"
  /\ sub = "nil" /\ done = FALSE /\ queue = <<>> /\ dropped = {} /\ notify = FALSE
  /\ batch = <<>> /\ out = <<>>
  /\ published = 0 /\ since = 0

Next ==
  \/ Publish
  \/ Accept \/ Subscribe \/ CheckOpen \/ Seed \/ SeedTake \/ SeedWrite \/ Reply
  \/ ReaderEnds
  \/ PumpWakes \/ PumpTakes \/ PumpWrites \/ PumpFails \/ PumpEnds
  \/ CloseMarks \/ CloseDrops

Spec == Init /\ [][Next]_vars

\* Every goroutine runs; a write either succeeds or meets its deadline, and a
\* read from a closed socket returns.
Fairness ==
  /\ WF_vars(CheckOpen) /\ WF_vars(Seed) /\ WF_vars(SeedTake)
  /\ WF_vars(SeedWrite) /\ WF_vars(Reply)
  /\ WF_vars(conn = "closed" /\ ReaderEnds)
  /\ WF_vars(PumpWakes) /\ WF_vars(PumpTakes) /\ WF_vars(PumpWrites)
  /\ WF_vars(PumpEnds)
  /\ WF_vars(conn = "closed" /\ PumpFails)
  /\ WF_vars(CloseDrops)

FairSpec == Spec /\ Fairness

-----------------------------------------------------------------------------
(* Properties *)

TypeOK ==
  /\ closed \in BOOLEAN /\ listed \in BOOLEAN /\ done \in BOOLEAN /\ notify \in BOOLEAN
  /\ closer \in {"idle", "drop", "done"}
  /\ conn \in {"none", "open", "closed"}
  /\ reader \in {"none", "idle", "check", "seed", "take", "write", "reply", "gone"}
  /\ pump \in {"none", "wait", "take", "write", "gone"}
  /\ sub \in {"nil", "set"}
  /\ Len(queue) <= QueueCap
  /\ dropped \subseteq 0 .. MaxEvents
  /\ published \in 0 .. MaxEvents /\ since \in 0 .. MaxEvents

EventsOf(lines) == {lines[i].n : i \in {j \in DOMAIN lines : lines[j].kind = "event"}}
LostOf(lines) == UNION {lines[i].lost : i \in DOMAIN lines}

\* Every event published to a live subscriber is in the queue, in the batch, on
\* the socket, counted for the next gap, or reported by one: loss is never
\* silent, however publishers, seed and pump interleave.
NothingUncounted ==
  conn = "open" /\ sub = "set" /\ reader # "check" /\ ~closed =>
    since + 1 .. published \subseteq
      EventsOf(queue) \cup EventsOf(batch) \cup EventsOf(out)
      \cup dropped \cup LostOf(batch) \cup LostOf(out)

\* The script reads events in the order of their publication, none twice.
EventsInOrder ==
  \A i, j \in DOMAIN out :
    i < j /\ out[i].kind = "event" /\ out[j].kind = "event" => out[i].n < out[j].n

\* After Close no connection is left open, not even one it raced with.
CloseIsComplete == closer = "done" => conn # "open" /\ (pump = "wait" => done)

\* A subscriber reads every event in order or counted in a gap, until Close,
\* which leaves no connection open.
StreamIsHonest ==
  TypeOK /\ NothingUncounted /\ EventsInOrder /\ CloseIsComplete

\* A drop is reported although no further event may come, unless the
\* subscription ends.
DropsAreReported == dropped # {} ~> dropped = {} \/ done \/ conn = "closed"

\* Once the connection is closed its goroutines end.
NothingLingers ==
  conn = "closed" ~> reader \in {"none", "gone"} /\ pump \in {"none", "gone"}

\* Under Fairness the pump reports every drop while the subscription lives, and
\* ends with the connection.
PumpServes == Fairness => DropsAreReported /\ NothingLingers

\* A gap comes "FIRST because everything it describes is older than everything
\* in the rest of the batch" (take).
GapIsOlder ==
  \A i, j \in DOMAIN out :
    i < j /\ out[i].kind = "gap" /\ out[j].kind = "event" =>
      \A n \in out[i].lost : n < out[j].n

\* "The snapshot can never be dropped" (subscribe).
SnapshotIsSent ==
  pump # "none" => \E i \in DOMAIN out : out[i].kind = "snapshot"
=============================================================================
