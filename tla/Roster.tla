------------------------------- MODULE Roster -------------------------------
(***************************************************************************)
(* How a device comes to know who is online: the tracker's change          *)
(* notifications (internal/coordinator/presence/view.go), the handler of   *)
(* one control connection that writes the roster while its pump writes     *)
(* changes (server.go serveConn, presence.go), and the client's view of    *)
(* the roster with a subscriber of its own (internal/presenceview).        *)
(*                                                                         *)
(* The tracker's rules are PresenceTracker's; here a device only changes   *)
(* its line.  The connection is the one of device Self.  While a client    *)
(* reconnects its old handler may still be running, but that one writes to *)
(* a dead socket, so one handler at a time is modelled.                    *)
(***************************************************************************)
EXTENDS Naturals, Sequences

CONSTANTS
  Devices,
  Self,       \* the device whose connection this is
  Labels,     \* status texts
  NoLabel,    \* the empty text
  Buffer,     \* subscriptionBuffer of the tracker
  ViewBuffer, \* subscriptionBuffer of the view
  MaxTime,    \* bound: the clock moves with the observations up to here
  MaxMoves    \* bound: status changes and connections of Self

\* What the constants have to satisfy; every instance assumes it.
RosterAssumption ==
  /\ Self \in Devices
  /\ NoLabel \in Labels
  /\ Buffer \in Nat /\ Buffer > 0
  /\ ViewBuffer \in Nat /\ ViewBuffer > 0
  /\ MaxTime \in Nat /\ MaxTime > 0 /\ MaxMoves \in Nat

VARIABLES
  known,      \* devices in Tracker.devices
  line,       \* line[d]: the tracker's fact and label about d
  now,        \* the tracker's clock; time 0 is the zero time.Time
  labels,     \* status changes so far
  listed,     \* the subscription is in Tracker.subs
  closed,     \* its channel is closed
  chan,       \* the changes in its channel
  phase,      \* where the handler is
  conns,      \* connections so far
  rest,       \* snapshot lines still to be written
  held,       \* the change the pump has received, in a sequence of at most one
  link,       \* the socket carries frames
  wire,       \* PresenceUpdates written and not yet read by the client
  view,       \* View.entries
  notes,      \* notifications in the view's subscription
  shown,      \* what the view's subscriber was last told
  missed,     \* missed[d]: "no", or what followed a change dropped at the buffer
  late,       \* devices whose snapshot line was written after a newer change
  unshown     \* unshown[d]: like missed, for the view's notifications

tracker == <<known, line, now, labels>>
sub == <<listed, closed, missed>>
handler == <<phase, conns, rest>>
client == <<view, notes, shown, unshown>>
vars == <<tracker, sub, chan, handler, held, link, wire, late, client>>

Line(on, seen, text) == [online |-> on, seen |-> seen, status |-> text]
NoLine == Line(FALSE, 0, NoLabel)

-----------------------------------------------------------------------------
(* The tracker *)

\* notifyLocked with room for one change too many.
NotifyOneMore(d, e) ==
  /\ chan' = IF listed /\ Len(chan) <= Buffer
             THEN Append(chan, [device |-> d, entry |-> e]) ELSE chan
  /\ UNCHANGED missed

\* notifyLocked: never blocks; a change that finds the buffer full is dropped.
NotifyLocked(d, e) ==
  LET change == [device |-> d, entry |-> e] IN
  IF ~listed THEN UNCHANGED <<chan, missed>>
  ELSE IF Len(chan) < Buffer
  THEN /\ chan' = Append(chan, change)
       /\ missed' = [missed EXCEPT ![d] = "no"]
  ELSE /\ missed' = [missed EXCEPT ![d] = "dropped"]
       /\ UNCHANGED chan

\* A heartbeat of a device that is online moves its last-seen time and tells
\* nobody; the first one of a device that was not is a change.
Observe(d) ==
  /\ now < MaxTime
  /\ now' = now + 1
  /\ known' = known \cup {d}
  /\ line' = [line EXCEPT ![d] = Line(TRUE, now', @.status)]
  /\ IF line[d].online
     THEN /\ missed' = [missed EXCEPT ![d] = IF @ = "no" THEN @ ELSE "beaten"]
          /\ UNCHANGED chan
     ELSE NotifyLocked(d, line'[d])
  /\ UNCHANGED <<labels, listed, closed, handler, held, link, wire, late, client>>

\* The lease lapses, which leaves the last-seen time at the last observation,
\* or the device's last connection ends, which is observed now.
Vanish(d) ==
  /\ line[d].online
  /\ \E seen \in {line[d].seen, now} : line' = [line EXCEPT ![d] = Line(FALSE, seen, @.status)]
  /\ NotifyLocked(d, line'[d])
  /\ UNCHANGED <<known, now, labels, listed, closed, handler, held, link, wire, late, client>>

SetStatus(d, text) ==
  /\ labels + conns < MaxMoves
  /\ labels' = labels + 1
  /\ known' = known \cup {d}
  /\ line' = [line EXCEPT ![d].status = text]
  /\ NotifyLocked(d, line'[d])
  /\ UNCHANGED <<now, listed, closed, handler, held, link, wire, late, client>>

-----------------------------------------------------------------------------
(* The connection handler *)

\* ConnectionEstablished.
Establish ==
  /\ phase = "none" /\ labels + conns < MaxMoves
  /\ conns' = conns + 1
  /\ known' = known \cup {Self}
  /\ line' = [line EXCEPT ![Self] = Line(TRUE, now, @.status)]
  /\ link' = TRUE
  /\ phase' = "subscribe"
  /\ UNCHANGED <<now, labels, sub, chan, rest, held, wire, late, client>>

\* Subscribe, and the pump is started.
Subscribe ==
  /\ phase = "subscribe"
  /\ listed' = TRUE /\ closed' = FALSE
  /\ chan' = <<>>
  /\ missed' = [d \in Devices |-> "no"]
  /\ late' = {}
  /\ phase' = "snapshot"
  /\ UNCHANGED <<tracker, conns, rest, held, link, wire, client>>

\* A snapshot of the devices that are online only.
SnapshotOnline ==
  /\ phase = "snapshot"
  /\ rest' = {[device |-> d, entry |-> line[d]] : d \in {x \in known : line[x].online}}
  /\ phase' = "roster"
  /\ UNCHANGED <<tracker, sub, chan, conns, held, link, wire, late, client>>

\* Snapshot: every known device, Self included, in one look.  The lines are
\* written by device name, which is any order.
Snapshot ==
  /\ phase = "snapshot"
  /\ rest' = {[device |-> d, entry |-> line[d]] : d \in known}
  /\ phase' = "roster"
  /\ UNCHANGED <<tracker, sub, chan, conns, held, link, wire, late, client>>

\* presenceUpdateFields: last_seen travels only with an offline line.
Update(c) ==
  [device |-> c.device,
   state |-> IF c.entry.online THEN "online" ELSE "offline",
   seen |-> IF c.entry.online THEN 0 ELSE c.entry.seen,
   status |-> c.entry.status]

\* connWriter.write: one frame; a failed write is swallowed.
Write(c) == wire' = IF link THEN Append(wire, Update(c)) ELSE wire

\* One line of the roster, or the end of it.  The pump is writing meanwhile.
WriteLine ==
  /\ phase = "roster"
  /\ \/ \E c \in rest : Write(c) /\ rest' = rest \ {c} /\ UNCHANGED phase
     \/ rest = {} /\ phase' = "serving" /\ UNCHANGED <<rest, wire>>
  /\ UNCHANGED <<tracker, sub, chan, conns, held, link, late, client>>

\* pumpPresence: receive a change, and leave out the ones about Self.
Receive ==
  /\ held = <<>> /\ chan # <<>>
  /\ held' = IF Head(chan).device = Self THEN <<>> ELSE <<Head(chan)>>
  /\ chan' = Tail(chan)
  /\ UNCHANGED <<tracker, sub, handler, link, wire, late, client>>

Forward ==
  /\ held # <<>>
  /\ Write(held[1])
  /\ late' = IF \E c \in rest : c.device = held[1].device
             THEN late \cup {held[1].device} ELSE late \ {held[1].device}
  /\ held' = <<>>
  /\ UNCHANGED <<tracker, sub, chan, handler, link, client>>

\* The socket dies under both ends.
Disconnect ==
  /\ link
  /\ link' = FALSE
  /\ wire' = <<>>
  /\ UNCHANGED <<tracker, sub, chan, handler, held, late, client>>

\* The read loop returns: ConnectionLost ...
Lose ==
  /\ phase = "serving" /\ ~link
  /\ phase' = "unsubscribe"
  /\ IF line[Self].online
     THEN /\ line' = [line EXCEPT ![Self] = Line(FALSE, now, @.status)]
          /\ NotifyLocked(Self, line'[Self])
     ELSE UNCHANGED <<line, chan, missed>>
  /\ UNCHANGED <<known, now, labels, listed, closed, conns, rest, held, link, wire, late, client>>

\* Subscription.Close with the channel closed before the subscription leaves
\* the map.
CloseChanFirst ==
  /\ phase = "unsubscribe"
  /\ closed' = TRUE
  /\ phase' = "closechan"
  /\ UNCHANGED <<tracker, listed, missed, chan, conns, rest, held, link, wire, late, client>>

\* ... then Subscription.Close: out of the map ...
Unsubscribe ==
  /\ phase = "unsubscribe"
  /\ listed' = FALSE
  /\ phase' = "closechan"
  /\ UNCHANGED <<tracker, closed, missed, chan, conns, rest, held, link, wire, late, client>>

\* ... and the channel closed, which ends the pump.  What it still holds goes
\* to a dead socket.
CloseChan ==
  /\ phase = "closechan"
  /\ closed' = TRUE /\ listed' = FALSE
  /\ phase' = "none"
  /\ chan' = <<>> /\ held' = <<>>
  /\ UNCHANGED <<tracker, missed, conns, rest, link, wire, late, client>>

-----------------------------------------------------------------------------
(* The client's view *)

\* The view's notifyLocked.
ViewNotify(d, e) ==
  IF Len(notes) < ViewBuffer
  THEN /\ notes' = Append(notes, [device |-> d, entry |-> e])
       /\ unshown' = [unshown EXCEPT ![d] = "no"]
  ELSE /\ unshown' = [unshown EXCEPT ![d] = "dropped"]
       /\ UNCHANGED notes

\* What an update makes of an entry: an online line keeps the last-seen time
\* known so far.  A state this build does not know, which no coordinator of
\* this version sends, would change the label only.
Folded(e, u) ==
  IF u.state = "online" THEN Line(TRUE, e.seen, u.status)
  ELSE Line(FALSE, IF u.seen # 0 THEN u.seen ELSE e.seen, u.status)

\* Apply that notices a change of liveness only.
ApplyLivenessOnly ==
  /\ wire # <<>>
  /\ wire' = Tail(wire)
  /\ LET u == Head(wire)
         e == Folded(view[u.device], u)
     IN /\ view' = [view EXCEPT ![u.device] = e]
        /\ IF e.online # view[u.device].online THEN ViewNotify(u.device, e)
           ELSE UNCHANGED <<notes, unshown>>
  /\ UNCHANGED <<tracker, sub, chan, handler, held, link, shown, late>>

\* Apply: fold the update in and notify when the entry changed.
Apply ==
  /\ wire # <<>>
  /\ wire' = Tail(wire)
  /\ LET u == Head(wire)
         e == Folded(view[u.device], u)
     IN /\ view' = [view EXCEPT ![u.device] = e]
        /\ IF e # view[u.device] THEN ViewNotify(u.device, e)
           ELSE /\ unshown' = [unshown EXCEPT ![u.device] = IF @ = "no" THEN @ ELSE "restated"]
                /\ UNCHANGED notes
  /\ UNCHANGED <<tracker, sub, chan, handler, held, link, shown, late>>

\* The subscriber takes a notification.
Notice ==
  /\ notes # <<>>
  /\ shown' = [shown EXCEPT ![Head(notes).device] = Head(notes).entry]
  /\ notes' = Tail(notes)
  /\ UNCHANGED <<tracker, sub, chan, handler, held, link, wire, late, view, unshown>>

Init ==
  /\ known = {} /\ line = [d \in Devices |-> NoLine] /\ now = 1 /\ labels = 0
  /\ listed = FALSE /\ closed = FALSE /\ chan = <<>>
  /\ phase = "none" /\ conns = 0 /\ rest = {} /\ held = <<>>
  /\ link = FALSE /\ wire = <<>>
  /\ view = [d \in Devices |-> NoLine] /\ shown = view /\ notes = <<>>
  /\ missed = [d \in Devices |-> "no"] /\ unshown = missed /\ late = {}

Next ==
  \/ \E d \in Devices : Observe(d) \/ Vanish(d)
  \/ \E d \in Devices, text \in Labels : SetStatus(d, text)
  \/ Establish \/ Subscribe \/ Snapshot \/ WriteLine
  \/ Receive \/ Forward
  \/ Disconnect \/ Lose \/ Unsubscribe \/ CloseChan
  \/ Apply \/ Notice

Spec == Init /\ [][Next]_vars

-----------------------------------------------------------------------------
(* Properties *)

TypeOK ==
  /\ known \subseteq Devices /\ late \subseteq Devices
  /\ now \in 1 .. MaxTime /\ labels \in 0 .. MaxMoves /\ conns \in 0 .. MaxMoves
  /\ listed \in BOOLEAN /\ closed \in BOOLEAN /\ link \in BOOLEAN
  /\ Len(chan) <= Buffer /\ Len(notes) <= ViewBuffer /\ Len(held) <= 1
  /\ phase \in {"none", "subscribe", "snapshot", "roster", "serving", "unsubscribe", "closechan"}
  /\ \A f \in {line, view, shown} :
       f \in [Devices -> [online : BOOLEAN, seen : 0 .. MaxTime, status : Labels]]

\* Everything written has been read and nothing is left to write.
Quiet == phase = "serving" /\ link /\ chan = <<>> /\ held = <<>> /\ wire = <<>>

\* The client's line of d says what the tracker's says.
Agrees(d) ==
  /\ view[d].online = line[d].online
  /\ view[d].status = line[d].status
  /\ ~line[d].online => view[d].seen = line[d].seen

\* No send can target a closed channel (Subscription.Close).
NoSendOnClosed == ~(listed /\ closed)

\* Subscribing before the snapshot misses nothing: once the connection is quiet
\* the client's roster is the coordinator's, unless a change was dropped at the
\* full buffer or an older snapshot line was written after it.
NothingMissed ==
  Quiet => \A d \in known \ {Self} : missed[d] = "no" /\ d \notin late => Agrees(d)

\* The view tells its subscriber of every change of a line, until one finds the
\* buffer full.
SubscriberIsTold ==
  notes = <<>> => \A d \in Devices : unshown[d] = "no" => shown[d] = view[d]

\* Tracker, connection, view and subscriber agree once all is quiet, except
\* where a change was dropped or overtaken, and no change is sent on a
\* closed channel.
RosterAgrees == TypeOK /\ NoSendOnClosed /\ NothingMissed /\ SubscriberIsTold

\* Changes and snapshot lines "always converge on the same roster line,
\* whichever arrives last" (Change).
SnapshotConverges ==
  Quiet => \A d \in known \ {Self} : missed[d] = "no" => Agrees(d)

\* "The next heartbeat refresh ... re-states the device's full current state"
\* after a drop (Tracker.Subscribe).
HeartbeatRestates ==
  Quiet => \A d \in known \ {Self} : missed[d] = "beaten" /\ d \notin late => Agrees(d)

\* A restated line heals a notification dropped by the view, which costs "a
\* late repaint, never stale-forever data" (presenceview).
RestatedIsShown ==
  notes = <<>> => \A d \in Devices : unshown[d] = "restated" => shown[d] = view[d]
=============================================================================
