------------------------------ MODULE Delivery ------------------------------
(***************************************************************************)
(* The path of a text message from the coordinator's ingress to the        *)
(* recipient's disk (internal/coordinator/server.go and routing.go,        *)
(* internal/control handshake and Acknowledge, cmd/walkie OnEnvelope).     *)
(*                                                                         *)
(* One recipient device connects again and again; every connection has its *)
(* own handler goroutine in the coordinator, and a handler may outlive the *)
(* client's side of its socket.  Every message is dispatched by the        *)
(* handler of its sender's connection, so messages are routed              *)
(* concurrently.  The sender has let go of a message once it is on the     *)
(* wire (Outbox).  What the inbox does with a row is OfflineQueue's        *)
(* business; the time to live is left out here.  A row at rest may be      *)
(* damaged, so that Resume cannot read it or the client cannot open it.    *)
(***************************************************************************)
EXTENDS Naturals, Sequences, SequencesExt, FiniteSets

CONSTANTS
  Messages,
  NoMessage,
  MaxSize,    \* q.maxSize
  MaxConns,   \* bound: connections of the recipient
  MaxCrashes, \* bound: ends of the recipient's process
  MaxFaults   \* bound: storage statements that fail and rows that are damaged

ASSUME DeliveryAssumption ==
  /\ NoMessage \notin Messages
  /\ MaxSize \in Nat /\ MaxSize > 0
  /\ MaxConns \in Nat /\ MaxCrashes \in Nat /\ MaxFaults \in Nat

Conns == 1 .. MaxConns

VARIABLES
  stage,      \* stage[m]: how far the dispatch of m is
  targets,    \* targets[m]: connections m is still to be written to
  routes,     \* s.routes of the recipient
  inbox,      \* rows of the offline queue: position, message, what its body reads as
  next,       \* queue_cursor.next_position
  pinned,     \* the recipient's key is pinned, so its rows are sealed
  known,      \* the tracker knows the recipient
  online,     \* the tracker's verdict
  handler,    \* handler[k]: where the handler of connection k is
  replay,     \* replay[k]: frames handleHello has still to write
  up,         \* up[k]: frames from the client to handler k
  down,       \* down[k]: frames from the coordinator to the client
  link,       \* link[k]: "none", "up", or "dead"
  conns,      \* connections so far
  session,    \* the client's connection, 0 for none
  greeted,    \* the client has its HelloAck
  acked,      \* Client.acked
  shown,      \* messages in the client's hub
  kept,       \* messages in the client's history file
  todo,       \* the message OnEnvelope has still to append
  crashes,
  faults,
  refused,    \* messages the sender was told about
  highest,    \* the highest position the device ever acknowledged
  replayed,   \* positions replayed to the client although it had acknowledged them
  erased,     \* messages whose row an acknowledgement deleted
  ghosted,    \* messages counted as routed while presence said offline
  cause       \* cause[m]: what has kept a copy of m from the client

coordinator == <<stage, targets, routes, inbox, next, pinned, known, online, handler, replay>>
sockets == <<up, down, link, conns>>
client == <<session, greeted, acked, shown, kept, todo>>
ghosts == <<refused, highest, replayed, erased, ghosted, cause>>
vars == <<coordinator, sockets, client, crashes, faults, ghosts>>

Live(m) == [kind |-> "live", msg |-> m, pos |-> 0]
Hello(p) == [kind |-> "hello", msg |-> NoMessage, pos |-> p]
HelloAck == [kind |-> "ack", msg |-> NoMessage, pos |-> 0]
Row(p, m) == [pos |-> p, msg |-> m, body |-> IF pinned THEN "sealed" ELSE "plain"]
Blame(ms, why) == cause' = [m \in Messages |-> IF m \in ms THEN cause[m] \cup {why} ELSE cause[m]]

\* connWriter.write: a failed write is logged and forgotten.
Write(k, frame) == down' = IF link[k] = "up" THEN [down EXCEPT ![k] = Append(@, frame)] ELSE down

-----------------------------------------------------------------------------
(* Dispatch of a message by its sender's handler *)

\* handleDirect, handleBroadcast: the body or the recipient is refused.
Refuse(m) ==
  /\ stage[m] = "unsent"
  /\ stage' = [stage EXCEPT ![m] = "done"]
  /\ refused' = refused \cup {m}
  /\ UNCHANGED <<targets, routes, inbox, next, pinned, known, online, handler, replay, sockets,
                 client, crashes, faults, highest, replayed, erased, ghosted, cause>>

\* handleDirect, handleBroadcast: look up who is connected.  Nobody is told of
\* a broadcast to an empty room, and nothing holds it.
Dispatch(m, broadcast) ==
  /\ stage[m] = "unsent"
  /\ targets' = [targets EXCEPT ![m] = routes]
  /\ stage' = [stage EXCEPT ![m] = IF routes # {} THEN "writing"
                                   ELSE IF broadcast THEN "done" ELSE "unroutable"]
  /\ IF broadcast /\ routes = {} THEN Blame({m}, "empty room") ELSE UNCHANGED cause
  /\ UNCHANGED <<routes, inbox, next, pinned, known, online, handler, replay, sockets, client,
                 crashes, faults, refused, highest, replayed, erased, ghosted>>

\* One write per connection of the snapshot; the message counts as routed
\* whatever the writes did.
WriteLive(m, k) ==
  /\ stage[m] = "writing" /\ k \in targets[m]
  /\ Write(k, Live(m))
  /\ targets' = [targets EXCEPT ![m] = @ \ {k}]
  /\ stage' = [stage EXCEPT ![m] = IF targets'[m] = {} THEN "done" ELSE @]
  /\ IF link[k] = "up" THEN UNCHANGED cause ELSE Blame({m}, "dead socket")
  /\ ghosted' = IF ~online /\ link[k] # "up" THEN ghosted \cup {m} ELSE ghosted
  /\ UNCHANGED <<routes, inbox, next, pinned, known, online, handler, replay, up, link, conns,
                 client, crashes, faults, refused, highest, replayed, erased>>

\* deliverUnroutable that answers a full inbox with silence.
UnroutableSilentCap(m) ==
  /\ stage[m] = "unroutable"
  /\ \/ known /\ Cardinality(inbox) < MaxSize /\ UNCHANGED <<faults, refused, cause>>
        /\ inbox' = inbox \cup {Row(next, m)} /\ next' = next + 1
     \/ UNCHANGED <<inbox, next, faults, refused, cause>>
  /\ stage' = [stage EXCEPT ![m] = "done"]
  /\ UNCHANGED <<targets, routes, pinned, known, online, handler, replay, sockets, client, crashes,
                 highest, replayed, erased, ghosted>>

\* deliverUnroutable: unknown device and full inbox are told to the sender, a
\* storage failure is not.
Unroutable(m) ==
  /\ stage[m] = "unroutable"
  /\ \/ /\ ~known \/ Cardinality(inbox) >= MaxSize
        /\ refused' = refused \cup {m}
        /\ UNCHANGED <<inbox, next, faults, cause>>
     \/ /\ known /\ Cardinality(inbox) < MaxSize
        /\ inbox' = inbox \cup {Row(next, m)}
        /\ next' = next + 1
        /\ UNCHANGED <<faults, refused, cause>>
     \/ /\ known /\ faults < MaxFaults
        /\ faults' = faults + 1
        /\ Blame({m}, "hold failed")
        /\ UNCHANGED <<inbox, next, refused>>
  /\ stage' = [stage EXCEPT ![m] = "done"]
  /\ UNCHANGED <<targets, routes, pinned, known, online, handler, replay, sockets, client, crashes,
                 highest, replayed, erased, ghosted>>

-----------------------------------------------------------------------------
(* The handler of one connection of the recipient *)

\* A Hello that resumes from the beginning.
HelloFromZero == Hello(0)

\* handshake: Hello carries the acknowledged position of this process.
HelloFrame == Hello(acked)

\* A client that is not connected dials, is tracked as present and says hello.
Dial ==
  /\ session = 0 /\ todo = NoMessage /\ conns < MaxConns
  /\ conns' = conns + 1
  /\ session' = conns' /\ greeted' = FALSE
  /\ link' = [link EXCEPT ![conns'] = "up"]
  /\ up' = [up EXCEPT ![conns'] = <<HelloFrame>>]
  /\ handler' = [handler EXCEPT ![conns'] = "accepted"]
  /\ known' = TRUE /\ online' = TRUE
  /\ UNCHANGED <<stage, targets, routes, inbox, next, pinned, replay, down, acked, shown, kept,
                 todo, crashes, faults, ghosts>>

AddRoute(k) ==
  /\ handler[k] = "accepted"
  /\ routes' = routes \cup {k}
  /\ handler' = [handler EXCEPT ![k] = "reading"]
  /\ UNCHANGED <<stage, targets, inbox, next, pinned, known, online, replay, sockets, client,
                 crashes, faults, ghosts>>

\* Bytes at rest are damaged, were written in a format this build does not
\* speak, or are sealed to a key the device no longer holds: the row cannot be
\* read, or its box does not open.
Damage(r, body) ==
  /\ faults < MaxFaults
  /\ faults' = faults + 1
  /\ body = "garbled" => r.body = "sealed"
  /\ inbox' = (inbox \ {r}) \cup {[r EXCEPT !.body = body]}
  /\ UNCHANGED <<stage, targets, routes, next, pinned, known, online, handler, replay, sockets,
                 client, crashes, ghosts>>

\* PendingCount counts what Resume's query finds ...
Suffix(after) == {r \in inbox : r.pos > after}
PendingCount(after) == Cardinality(Suffix(after))

\* ... and Resume skips the rows it cannot read.  A sealed row leaves as the
\* box it is, whether or not that opens; an unsealed one as it came in (in
\* DeliveriesBoxesOnly deliveryFromStorage has lost the plain marker's case).
Unreadable(after) == {r \in Suffix(after) : r.body = "unreadable"}
DeliveriesBoxesOnly(after) ==
  {[kind |-> r.body, msg |-> r.msg, pos |-> r.pos] : r \in {s \in Suffix(after) : s.body = "sealed"}}
Deliveries(after) ==
  {[kind |-> r.body, msg |-> r.msg, pos |-> r.pos] : r \in Suffix(after) \ Unreadable(after)}

\* Resume without its ORDER BY, newest first; handleHello with its frames
\* ahead of the HelloAck.
NewestFirst(f, frames) ==
  IF HelloAck \in frames THEN f = HelloAck ELSE \A g \in frames : g.pos <= f.pos
AckLast(f, frames) ==
  IF frames = {HelloAck} THEN f = HelloAck
  ELSE f # HelloAck /\ \A g \in frames \ {HelloAck} : f.pos <= g.pos

\* The order handleHello writes in: the HelloAck, then the rows from the
\* oldest.  The HelloAck has position 0, the rows have later ones.
WrittenFirst(f, frames) == \A g \in frames : f.pos <= g.pos

\* The read loop takes the oldest frame ...
ReadsFrame(k) ==
  /\ handler[k] = "reading" /\ up[k] # <<>>
  /\ up' = [up EXCEPT ![k] = Tail(@)]

\* ... and dispatch hands it to the handler of its kind.
Dispatches(k, kind) == ReadsFrame(k) /\ Head(up[k]).kind = kind

\* handleHello up to its first write: Resume, or nothing when that fails.
HandleHello(k) ==
  /\ Dispatches(k, "hello")
  /\ \/ /\ replay' = [replay EXCEPT ![k] = {HelloAck} \cup Deliveries(Head(up[k]).pos)]
        /\ Blame({r.msg : r \in Unreadable(Head(up[k]).pos)}, "unreadable row")
        /\ UNCHANGED faults
     \/ /\ faults < MaxFaults
        /\ faults' = faults + 1
        /\ replay' = [replay EXCEPT ![k] = {HelloAck}]
        /\ UNCHANGED cause
  /\ handler' = [handler EXCEPT ![k] = "replaying"]
  /\ UNCHANGED <<stage, targets, routes, inbox, next, pinned, known, online, down, link, conns,
                 client, crashes, refused, highest, replayed, erased, ghosted>>

\* handleHello that stops after its first write.
WriteReplayOnce(k) ==
  /\ handler[k] = "replaying"
  /\ \E f \in replay[k] : WrittenFirst(f, replay[k]) /\ Write(k, f)
  /\ replay' = [replay EXCEPT ![k] = {}]
  /\ handler' = [handler EXCEPT ![k] = "reading"]
  /\ UNCHANGED <<stage, targets, routes, inbox, next, pinned, known, online, up, link, conns,
                 client, crashes, faults, ghosts>>

\* One frame of the HelloAck and the suffix it promised.
WriteReplay(k) ==
  /\ handler[k] = "replaying"
  /\ \/ \E f \in replay[k] :
          /\ WrittenFirst(f, replay[k])
          /\ Write(k, f)
          /\ replay' = [replay EXCEPT ![k] = @ \ {f}]
          /\ replayed' = IF link[k] = "up" /\ 0 < f.pos /\ f.pos <= highest
                         THEN replayed \cup {f.pos} ELSE replayed
          /\ UNCHANGED handler
     \/ /\ replay[k] = {}
        /\ handler' = [handler EXCEPT ![k] = "reading"]
        /\ UNCHANGED <<down, replay, replayed>>
  /\ UNCHANGED <<stage, targets, routes, inbox, next, pinned, known, online, up, link, conns,
                 client, crashes, faults, refused, highest, erased, ghosted, cause>>

\* handleQueueAck: everything at or below the position leaves; a failure is
\* logged.
HandleQueueAck(k) ==
  /\ Dispatches(k, "queueack")
  /\ \/ /\ inbox' = {r \in inbox : r.pos > Head(up[k]).pos}
        /\ erased' = erased \cup {r.msg : r \in inbox \ inbox'}
        /\ UNCHANGED faults
     \/ /\ faults < MaxFaults
        /\ faults' = faults + 1
        /\ UNCHANGED <<inbox, erased>>
  /\ UNCHANGED <<stage, targets, routes, next, pinned, known, online, handler, replay, down, link,
                 conns, client, crashes, refused, highest, replayed, ghosted, cause>>

\* The presence verdict recorded before the route is gone.
RemoveRouteLast(k) ==
  /\ handler[k] = "reading" /\ link[k] = "dead"
  /\ handler' = [handler EXCEPT ![k] = "leaving"]
  /\ online' = (online /\ \E j \in Conns \ {k} : handler[j] \notin {"none", "leaving", "gone"})
  /\ UNCHANGED <<stage, targets, routes, inbox, next, pinned, known, replay, sockets, client,
                 crashes, faults, ghosts>>

\* The read fails: removeRoute ...
RemoveRoute(k) ==
  /\ handler[k] = "reading" /\ link[k] = "dead"
  /\ routes' = routes \ {k}
  /\ handler' = [handler EXCEPT ![k] = "leaving"]
  /\ up' = [up EXCEPT ![k] = <<>>]
  /\ UNCHANGED <<stage, targets, inbox, next, pinned, known, online, replay, down, link, conns,
                 client, crashes, faults, ghosts>>

\* ... then ConnectionLost, which counts when no other connection is left.
ConnectionLost(k) ==
  /\ handler[k] = "leaving"
  /\ handler' = [handler EXCEPT ![k] = "gone"]
  /\ online' = (online /\ \E j \in Conns \ {k} : handler[j] \notin {"none", "gone"})
  /\ UNCHANGED <<stage, targets, routes, inbox, next, pinned, known, replay, sockets, client,
                 crashes, faults, ghosts>>

\* The lease of a recipient nobody hears any more runs out (PresenceTracker).
Lapse ==
  /\ online /\ \A k \in Conns : link[k] # "up"
  /\ online' = FALSE
  /\ UNCHANGED <<stage, targets, routes, inbox, next, pinned, known, handler, replay, sockets,
                 client, crashes, faults, ghosts>>

\* The client's announcement is pinned (Keystore).
Announce ==
  /\ session # 0 /\ greeted /\ ~pinned
  /\ pinned' = TRUE
  /\ UNCHANGED <<stage, targets, routes, inbox, next, known, online, handler, replay, sockets,
                 client, crashes, faults, ghosts>>

-----------------------------------------------------------------------------
(* The recipient *)

\* handshake: what is no presence and no HelloAck is passed over.
Handshake ==
  /\ session # 0 /\ ~greeted
  /\ down[session] # <<>>
  /\ LET frame == Head(down[session]) IN
       /\ greeted' = (frame.kind = "ack")
       /\ IF frame.kind = "ack" THEN UNCHANGED cause ELSE Blame({frame.msg}, "before the ack")
  /\ down' = [down EXCEPT ![session] = Tail(@)]
  /\ UNCHANGED <<coordinator, up, link, conns, session, acked, shown, kept, todo, crashes, faults,
                 refused, highest, replayed, erased, ghosted>>

\* Acknowledge: the position is remembered and sent once; older ones move
\* nothing.
Acknowledge(p) ==
  IF p <= acked THEN UNCHANGED <<acked, highest, up>>
  ELSE /\ acked' = p
       /\ highest' = IF p > highest THEN p ELSE highest
       /\ up' = IF link[session] = "up"
                THEN [up EXCEPT ![session] = Append(@, [kind |-> "queueack", msg |-> NoMessage, pos |-> p])]
                ELSE up

\* OnEnvelope: the hub shows a message once and forfeits a box that does not
\* open, a sealed delivery is acknowledged whatever the hub ruled, and what is
\* shown has still to be appended to the history.
OnEnvelope ==
  /\ session # 0 /\ greeted /\ todo = NoMessage
  /\ down[session] # <<>>
  /\ LET frame == Head(down[session]) IN
       /\ \/ /\ frame.kind # "garbled"
             /\ shown' = shown \cup {frame.msg}
             /\ todo' = IF frame.msg \in shown THEN NoMessage ELSE frame.msg
             /\ UNCHANGED cause
          \/ /\ frame.kind = "garbled"
             /\ Blame({frame.msg}, "forfeited")
             /\ UNCHANGED <<shown, todo>>
       /\ IF frame.kind \in {"sealed", "garbled"} THEN Acknowledge(frame.pos)
          ELSE UNCHANGED <<acked, highest, up>>
  /\ down' = [down EXCEPT ![session] = Tail(@)]
  /\ UNCHANGED <<coordinator, link, conns, session, greeted, kept, crashes, faults, refused,
                 replayed, erased, ghosted>>

\* OnEnvelope's append; a failure is logged.
Keep ==
  /\ todo # NoMessage
  /\ \/ kept' = kept \cup {todo} /\ UNCHANGED <<faults, cause>>
     \/ /\ faults < MaxFaults
        /\ faults' = faults + 1
        /\ Blame({todo}, "append failed")
        /\ UNCHANGED kept
  /\ todo' = NoMessage
  /\ UNCHANGED <<coordinator, sockets, session, greeted, acked, shown, crashes, refused, highest,
                 replayed, erased, ghosted>>

\* What is on its way to the client never arrives; what the client has sent
\* may still be read.
Sever(k) ==
  /\ link' = [link EXCEPT ![k] = "dead"]
  /\ down' = [down EXCEPT ![k] = <<>>]
LiveOn(k) == {f.msg : f \in {g \in ToSet(down[k]) : g.kind = "live"}}

\* The network, or the watchdog, ends the session; the coordinator may learn of
\* it much later.
Break ==
  /\ session # 0 /\ todo = NoMessage
  /\ Sever(session)
  /\ Blame(LiveOn(session), "dead socket")
  /\ session' = 0 /\ greeted' = FALSE
  /\ UNCHANGED <<coordinator, up, conns, acked, shown, kept, todo, crashes, faults, refused, highest,
                 replayed, erased, ghosted>>

\* The process ends: acked, hub and whatever was to be appended are gone.
Crash ==
  /\ crashes < MaxCrashes
  /\ crashes' = crashes + 1
  /\ IF session # 0 THEN Sever(session) ELSE UNCHANGED <<link, down>>
  /\ Blame((IF session # 0 THEN LiveOn(session) ELSE {}) \cup (shown \ kept), "crash")
  /\ session' = 0 /\ greeted' = FALSE /\ acked' = 0
  /\ shown' = {} /\ todo' = NoMessage
  /\ UNCHANGED <<coordinator, up, conns, kept, faults, refused, highest, replayed, erased, ghosted>>

Init ==
  /\ stage = [m \in Messages |-> "unsent"] /\ targets = [m \in Messages |-> {}]
  /\ routes = {} /\ inbox = {} /\ next = 1
  /\ pinned \in BOOLEAN /\ known \in BOOLEAN /\ online = FALSE
  /\ handler = [k \in Conns |-> "none"] /\ replay = [k \in Conns |-> {}]
  /\ up = [k \in Conns |-> <<>>] /\ down = up /\ link = [k \in Conns |-> "none"] /\ conns = 0
  /\ session = 0 /\ greeted = FALSE /\ acked = 0
  /\ shown = {} /\ kept = {} /\ todo = NoMessage
  /\ crashes = 0 /\ faults = 0
  /\ refused = {} /\ highest = 0 /\ replayed = {} /\ erased = {} /\ ghosted = {}
  /\ cause = [m \in Messages |-> {}]

Next ==
  \/ \E m \in Messages :
       \/ Refuse(m) \/ Dispatch(m, TRUE) \/ Dispatch(m, FALSE)
       \/ Unroutable(m) \/ \E k \in Conns : WriteLive(m, k)
  \/ \E k \in Conns :
       \/ AddRoute(k) \/ HandleHello(k) \/ WriteReplay(k) \/ HandleQueueAck(k)
       \/ RemoveRoute(k) \/ ConnectionLost(k)
  \/ \E r \in inbox, body \in {"unreadable", "garbled"} : Damage(r, body)
  \/ Dial \/ Lapse \/ Announce \/ Handshake \/ OnEnvelope \/ Keep \/ Break \/ Crash

Spec == Init /\ [][Next]_vars

\* Every goroutine of the coordinator and of the client runs, a dead socket is
\* noticed in the end, and the client dials while it is disconnected.
Fairness ==
  /\ \A m \in Messages : WF_vars(Unroutable(m)) /\ \A k \in Conns : WF_vars(WriteLive(m, k))
  /\ \A k \in Conns :
       /\ WF_vars(AddRoute(k)) /\ WF_vars(HandleHello(k)) /\ WF_vars(WriteReplay(k))
       /\ WF_vars(HandleQueueAck(k)) /\ WF_vars(RemoveRoute(k)) /\ WF_vars(ConnectionLost(k))
  /\ WF_vars(Dial) /\ WF_vars(Handshake) /\ WF_vars(OnEnvelope) /\ WF_vars(Keep)

FairSpec == Spec /\ Fairness

-----------------------------------------------------------------------------
(* Properties *)

Stages == {"unsent", "writing", "unroutable", "done"}
Phases == {"none", "accepted", "reading", "replaying", "leaving", "gone"}

TypeOK ==
  /\ stage \in [Messages -> Stages]
  /\ handler \in [Conns -> Phases]
  /\ link \in [Conns -> {"none", "up", "dead"}]
  /\ targets \in [Messages -> SUBSET Conns] /\ routes \subseteq Conns
  /\ Cardinality(inbox) <= MaxSize
  /\ session \in 0 .. MaxConns /\ acked \in 0 .. next - 1
  /\ shown \subseteq Messages /\ kept \subseteq Messages
  /\ todo \in Messages \cup {NoMessage}

\* m is in the inbox, on its way to the client, or with it.
Present(m) ==
  \/ m \in shown \cup kept \cup {todo}
  \/ \E r \in inbox : r.msg = m
  \/ \E k \in Conns : \E f \in ToSet(down[k]) : f.msg = m

\* A message whose dispatch is over is held, on its way or delivered; or its
\* sender was told; or a copy of it was lost in one of the ways named: written
\* to a socket that was dead, passed over before the HelloAck, sent to an empty
\* room, not stored by a failing disk, skipped by Resume as unreadable,
\* forfeited because its box did not open, shown and not appended by a failing
\* history, or in the memory of a client that crashed.  Resume, QueueAck,
\* reconnects and overlapping handlers lose nothing by themselves.
LossHasCause ==
  \A m \in Messages : stage[m] = "done" => Present(m) \/ m \in refused \/ cause[m] # {}

\* The suffix a HelloAck promises never reaches the client ahead of it, where
\* the handshake would pass it over.
ReplayFollowsAck ==
  session # 0 /\ ~greeted =>
    \A i, j \in DOMAIN down[session] :
      down[session][i].kind = "ack" /\ down[session][j].kind \in {"sealed", "garbled", "plain"} => i < j

\* Nothing more will be done for m: it is in the history, Resume skipped its
\* row, its box was forfeited, its append failed, or it was in the client's
\* hands when that crashed.
Settled(m) ==
  m \in kept \/ cause[m] \cap {"unreadable row", "forfeited", "append failed", "crash"} # {}

\* The cumulative acknowledgement covers nothing that is still to come: what a
\* QueueAck deleted is settled or is being appended.  In particular it deletes
\* no readable row that Resume has not delivered.
AckCoversProcessed == \A m \in erased : Settled(m) \/ m = todo

\* What a client process acknowledged is not replayed to it.
ReplayIsSuffix == crashes = 0 => replayed = {}

\* A session replays, after its HelloAck, the suffix behind the position the
\* client gave, oldest first.
ReplayIsExact == TypeOK /\ ReplayFollowsAck /\ ReplayIsSuffix

\* The verdict of a connection that ended is given after its route is gone.
VerdictAfterRoute == [][\A k \in Conns :
  (online /\ ~online' /\ handler'[k] # handler[k]) => k \notin routes']_vars

\* The suffix handleHello took is settled by the client, in the history unless
\* a box does not open or the append fails, or else its connection dies.
SuffixArrives ==
  \A m \in Messages, k \in Conns :
    (\E f \in replay[k] : f.msg = m) ~> (Settled(m) \/ link[k] = "dead")

\* A message routed to a connection ahead of its Hello arrives, in whatever
\* order (serveConn).
RoutedEarlyArrives ==
  \A m \in Messages : cause[m] = {"before the ack"} /\ stage[m] = "done" => Present(m)

\* "There is no window in which presence says offline while a write into a
\* dying socket still counts as delivery" (serveConn).
NoGhostDelivery == ghosted = {}

\* "Acking happens only after durable processing" (handleHello).
AckedIsDurable == todo = NoMessage => erased \subseteq kept

\* "Same filter as Resume; the two can never disagree" (PendingCount).
CountMatchesResume == \A p \in 0 .. next : PendingCount(p) = Cardinality(Deliveries(p))

\* A restarted client does not replay what it had acknowledged
\* (RestoreAckPosition).
RestartKeepsPosition == replayed = {}

\* A message the coordinator failed to hold is retransmitted by its sender
\* (deliverUnroutable).
HoldFailureIsRetried ==
  \A m \in Messages : stage[m] = "done" /\ "hold failed" \in cause[m] => Present(m) \/ m \in refused

\* Queued envelopes are acknowledged, so that a resume does not replay them
\* (Envelope.position): once the client has processed all there is, no row it
\* was sent is left.
ReplayIsAcked ==
  greeted /\ todo = NoMessage /\ session # 0 /\ down[session] = <<>> /\ up[session] = <<>>
  /\ handler[session] = "reading" /\ faults = 0 =>
    \A r \in inbox : r.msg \notin kept
=============================================================================
