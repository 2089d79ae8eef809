----------------------------- MODULE MessageHub -----------------------------
(***************************************************************************)
(* How a client files messages: internal/messagehub, the dedup ring and    *)
(* the display log of internal/message, and the history that OnEnvelope    *)
(* and SendFromUI of cmd/walkie/app.go write after the log.                *)
(*                                                                         *)
(* The control-plane read loop files what it receives; the terminal        *)
(* interface and every connection of the control socket file what they     *)
(* compose, each on a goroutine of its own.  The ring, the log and the     *)
(* history are guarded by a mutex each, so the three are separate steps.   *)
(* The history is the sequence of ids it would show; its retention is      *)
(* History's subject, the acknowledgement of queue positions Delivery's.   *)
(***************************************************************************)
EXTENDS Naturals, Sequences, SequencesExt, FiniteSets

CONSTANTS
  Me, Peers,    \* this device and the others
  Capacity,     \* Dedup.capacity
  Scrollback,   \* Log.scrollback
  MaxIds,       \* bound: distinct messages received
  MaxComposed,  \* bound: messages composed here
  MaxFiled,     \* bound: messages one process files
  MaxFailures   \* bound: messages the history fails to store, and crashes

\* The recipient of a broadcast, and the conversation of broadcasts.
Everyone == "everyone"

\* What the constants have to satisfy; every instance assumes it.
HubAssumption ==
  /\ Capacity \in Nat /\ Capacity > 0
  /\ Scrollback \in Nat /\ Scrollback > 0
  /\ MaxIds \in Nat /\ MaxComposed \in Nat /\ MaxFiled \in Nat
  /\ MaxFailures \in Nat
  /\ Me \notin Peers /\ Everyone \notin Peers \cup {Me}

VARIABLES
  order,     \* Dedup.order
  seen,      \* Dedup.seen
  head,      \* Dedup.head, counted from 1
  convs,     \* Log.convs
  history,   \* table history_message: the only durable part
  reader,    \* where OnEnvelope is, and with which message
  ui,        \* the calls of SendFromUI: where each is, and with which message
  composed,  \* messages composed so far
  admitted,  \* ids the ring of this process let pass, in order
  filed,     \* messages the log of this process displayed, in order
  logged,    \* messages whose loss from the history has been logged
  crashes    \* crashes so far

ring == <<order, seen, head>>
vars == <<ring, convs, history, reader, ui, composed, admitted, filed, logged,
          crashes>>

\* A message has an id, a sender and a recipient.
Received == [id : 1 .. MaxIds, from : Peers, to : {Me, Everyone}]
Drafts(id) == [id : {id}, from : {Me}, to : Peers \cup {Everyone}]

Idle == [at |-> "idle"]
Busy(g, at) == g.at = at

-----------------------------------------------------------------------------
(* The ring, the log and the history *)

\* First with the newest id evicted in place of the oldest.
FirstEvictsNewest(id) ==
  IF id \in seen THEN UNCHANGED ring
  ELSE IF Len(order) = Capacity
  THEN /\ seen' = (seen \ {order[head]}) \cup {id}
       /\ order' = [order EXCEPT ![head] = id]
       /\ UNCHANGED head
  ELSE /\ seen' = seen \cup {id}
       /\ order' = Append(order, id)
       /\ UNCHANGED head

\* First that overwrites the slot and forgets to delete the evicted id.
FirstKeepsEvicted(id) ==
  IF id \in seen THEN UNCHANGED ring
  ELSE /\ seen' = seen \cup {id}
       /\ IF Len(order) = Capacity
          THEN /\ order' = [order EXCEPT ![head] = id]
               /\ head' = (head % Capacity) + 1
          ELSE order' = Append(order, id) /\ UNCHANGED head

\* Dedup.First: a new id overwrites the oldest once the ring is full.
First(id) ==
  IF id \in seen THEN UNCHANGED ring
  ELSE IF Len(order) = Capacity
  THEN /\ seen' = (seen \ {order[head]}) \cup {id}
       /\ order' = [order EXCEPT ![head] = id]
       /\ head' = (head % Capacity) + 1
  ELSE /\ seen' = seen \cup {id}
       /\ order' = Append(order, id)
       /\ UNCHANGED head

\* A key that always names the sender.
KeyOfSender(m) == IF m.to = Everyone THEN Everyone ELSE m.from

\* ConversationKeyFor: the broadcast conversation, or the one with the peer.
ConversationKeyFor(m) ==
  IF m.to = Everyone THEN Everyone ELSE IF m.from = Me THEN m.to ELSE m.from

\* The newest n of s.
Newest(n, s) == IF Len(s) > n THEN SubSeq(s, Len(s) - n + 1, Len(s)) ELSE s

\* Log.Append behind the ring: file, and drop the oldest beyond the scrollback.
File(m) ==
  LET key == ConversationKeyFor(m)
  IN /\ convs' = [convs EXCEPT ![key] = Newest(Scrollback, Append(@, m.id))]
     /\ filed' = Append(filed, m)

\* Store.Append ignores an id it holds; OnEnvelope and SendFromUI log a failure
\* of it and go on.
Keep(m) ==
  \/ /\ history' = IF Contains(history, m.id) THEN history ELSE Append(history, m.id)
     /\ UNCHANGED logged
  \/ /\ Cardinality(logged) + crashes < MaxFailures
     /\ logged' = logged \cup {m.id}
     /\ UNCHANGED history

-----------------------------------------------------------------------------
(* OnEnvelope and Hub.Apply, on the read loop *)

\* A text frame, live or opened.  A box that does not open, an undecodable one
\* and every other payload end here and file nothing.
Receive(m) ==
  /\ Busy(reader, "idle")
  /\ Len(filed) < MaxFiled
  /\ reader' = [at |-> "admit", msg |-> m]
  /\ UNCHANGED <<ring, convs, history, ui, composed, admitted, filed, logged, crashes>>

\* applyText: a duplicate is dropped here.
ReaderAdmits ==
  /\ Busy(reader, "admit")
  /\ First(reader.msg.id)
  /\ IF reader.msg.id \in seen
     THEN reader' = Idle /\ UNCHANGED admitted
     ELSE /\ reader' = [reader EXCEPT !.at = "file"]
          /\ admitted' = Append(admitted, reader.msg.id)
  /\ UNCHANGED <<convs, history, ui, composed, filed, logged, crashes>>

ReaderFiles ==
  /\ Busy(reader, "file")
  /\ File(reader.msg)
  /\ reader' = [reader EXCEPT !.at = "keep"]
  /\ UNCHANGED <<ring, history, ui, composed, admitted, logged, crashes>>

\* ReaderKeeps for direct messages only.
ReaderKeepsDirect ==
  /\ Busy(reader, "keep")
  /\ IF reader.msg.to = Me THEN Keep(reader.msg) ELSE UNCHANGED <<history, logged>>
  /\ reader' = Idle
  /\ UNCHANGED <<ring, convs, ui, composed, admitted, filed, crashes>>

ReaderKeeps ==
  /\ Busy(reader, "keep")
  /\ Keep(reader.msg)
  /\ reader' = Idle
  /\ UNCHANGED <<ring, convs, ui, composed, admitted, filed, crashes>>

-----------------------------------------------------------------------------
(* SendFromUI with SendDirect or SendBroadcast: the same gate and the same  *)
(* log, then the history.  An oversized draft is refused before all of it.  *)

Call(at, m) == [at |-> at, msg |-> m]

\* The call with message m goes on from one step to the next.
CallMoves(m, from, to) ==
  /\ Call(from, m) \in ui
  /\ ui' = (ui \ {Call(from, m)}) \cup {Call(to, m)}

Compose(m) ==
  /\ Len(filed) < MaxFiled
  /\ composed < MaxComposed
  /\ composed' = composed + 1
  /\ ui' = ui \cup {Call("admit", m)}
  /\ UNCHANGED <<ring, convs, history, reader, admitted, filed, logged, crashes>>

\* fileLocal's gate: a fresh id always passes.
UIAdmits(m) ==
  /\ CallMoves(m, "admit", "file")
  /\ First(m.id)
  /\ admitted' = Append(admitted, m.id)
  /\ UNCHANGED <<convs, history, reader, composed, filed, logged, crashes>>

UIFiles(m) ==
  /\ CallMoves(m, "file", "keep")
  /\ File(m)
  /\ UNCHANGED <<ring, history, reader, composed, admitted, logged, crashes>>

UIKeeps(m) ==
  /\ Call("keep", m) \in ui
  /\ Keep(m)
  /\ ui' = ui \ {Call("keep", m)}
  /\ UNCHANGED <<ring, convs, reader, composed, admitted, filed, crashes>>

-----------------------------------------------------------------------------
Fresh ==
  [order |-> <<>>, seen |-> {}, head |-> 1,
   convs |-> [c \in Peers \cup {Everyone} |-> <<>>]]

\* The client dies and is started again: ring and log are empty.
Crash ==
  /\ Cardinality(logged) + crashes < MaxFailures
  /\ crashes' = crashes + 1
  /\ order' = Fresh.order /\ seen' = Fresh.seen /\ head' = Fresh.head
  /\ convs' = Fresh.convs
  /\ reader' = Idle /\ ui' = {}
  /\ admitted' = <<>> /\ filed' = <<>>
  /\ UNCHANGED <<history, composed, logged>>

Init ==
  /\ order = Fresh.order /\ seen = Fresh.seen /\ head = Fresh.head
  /\ convs = Fresh.convs
  /\ history = <<>>
  /\ reader = Idle /\ ui = {}
  /\ composed = 0 /\ admitted = <<>> /\ filed = <<>>
  /\ logged = {} /\ crashes = 0

Next ==
  \/ \E m \in Received : Receive(m)
  \/ ReaderAdmits \/ ReaderFiles \/ ReaderKeeps
  \/ \E m \in Drafts(MaxIds + composed + 1) : Compose(m)
  \/ \E g \in ui : UIAdmits(g.msg) \/ UIFiles(g.msg) \/ UIKeeps(g.msg)
  \/ Crash

Spec == Init /\ [][Next]_vars

-----------------------------------------------------------------------------
(* Properties *)

Ids == 1 .. MaxIds + MaxComposed

TypeOK ==
  /\ order \in Seq(Ids) /\ seen \subseteq Ids /\ head \in 1 .. Capacity
  /\ DOMAIN convs = Peers \cup {Everyone}
  /\ \A c \in DOMAIN convs : convs[c] \in Seq(Ids)
  /\ history \in Seq(Ids)
  /\ reader.at \in {"idle", "admit", "file", "keep"}
  /\ \A g \in ui : g.at \in {"admit", "file", "keep"}
  /\ composed \in 0 .. MaxComposed
  /\ logged \subseteq Ids
  /\ crashes \in 0 .. MaxFailures

\* Dedup's own invariant: the set and the ring hold the same ids, each once, and
\* never more than the capacity.
RingLockstep ==
  /\ ToSet(order) = seen
  /\ Len(order) = Cardinality(seen)
  /\ Len(order) <= Capacity
  /\ Len(order) < Capacity => head = 1

\* The ring remembers exactly the newest ids it let pass, wherever its head is.
RingIsWindow == seen = ToSet(Newest(Capacity, admitted))

\* A message is displayed twice only when a whole window of other messages lies
\* between the two (Dedup.First, criterion 3 of sto:text-messaging).
RepeatsOutliveWindow ==
  \A i, j \in DOMAIN admitted :
    i < j /\ admitted[i] = admitted[j] =>
      Cardinality({admitted[k] : k \in i + 1 .. j - 1}) >= Capacity

\* Dedup is a window: its ring and its set hold the latest ids, and a
\* message is shown again only if Capacity others came in between.
DedupIsWindow ==
  TypeOK /\ RingLockstep /\ RingIsWindow /\ RepeatsOutliveWindow

\* Where filed has what was exchanged with c, and how many of these are not
\* older than the one at i.
Exchanged(c) == {i \in DOMAIN filed : {filed[i].from, filed[i].to} = {Me, c}}
Since(c, i) == Cardinality({j \in Exchanged(c) : j >= i})

\* The conversation with a peer is the newest of what was exchanged with it, both
\* ways and in the order it was displayed, whatever other traffic interleaves.
OneConversationPerPeer ==
  \A c \in Peers :
    LET length == Len(convs[c])
    IN /\ length = IF Cardinality(Exchanged(c)) > Scrollback THEN Scrollback
                   ELSE Cardinality(Exchanged(c))
       /\ \A i \in Exchanged(c) :
            Since(c, i) <= Scrollback =>
              convs[c][length - Since(c, i) + 1] = filed[i].id

\* What this process displayed is in the history, is being written to it, or its
\* loss has been logged.
ShownIsKept ==
  \A m \in ToSet(filed) :
    \/ Contains(history, m.id)
    \/ m.id \in logged
    \/ \E g \in {reader} \cup ui : Busy(g, "keep") /\ g.msg = m

\* What a peer and this device say to each other is one conversation, in the
\* log as in the history, whichever goroutine files it.
FilingIsSound == OneConversationPerPeer /\ ShownIsKept
=============================================================================
