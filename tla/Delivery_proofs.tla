--------------------------- MODULE Delivery_proofs ---------------------------
(***************************************************************************)
(* Proofs about Delivery, for any messages, any size of the inbox and any  *)
(* number of connections, crashes and storage failures.                    *)
(*                                                                         *)
(* A position the client has given away, in acked, in a Hello or in a      *)
(* QueueAck that some handler has still to read, must be safe: every row   *)
(* it covers is with the client already (GivenIsSafe).  Such a position is *)
(* the one of a frame the client takes from its socket, so the argument is *)
(* about the order of what is still to come: in front of every queued      *)
(* frame there is one for each older row the client does not have          *)
(* (NothingOvertakes), the HelloAck is in front of all of them (AckFirst), *)
(* and what is still to come lies behind the acknowledged position         *)
(* (Ascending).                                                            *)
(***************************************************************************)
EXTENDS Delivery, SequenceTheorems, FiniteSetTheorems, TLAPS

-----------------------------------------------------------------------------
(* The inductive invariant *)

Queued == {"sealed", "garbled", "plain"}
Bodies == Queued \cup {"unreadable"}
Causes == {"empty room", "dead socket", "hold failed", "before the ack", "unreadable row",
           "forfeited", "append failed", "crash"}
Rows == [pos : Nat, msg : Messages, body : Bodies]
UpFrames == [kind : {"hello", "queueack"}, msg : {NoMessage}, pos : Nat]
DownFrames == [kind : {"live"} \cup Queued, msg : Messages, pos : Nat] \cup {HelloAck}

\* What TypeOK says, and the types of frames, rows and auxiliary variables.
Types ==
  /\ stage \in [Messages -> Stages]
  /\ targets \in [Messages -> SUBSET Conns] /\ routes \subseteq Conns
  /\ inbox \subseteq Rows
  /\ next \in Nat
  /\ pinned \in BOOLEAN /\ known \in BOOLEAN /\ online \in BOOLEAN /\ greeted \in BOOLEAN
  /\ handler \in [Conns -> Phases]
  /\ link \in [Conns -> {"none", "up", "dead"}]
  /\ replay \in [Conns -> SUBSET DownFrames]
  /\ up \in [Conns -> Seq(UpFrames)] /\ down \in [Conns -> Seq(DownFrames)]
  /\ conns \in 0 .. MaxConns /\ session \in 0 .. MaxConns
  /\ acked \in Nat /\ highest \in Nat
  /\ shown \subseteq Messages /\ kept \subseteq Messages
  /\ todo \in Messages \cup {NoMessage}
  /\ crashes \in Nat
  /\ cause \in [Messages -> SUBSET Causes]

\* The inbox is bounded.
Bounded == IsFiniteSet(inbox) /\ Cardinality(inbox) <= MaxSize

\* A row has a position of its own, which the cursor has left behind.
RowsArePlaced ==
  /\ 0 < next
  /\ \A r \in inbox : 0 < r.pos /\ r.pos < next
  /\ \A r, s \in inbox : r.pos = s.pos => r = s

\* A connection that is yet to come has no frames, the client's connection is
\* the only one that is up, and routes lead to handlers that read.
Connected ==
  /\ session <= conns
  /\ \A k \in Conns : link[k] = "up" <=> k = session
  /\ \A k \in Conns : conns < k =>
       handler[k] = "none" /\ up[k] = <<>> /\ down[k] = <<>> /\ replay[k] = {}
  /\ \A k \in routes : handler[k] \in {"reading", "replaying"}

\* What is settled or being appended.
Processed == {m \in Messages : Settled(m) \/ m = todo}

\* What the client has been shown it has processed.
ShownIsKept == shown \subseteq Processed /\ todo \in shown \cup {NoMessage}

\* Positions the cursor has left behind and whose rows have been processed.
SafePositions == {p \in Nat : p < next /\ \A r \in inbox : r.pos <= p => r.msg \in Processed}

\* Positions the client has given are those of rows, and safe.
GivenIsSafe ==
  /\ acked \in SafePositions
  /\ \A k \in Conns : \A i \in 1 .. Len(up[k]) : up[k][i].pos \in SafePositions

\* A queued frame is that of a row, which stays until its message is processed.
GenuineFrames ==
  {f \in DownFrames : f.kind \in Queued =>
     /\ 0 < f.pos /\ f.pos < next
     /\ \A r \in inbox : r.pos = f.pos => r.msg = f.msg
     /\ f.msg \in Processed \/ \E r \in inbox : r.msg = f.msg}
FramesAreGenuine ==
  \A k \in Conns :
    /\ \A f \in replay[k] : f \in GenuineFrames /\ f.kind # "live"
    /\ \A i \in 1 .. Len(down[k]) : down[k][i] \in GenuineFrames
    /\ \A f, g \in replay[k] : f.pos = g.pos => f = g

\* A connection says hello once and first; nothing is replayed before, and the
\* position is the one the client still has.
HelloFirst ==
  \A k \in Conns : \A i \in 1 .. Len(up[k]) : up[k][i].kind = "hello" =>
    /\ i = 1 /\ replay[k] = {} /\ handler[k] # "replaying"
    /\ \A j \in 1 .. Len(down[k]) : down[k][j].kind = "live"
    /\ k = session => ~greeted /\ up[k][i].pos = acked

\* The HelloAck comes once, in front of every queued frame.
AckFirst ==
  /\ \A k \in Conns : HelloAck \in replay[k] =>
       \A j \in 1 .. Len(down[k]) : down[k][j].kind = "live"
  /\ session # 0 =>
       /\ greeted => HelloAck \notin replay[session]
       /\ \A i \in 1 .. Len(down[session]) : down[session][i].kind = "ack" =>
            /\ ~greeted
            /\ \A j \in 1 .. Len(down[session]) : down[session][j].kind = "ack" => i = j
       /\ ~greeted =>
            /\ \A j \in 1 .. Len(down[session]) : down[session][j].kind \in Queued =>
                 \E i \in 1 .. j - 1 : down[session][i].kind = "ack"
            /\ \A f \in replay[session] :
                 \/ HelloAck \in replay[session]
                 \/ \E i \in 1 .. Len(down[session]) : down[session][i].kind = "ack"

\* In front of a queued frame on its way to the client there is one for every
\* older row the client has not processed.
NothingOvertakes ==
  session # 0 =>
    /\ \A i \in 1 .. Len(down[session]) : down[session][i].kind \in Queued =>
         \A r \in inbox : r.pos < down[session][i].pos =>
           \/ r.msg \in Processed
           \/ \E j \in 1 .. i - 1 :
                down[session][j].kind \in Queued /\ down[session][j].pos = r.pos
    /\ \A f \in replay[session] : \A r \in inbox : r.pos < f.pos =>
         \/ r.msg \in Processed
         \/ \E g \in replay[session] : g.pos = r.pos
         \/ \E j \in 1 .. Len(down[session]) :
              down[session][j].kind \in Queued /\ down[session][j].pos = r.pos

\* What is on its way to the client lies behind the acknowledged position, in
\* ascending order.
Ascending ==
  /\ session # 0 =>
       /\ \A i \in 1 .. Len(down[session]) : down[session][i].kind \in Queued =>
            /\ acked < down[session][i].pos
            /\ \A j \in 1 .. Len(down[session]) :
                 down[session][j].kind \in Queued /\ i < j =>
                   down[session][i].pos < down[session][j].pos
            /\ \A f \in replay[session] : down[session][i].pos < f.pos
       /\ \A f \in replay[session] : f.kind \in Queued => acked < f.pos
  /\ crashes = 0 => highest = acked

\* What a QueueAck has deleted the client has processed.
ErasedIsProcessed == erased \subseteq Processed

Inv ==
  /\ Types /\ Bounded /\ RowsArePlaced /\ Connected /\ ShownIsKept /\ GivenIsSafe
  /\ FramesAreGenuine /\ HelloFirst /\ AckFirst /\ NothingOvertakes /\ Ascending
  /\ ReplayIsSuffix /\ ErasedIsProcessed /\ LossHasCause

-----------------------------------------------------------------------------
(* Frames and the queues they wait in *)

\* Append adds one element behind the others ...
LEMMA AppendFacts ==
  ASSUME NEW S, NEW s \in Seq(S), NEW e \in S
  PROVE  /\ Append(s, e) \in Seq(S)
         /\ Len(s) \in Nat /\ Len(Append(s, e)) = Len(s) + 1
         /\ \A i \in 1 .. Len(s) : Append(s, e)[i] = s[i]
         /\ Append(s, e)[Len(s) + 1] = e
  BY AppendProperties

\* ... and Tail moves every element but the first one place up.
LEMMA TailFacts ==
  ASSUME NEW S, NEW s \in Seq(S), s # <<>>
  PROVE  /\ Tail(s) \in Seq(S)
         /\ Head(s) = s[1] /\ Head(s) \in S
         /\ Len(s) \in Nat /\ 0 < Len(s) /\ Len(Tail(s)) = Len(s) - 1
         /\ \A i \in 1 .. Len(s) - 1 : Tail(s)[i] = s[i + 1]
  BY HeadTailProperties, LenProperties

\* An element of a queue is one of its frames.
LEMMA ElementFacts ==
  ASSUME NEW S, NEW s \in Seq(S)
  PROVE  /\ Len(s) \in Nat /\ DOMAIN s = 1 .. Len(s)
         /\ \A i \in 1 .. Len(s) : s[i] \in S
         /\ s = <<>> <=> Len(s) = 0
  BY LenProperties, ElementOfSeq, EmptySeq

\* What the coordinator sends: only the HelloAck carries no message.
LEMMA DownFacts ==
  /\ HelloAck \in DownFrames /\ HelloAck.kind = "ack" /\ HelloAck.pos = 0
  /\ \A m \in Messages :
       /\ Live(m) \in DownFrames
       /\ Live(m).kind = "live" /\ Live(m).msg = m /\ Live(m).pos = 0
  /\ \A f \in DownFrames :
       /\ f.kind \in {"live", "sealed", "garbled", "plain", "ack"}
       /\ f.pos \in Nat
       /\ f.kind = "ack" <=> f = HelloAck
       /\ f.kind # "ack" => f.msg \in Messages
       /\ f.msg \in Messages \cup {NoMessage}
       /\ f.kind = "ack" => f.msg = NoMessage
  BY DEF DownFrames, HelloAck, Live, Queued

\* What the client sends.
LEMMA UpFacts ==
  /\ \A p \in Nat : Hello(p) \in UpFrames /\ Hello(p).kind = "hello" /\ Hello(p).pos = p
  /\ \A p \in Nat : [kind |-> "queueack", msg |-> NoMessage, pos |-> p] \in UpFrames
  /\ \A f \in UpFrames : f.pos \in Nat /\ f.kind \in {"hello", "queueack"}
  BY DEF UpFrames, Hello

\* Resume's frames are those of the rows behind the position that can be read.
LEMMA DeliveriesFacts ==
  ASSUME Types, NEW after \in Nat
  PROVE  /\ Deliveries(after) \subseteq DownFrames
         /\ \A f \in Deliveries(after) :
              /\ f.kind \in Queued /\ after < f.pos
              /\ \E r \in inbox : r.pos = f.pos /\ r.msg = f.msg
         /\ \A f, g \in Deliveries(after) : f.pos = g.pos /\ RowsArePlaced => f = g
         /\ \A r \in inbox : after < r.pos =>
              r \in Unreadable(after) \/ \E f \in Deliveries(after) : f.pos = r.pos
<1>1. \A r \in inbox : r.pos \in Nat /\ r.msg \in Messages /\ r.body \in Bodies
  BY DEF Types, Rows
<1>2. \A f \in Deliveries(after) : \E r \in inbox :
        /\ after < r.pos /\ r.body \in Queued
        /\ f = [kind |-> r.body, msg |-> r.msg, pos |-> r.pos]
  BY <1>1 DEF Deliveries, Suffix, Unreadable, Bodies
<1>3. \A f \in Deliveries(after) :
        /\ f.kind \in Queued /\ after < f.pos
        /\ \E r \in inbox : r.pos = f.pos /\ r.msg = f.msg
  BY <1>2
<1>6. \A f, g \in Deliveries(after) : f.pos = g.pos /\ RowsArePlaced => f = g
  <2> SUFFICES ASSUME NEW f \in Deliveries(after), NEW g \in Deliveries(after),
                      f.pos = g.pos, RowsArePlaced
               PROVE  f = g
    OBVIOUS
  <2>1. PICK r \in inbox : f = [kind |-> r.body, msg |-> r.msg, pos |-> r.pos]
    BY <1>2
  <2>2. PICK s \in inbox : g = [kind |-> s.body, msg |-> s.msg, pos |-> s.pos]
    BY <1>2
  <2>3. r = s
    BY <2>1, <2>2 DEF RowsArePlaced
  <2> QED
    BY <2>1, <2>2, <2>3
<1>4. Deliveries(after) \subseteq DownFrames
  BY <1>1, <1>2 DEF DownFrames
<1>5. \A r \in inbox : after < r.pos =>
        r \in Unreadable(after) \/ \E f \in Deliveries(after) : f.pos = r.pos
  <2> SUFFICES ASSUME NEW r \in inbox, after < r.pos, r \notin Unreadable(after)
               PROVE  \E f \in Deliveries(after) : f.pos = r.pos
    OBVIOUS
  <2> DEFINE g == [kind |-> r.body, msg |-> r.msg, pos |-> r.pos]
  <2>1. g \in Deliveries(after)
    BY <1>1 DEF Deliveries, Suffix
  <2>2. g.pos = r.pos
    OBVIOUS
  <2> QED
    BY <2>1, <2>2
<1> QED
  BY <1>3, <1>4, <1>5, <1>6

\* Damage changes what a row reads as and nothing else.
LEMMA DamageFacts ==
  ASSUME Types, NEW r \in inbox, NEW b \in {"unreadable", "garbled"}, Damage(r, b)
  PROVE  /\ inbox' \subseteq Rows
         /\ \A q \in inbox' : \E s \in inbox : s.pos = q.pos /\ s.msg = q.msg
         /\ \A s \in inbox : \E q \in inbox' : q.pos = s.pos /\ q.msg = s.msg
         /\ RowsArePlaced => \A q, s \in inbox' : q.pos = s.pos => q = s
         /\ UNCHANGED <<stage, targets, routes, next, pinned, known, online, handler, replay,
                        sockets, client, crashes, ghosts>>
<1> DEFINE d == [r EXCEPT !.body = b]
<1>1. inbox \subseteq Rows /\ r \in Rows
  BY DEF Types
<1>2. d \in Rows /\ d.pos = r.pos /\ d.msg = r.msg
  BY <1>1 DEF Rows, Bodies, Queued
<1>3. inbox' = (inbox \ {r}) \cup {d}
  BY DEF Damage
<1>4. UNCHANGED <<stage, targets, routes, next, pinned, known, online, handler, replay,
                  sockets, client, crashes, ghosts>>
  BY DEF Damage
<1> HIDE DEF d
<1>5. RowsArePlaced => \A q, s \in inbox' : q.pos = s.pos => q = s
  BY <1>2, <1>3 DEF RowsArePlaced
<1>6. \A q \in inbox' : \E s \in inbox : s.pos = q.pos /\ s.msg = q.msg
  BY <1>2, <1>3
<1>7. \A s \in inbox : \E q \in inbox' : q.pos = s.pos /\ q.msg = s.msg
  BY <1>2, <1>3
<1> QED
  BY <1>1, <1>2, <1>3, <1>4, <1>5, <1>6, <1>7

\* A write leaves the queue alone or adds the frame, where the client is.
LEMMA WriteFacts ==
  ASSUME Types, NEW k \in Conns, NEW f \in DownFrames, Write(k, f)
  PROVE  /\ down' \in [Conns -> Seq(DownFrames)]
         /\ \A j \in Conns : j # k => down'[j] = down[j]
         /\ link[k] = "up" => down'[k] = Append(down[k], f)
         /\ link[k] # "up" => down'[k] = down[k]
<1>1. down[k] \in Seq(DownFrames)
  BY DEF Types
<1>2. Append(down[k], f) \in Seq(DownFrames)
  BY <1>1, AppendFacts
<1> QED
  BY <1>2 DEF Write, Types

-----------------------------------------------------------------------------
(* Types *)

\* The dispatch of a message preserves the types.
LEMMA TypesDispatch ==
  ASSUME Types, NEW m \in Messages
  PROVE  /\ Refuse(m) => Types'
         /\ \A b \in BOOLEAN : Dispatch(m, b) => Types'
         /\ Unroutable(m) => Types'
         /\ \A k \in Conns : WriteLive(m, k) => Types'
<1>1. ASSUME Refuse(m) PROVE Types'
  BY <1>1 DEF Refuse, Types, Stages, sockets, client
<1>2. ASSUME NEW b \in BOOLEAN, Dispatch(m, b) PROVE Types'
  <2>1. cause' \in [Messages -> SUBSET Causes]
    <3>1. UNCHANGED cause \/ Blame({m}, "empty room")
      BY <1>2 DEF Dispatch
    <3>2. ASSUME Blame({m}, "empty room") PROVE cause' \in [Messages -> SUBSET Causes]
      BY <3>2 DEF Blame, Types, Causes
    <3> QED
      BY <3>1, <3>2 DEF Types
  <2>2. stage' \in [Messages -> Stages] /\ targets' \in [Messages -> SUBSET Conns]
    BY <1>2 DEF Dispatch, Types, Stages
  <2> QED
    BY <1>2, <2>1, <2>2 DEF Dispatch, Types, sockets, client
<1>3. ASSUME Unroutable(m) PROVE Types'
  <2>1. stage' \in [Messages -> Stages]
    BY <1>3 DEF Unroutable, Types, Stages
  <2>2. Row(next, m) \in Rows
    BY DEF Row, Rows, Types, Bodies, Queued
  <2>3. inbox' \subseteq Rows /\ next' \in Nat
    <3>1. \/ inbox' = inbox /\ next' = next
          \/ inbox' = inbox \cup {Row(next, m)} /\ next' = next + 1
      BY <1>3 DEF Unroutable
    <3> QED
      BY <2>2, <3>1 DEF Types
  <2>4. cause' \in [Messages -> SUBSET Causes]
    <3>1. UNCHANGED cause \/ Blame({m}, "hold failed")
      BY <1>3 DEF Unroutable
    <3>2. ASSUME Blame({m}, "hold failed") PROVE cause' \in [Messages -> SUBSET Causes]
      BY <3>2 DEF Blame, Types, Causes
    <3> QED
      BY <3>1, <3>2 DEF Types
  <2> QED
    BY <1>3, <2>1, <2>3, <2>4 DEF Unroutable, Types, sockets, client
<1>4. ASSUME NEW k \in Conns, WriteLive(m, k) PROVE Types'
  <2>1. stage' \in [Messages -> Stages] /\ targets' \in [Messages -> SUBSET Conns]
    BY <1>4 DEF WriteLive, Types, Stages
  <2>2. down' \in [Conns -> Seq(DownFrames)]
    BY <1>4, WriteFacts, DownFacts DEF WriteLive
  <2>3. cause' \in [Messages -> SUBSET Causes]
    <3>1. UNCHANGED cause \/ Blame({m}, "dead socket")
      BY <1>4 DEF WriteLive
    <3>2. ASSUME Blame({m}, "dead socket") PROVE cause' \in [Messages -> SUBSET Causes]
      BY <3>2 DEF Blame, Types, Causes
    <3> QED
      BY <3>1, <3>2 DEF Types
  <2> QED
    BY <1>4, <2>1, <2>2, <2>3 DEF WriteLive, Types, client
<1> QED
  BY <1>1, <1>2, <1>3, <1>4

\* The handler of a connection preserves the types.
LEMMA TypesHandler ==
  ASSUME Types, NEW k \in Conns
  PROVE  /\ AddRoute(k) => Types'
         /\ HandleHello(k) => Types'
         /\ WriteReplay(k) => Types'
         /\ HandleQueueAck(k) => Types'
         /\ RemoveRoute(k) => Types'
         /\ ConnectionLost(k) => Types'
<1>1. ASSUME AddRoute(k) PROVE Types'
  BY <1>1 DEF AddRoute, Types, Phases, sockets, client, ghosts
<1>2. ASSUME ReadsFrame(k)
      PROVE  up' \in [Conns -> Seq(UpFrames)] /\ Head(up[k]) \in UpFrames
  <2>1. up[k] \in Seq(UpFrames) /\ up[k] # <<>>
    BY <1>2 DEF ReadsFrame, Types
  <2>2. Tail(up[k]) \in Seq(UpFrames) /\ Head(up[k]) \in UpFrames
    BY <2>1, TailFacts
  <2> QED
    BY <1>2, <2>2 DEF ReadsFrame, Types
<1>3. ASSUME HandleHello(k) PROVE Types'
  <2>1. up' \in [Conns -> Seq(UpFrames)] /\ Head(up[k]).pos \in Nat
    BY <1>2, <1>3, UpFacts DEF HandleHello, Dispatches
  <2>2. {HelloAck} \cup Deliveries(Head(up[k]).pos) \in SUBSET DownFrames
    BY <2>1, DeliveriesFacts, DownFacts
  <2>3. {HelloAck} \in SUBSET DownFrames
    BY DownFacts
  <2>4. replay' \in [Conns -> SUBSET DownFrames]
    BY <1>3, <2>2, <2>3 DEF HandleHello, Types
  <2>5. cause' \in [Messages -> SUBSET Causes]
    <3> DEFINE ms == {r.msg : r \in Unreadable(Head(up[k]).pos)}
    <3>1. UNCHANGED cause \/ Blame(ms, "unreadable row")
      BY <1>3 DEF HandleHello
    <3> HIDE DEF ms
    <3>2. ASSUME Blame(ms, "unreadable row") PROVE cause' \in [Messages -> SUBSET Causes]
      BY <3>2 DEF Blame, Types, Causes
    <3> QED
      BY <3>1, <3>2 DEF Types
  <2> QED
    BY <1>3, <2>1, <2>4, <2>5 DEF HandleHello, Types, Phases, client
<1>4. ASSUME WriteReplay(k) PROVE Types'
  <2>1. down' \in [Conns -> Seq(DownFrames)]
    <3>1. \A f \in replay[k] : f \in DownFrames
      BY DEF Types
    <3> QED
      BY <1>4, <3>1, WriteFacts DEF WriteReplay, Types
  <2>2. replay' \in [Conns -> SUBSET DownFrames]
    BY <1>4 DEF WriteReplay, Types
  <2>3. handler' \in [Conns -> Phases]
    BY <1>4 DEF WriteReplay, Types, Phases
  <2> QED
    BY <1>4, <2>1, <2>2, <2>3 DEF WriteReplay, Types, client
<1>5. ASSUME HandleQueueAck(k) PROVE Types'
  <2>1. up' \in [Conns -> Seq(UpFrames)]
    BY <1>2, <1>5 DEF HandleQueueAck, Dispatches
  <2>2. inbox' \subseteq inbox
    BY <1>5 DEF HandleQueueAck
  <2> QED
    BY <1>5, <2>1, <2>2 DEF HandleQueueAck, Types, client
<1>6. ASSUME RemoveRoute(k) PROVE Types'
  <2>1. <<>> \in Seq(UpFrames)
    BY EmptySeq
  <2> QED
    BY <1>6, <2>1 DEF RemoveRoute, Types, Phases, client, ghosts
<1>7. ASSUME ConnectionLost(k) PROVE Types'
  <2>1. online' \in BOOLEAN
    BY <1>7, Zenon DEF ConnectionLost
  <2> QED
    BY <1>7, <2>1 DEF ConnectionLost, Types, Phases, sockets, client, ghosts
<1> QED
  BY <1>1, <1>3, <1>4, <1>5, <1>6, <1>7

\* The client's connection is one of the connections.
LEMMA SessionFacts ==
  ASSUME Types, session # 0
  PROVE  session \in Conns /\ down[session] \in Seq(DownFrames) /\ up[session] \in Seq(UpFrames)
<1>1. session \in Conns
  BY DeliveryAssumption DEF Types, Conns
<1> QED
  BY <1>1 DEF Types

\* A greeted client reads no second HelloAck.
LEMMA EnvelopeFacts ==
  ASSUME Inv, session # 0, greeted, down[session] # <<>>
  PROVE  /\ Head(down[session]) = down[session][1] /\ Head(down[session]) \in DownFrames
         /\ Head(down[session]).kind # "ack" /\ Head(down[session]).msg \in Messages
         /\ Head(down[session]).pos \in Nat
<1>1. down[session] \in Seq(DownFrames)
  BY SessionFacts DEF Inv
<1>2. /\ Head(down[session]) = down[session][1] /\ Head(down[session]) \in DownFrames
      /\ 1 \in 1 .. Len(down[session])
  BY <1>1, TailFacts
<1>3. Head(down[session]).kind # "ack"
  BY <1>2 DEF Inv, AckFirst
<1> QED
  BY <1>2, <1>3, DownFacts

\* The client and what happens to it preserve the types.
LEMMA TypesClient ==
  ASSUME Inv, Dial \/ Lapse \/ Announce \/ Handshake \/ OnEnvelope \/ Keep \/ Break \/ Crash
  PROVE  Types'
<1>t. Types
  BY DEF Inv
<1>1. ASSUME Dial PROVE Types'
  <2>1. conns + 1 \in Conns /\ conns' = conns + 1
    BY <1>1, <1>t, DeliveryAssumption DEF Dial, Types, Conns
  <2>2. <<HelloFrame>> \in Seq(UpFrames)
    <3>1. HelloFrame \in UpFrames
      BY <1>t, UpFacts DEF HelloFrame, Types
    <3> QED
      BY <3>1
  <2>3. greeted' \in BOOLEAN /\ known' \in BOOLEAN /\ online' \in BOOLEAN
    BY <1>1, Zenon DEF Dial
  <2>4. up' \in [Conns -> Seq(UpFrames)] /\ link' \in [Conns -> {"none", "up", "dead"}]
    BY <1>1, <1>t, <2>1, <2>2 DEF Dial, Types
  <2>5. handler' \in [Conns -> Phases]
    BY <1>1, <1>t, <2>1 DEF Dial, Types, Phases
  <2>6. conns' \in 0 .. MaxConns /\ session' \in 0 .. MaxConns
    BY <1>1, <2>1, DeliveryAssumption DEF Dial, Conns
  <2> QED
    BY <1>1, <1>t, <2>3, <2>4, <2>5, <2>6 DEF Dial, Types, ghosts
<1>2. ASSUME Lapse PROVE Types'
  <2>1. online' \in BOOLEAN
    BY <1>2, Zenon DEF Lapse
  <2> QED
    BY <1>2, <1>t, <2>1 DEF Lapse, Types, sockets, client, ghosts
<1>3. ASSUME Announce PROVE Types'
  <2>1. pinned' \in BOOLEAN
    BY <1>3, Zenon DEF Announce
  <2> QED
    BY <1>3, <1>t, <2>1 DEF Announce, Types, sockets, client, ghosts
<1>4. ASSUME Handshake PROVE Types'
  <2>1. session \in Conns /\ Tail(down[session]) \in Seq(DownFrames)
    BY <1>4, <1>t, SessionFacts, TailFacts DEF Handshake
  <2>2. down' \in [Conns -> Seq(DownFrames)]
    BY <1>4, <1>t, <2>1 DEF Handshake, Types
  <2>3. greeted' \in BOOLEAN
    BY <1>4, Zenon DEF Handshake
  <2>4. cause' \in [Messages -> SUBSET Causes]
    <3>1. UNCHANGED cause \/ Blame({Head(down[session]).msg}, "before the ack")
      BY <1>4 DEF Handshake
    <3>2. ASSUME Blame({Head(down[session]).msg}, "before the ack")
          PROVE  cause' \in [Messages -> SUBSET Causes]
      BY <1>t, <3>2 DEF Blame, Types, Causes
    <3> QED
      BY <1>t, <3>1, <3>2 DEF Types
  <2> QED
    BY <1>4, <1>t, <2>2, <2>3, <2>4 DEF Handshake, Types, coordinator
<1>5. ASSUME OnEnvelope PROVE Types'
  <2> DEFINE f == Head(down[session])
  <2>1. session \in Conns /\ Tail(down[session]) \in Seq(DownFrames)
    BY <1>5, <1>t, SessionFacts, TailFacts DEF OnEnvelope
  <2>2. down' \in [Conns -> Seq(DownFrames)]
    BY <1>5, <1>t, <2>1 DEF OnEnvelope, Types
  <2>3. f.msg \in Messages /\ f.pos \in Nat
    BY <1>5, EnvelopeFacts DEF OnEnvelope
  <2>4. shown' \subseteq Messages /\ todo' \in Messages \cup {NoMessage}
    BY <1>5, <1>t, <2>3 DEF OnEnvelope, Types
  <2>5. acked' \in Nat /\ highest' \in Nat
    BY <1>5, <1>t, <2>3 DEF OnEnvelope, Acknowledge, Types
  <2>7. cause' \in [Messages -> SUBSET Causes]
    <3>1. UNCHANGED cause \/ Blame({f.msg}, "forfeited")
      BY <1>5 DEF OnEnvelope
    <3>2. ASSUME Blame({f.msg}, "forfeited") PROVE cause' \in [Messages -> SUBSET Causes]
      BY <1>t, <3>2 DEF Blame, Types, Causes
    <3> QED
      BY <1>t, <3>1, <3>2 DEF Types
  <2>6. up' \in [Conns -> Seq(UpFrames)]
    <3> DEFINE a == [kind |-> "queueack", msg |-> NoMessage, pos |-> f.pos]
    <3>1. up[session] \in Seq(UpFrames) /\ a \in UpFrames
      BY <1>5, <1>t, <2>3, SessionFacts, UpFacts DEF OnEnvelope
    <3>2. Append(up[session], a) \in Seq(UpFrames)
      BY <3>1, AppendFacts
    <3>3. up' = up \/ up' = [up EXCEPT ![session] = Append(@, a)]
      BY <1>5 DEF OnEnvelope, Acknowledge
    <3> QED
      BY <1>t, <2>1, <3>2, <3>3 DEF Types
  <2> QED
    BY <1>5, <1>t, <2>2, <2>4, <2>5, <2>6, <2>7 DEF OnEnvelope, Types, coordinator
<1>6. ASSUME Keep PROVE Types'
  <2>1. cause' \in [Messages -> SUBSET Causes]
    <3>1. UNCHANGED cause \/ Blame({todo}, "append failed")
      BY <1>6 DEF Keep
    <3>2. ASSUME Blame({todo}, "append failed") PROVE cause' \in [Messages -> SUBSET Causes]
      BY <1>t, <3>2 DEF Blame, Types, Causes
    <3> QED
      BY <1>t, <3>1, <3>2 DEF Types
  <2>2. kept' \subseteq Messages
    BY <1>6, <1>t DEF Keep, Types
  <2> QED
    BY <1>6, <1>t, <2>1, <2>2 DEF Keep, Types, coordinator, sockets
<1>7. ASSUME session # 0, Sever(session)
      PROVE  down' \in [Conns -> Seq(DownFrames)] /\ link' \in [Conns -> {"none", "up", "dead"}]
  <2>1. session \in Conns /\ <<>> \in Seq(DownFrames)
    BY <1>7, <1>t, SessionFacts, EmptySeq
  <2> QED
    BY <1>7, <1>t, <2>1 DEF Sever, Types
<1>8. ASSUME Break PROVE Types'
  <2>1. cause' \in [Messages -> SUBSET Causes]
    BY <1>8, <1>t DEF Break, Blame, Types, Causes
  <2>2. greeted' \in BOOLEAN /\ session' \in 0 .. MaxConns
    <3>1. greeted' \in BOOLEAN
      BY <1>8, Zenon DEF Break
    <3>2. session' = 0
      BY <1>8 DEF Break
    <3> QED
      BY <3>1, <3>2, DeliveryAssumption
  <2>3. down' \in [Conns -> Seq(DownFrames)] /\ link' \in [Conns -> {"none", "up", "dead"}]
    BY <1>7, <1>8 DEF Break
  <2> QED
    BY <1>8, <1>t, <2>1, <2>2, <2>3 DEF Break, Types, coordinator
<1>9. ASSUME Crash PROVE Types'
  <2>1. cause' \in [Messages -> SUBSET Causes]
    BY <1>9, <1>t DEF Crash, Blame, Types, Causes
  <2>2. greeted' \in BOOLEAN /\ session' \in 0 .. MaxConns
    <3>1. greeted' \in BOOLEAN
      BY <1>9, Zenon DEF Crash
    <3> QED
      BY <1>9, <3>1, DeliveryAssumption DEF Crash
  <2>3. down' \in [Conns -> Seq(DownFrames)] /\ link' \in [Conns -> {"none", "up", "dead"}]
    <3>1. (session # 0 /\ Sever(session)) \/ UNCHANGED <<link, down>>
      BY <1>9 DEF Crash
    <3> QED
      BY <1>t, <1>7, <3>1 DEF Types
  <2> QED
    BY <1>9, <1>t, <2>1, <2>2, <2>3 DEF Crash, Types, coordinator
<1> QED
  BY <1>1, <1>2, <1>3, <1>4, <1>5, <1>6, <1>8, <1>9

\* Every step preserves the types.
LEMMA TypesStep == Inv /\ [Next]_vars => Types'
<1> SUFFICES ASSUME Inv, [Next]_vars PROVE Types'
  OBVIOUS
<1>t. Types
  BY DEF Inv
<1>1. CASE UNCHANGED vars
  BY <1>t, <1>1 DEF Types, vars, coordinator, sockets, client, ghosts
<1>3. ASSUME NEW r \in inbox, NEW b \in {"unreadable", "garbled"}, Damage(r, b) PROVE Types'
  BY <1>t, <1>3, DamageFacts DEF Types, sockets, client, ghosts
<1>2. CASE Next
  BY <1>t, <1>2, <1>3, TypesDispatch, TypesHandler, TypesClient DEF Next
<1> QED
  BY <1>1, <1>2

-----------------------------------------------------------------------------
(* What every step keeps *)

\* A cause that was named stays named.
LEMMA CausesStay ==
  ASSUME Types, [Next]_vars
  PROVE  \A m \in Messages : cause[m] \subseteq cause'[m]
<1> USE DEF Types
<1>1. ASSUME NEW m \in Messages, Dispatch(m, TRUE) \/ Dispatch(m, FALSE)
      PROVE  \A n \in Messages : cause[n] \subseteq cause'[n]
  <2>1. UNCHANGED cause \/ Blame({m}, "empty room")
    BY <1>1 DEF Dispatch
  <2> QED
    BY <2>1 DEF Blame
<1>2. ASSUME NEW m \in Messages, Unroutable(m)
      PROVE  \A n \in Messages : cause[n] \subseteq cause'[n]
  BY <1>2 DEF Unroutable, Blame
<1>3. ASSUME NEW m \in Messages, NEW k \in Conns, WriteLive(m, k)
      PROVE  \A n \in Messages : cause[n] \subseteq cause'[n]
  BY <1>3 DEF WriteLive, Blame
<1>4. ASSUME Handshake
      PROVE  \A n \in Messages : cause[n] \subseteq cause'[n]
  <2>1. UNCHANGED cause \/ Blame({Head(down[session]).msg}, "before the ack")
    BY <1>4 DEF Handshake
  <2>2. CASE Blame({Head(down[session]).msg}, "before the ack")
    BY <2>2 DEF Blame
  <2> QED
    BY <2>1, <2>2
<1>5. ASSUME Break
      PROVE  \A n \in Messages : cause[n] \subseteq cause'[n]
  BY <1>5 DEF Break, Blame
<1>6. ASSUME Crash
      PROVE  \A n \in Messages : cause[n] \subseteq cause'[n]
  BY <1>6 DEF Crash, Blame
<1>7. ASSUME NEW m \in Messages, Refuse(m) PROVE UNCHANGED cause
  BY <1>7 DEF Refuse
<1>8. ASSUME NEW k \in Conns,
             \/ AddRoute(k) \/ WriteReplay(k) \/ HandleQueueAck(k)
             \/ RemoveRoute(k) \/ ConnectionLost(k)
      PROVE  UNCHANGED cause
  BY <1>8 DEF AddRoute, WriteReplay, HandleQueueAck, RemoveRoute, ConnectionLost, ghosts
<1>9. ASSUME Dial \/ Lapse \/ Announce PROVE UNCHANGED cause
  BY <1>9 DEF Dial, Lapse, Announce, ghosts
<1>11. ASSUME NEW k \in Conns, HandleHello(k)
       PROVE  \A n \in Messages : cause[n] \subseteq cause'[n]
  <2> DEFINE ms == {r.msg : r \in Unreadable(Head(up[k]).pos)}
  <2>1. UNCHANGED cause \/ Blame(ms, "unreadable row")
    BY <1>11 DEF HandleHello
  <2> HIDE DEF ms
  <2> QED
    BY <2>1 DEF Blame
<1>12. ASSUME OnEnvelope
       PROVE  \A n \in Messages : cause[n] \subseteq cause'[n]
  <2>1. UNCHANGED cause \/ Blame({Head(down[session]).msg}, "forfeited")
    BY <1>12 DEF OnEnvelope
  <2> QED
    BY <2>1 DEF Blame
<1>13. ASSUME Keep
       PROVE  \A n \in Messages : cause[n] \subseteq cause'[n]
  BY <1>13 DEF Keep, Blame
<1>14. ASSUME NEW r \in inbox, NEW b \in {"unreadable", "garbled"}, Damage(r, b)
       PROVE  UNCHANGED cause
  BY <1>14 DEF Damage, ghosts
<1>10. ASSUME UNCHANGED vars PROVE UNCHANGED cause
  BY <1>10 DEF vars, ghosts
<1> QED
  BY <1>1, <1>2, <1>3, <1>4, <1>5, <1>6, <1>7, <1>8, <1>9, <1>10, <1>11, <1>12, <1>13, <1>14 DEF Next

\* What the client has processed stays processed: only a crash takes the message
\* that is still to be appended, and then it is named as the cause.
LEMMA ProcessedStays ==
  ASSUME Inv, [Next]_vars
  PROVE  Processed \subseteq Processed'
<1>t. Types
  BY DEF Inv
<1>1. \A m \in Messages : cause[m] \subseteq cause'[m]
  BY <1>t, CausesStay
<1>2. ASSUME UNCHANGED <<kept, todo>> PROVE Processed \subseteq Processed'
  BY <1>1, <1>2 DEF Processed, Settled
<1>3. ASSUME OnEnvelope PROVE Processed \subseteq Processed'
  <2>1. todo = NoMessage /\ UNCHANGED kept
    BY <1>3 DEF OnEnvelope
  <2> QED
    BY <1>1, <2>1, DeliveryAssumption DEF Processed, Settled
<1>4. ASSUME Keep PROVE Processed \subseteq Processed'
  <2>1. \A m \in Messages : m = todo => m \in kept' \/ "append failed" \in cause'[m]
    BY <1>4 DEF Keep, Blame
  <2>2. kept \subseteq kept'
    BY <1>4 DEF Keep
  <2> QED
    BY <1>1, <2>1, <2>2 DEF Processed, Settled
<1>5. ASSUME Crash PROVE Processed \subseteq Processed'
  <2>1. \A m \in Messages : m = todo => m \in shown
    BY DeliveryAssumption DEF Inv, ShownIsKept
  <2>2. \A m \in Messages : m \in shown \ kept => "crash" \in cause'[m]
    BY <1>5, <1>t DEF Crash, Blame, Types
  <2>3. UNCHANGED kept
    BY <1>5 DEF Crash
  <2> QED
    BY <1>1, <2>1, <2>2, <2>3 DEF Processed, Settled
<1>6. ASSUME NEW m \in Messages,
             \/ Refuse(m) \/ Dispatch(m, TRUE) \/ Dispatch(m, FALSE) \/ Unroutable(m)
             \/ \E k \in Conns : WriteLive(m, k)
      PROVE  UNCHANGED <<kept, todo>>
  BY <1>6 DEF Refuse, Dispatch, Unroutable, WriteLive, client
<1>7. ASSUME NEW k \in Conns,
             \/ AddRoute(k) \/ HandleHello(k) \/ WriteReplay(k) \/ HandleQueueAck(k)
             \/ RemoveRoute(k) \/ ConnectionLost(k)
      PROVE  UNCHANGED <<kept, todo>>
  BY <1>7 DEF AddRoute, HandleHello, WriteReplay, HandleQueueAck, RemoveRoute, ConnectionLost, client
<1>8. ASSUME Dial \/ Lapse \/ Announce \/ Handshake \/ Break PROVE UNCHANGED <<kept, todo>>
  BY <1>8 DEF Dial, Lapse, Announce, Handshake, Break, client
<1>9. ASSUME UNCHANGED vars PROVE UNCHANGED <<kept, todo>>
  BY <1>9 DEF vars, client
<1>10. ASSUME NEW r \in inbox, NEW b \in {"unreadable", "garbled"}, Damage(r, b)
       PROVE  UNCHANGED <<kept, todo>>
  BY <1>10 DEF Damage, client
<1> QED
  BY <1>2, <1>3, <1>4, <1>5, <1>6, <1>7, <1>8, <1>9, <1>10 DEF Next

\* The inbox gains the row at the cursor, and loses only rows whose message the
\* client has processed; the others stay, whatever they read as.
LEMMA InboxStep ==
  ASSUME Inv, [Next]_vars
  PROVE  /\ next <= next'
         /\ \A r \in inbox' : \/ \E s \in inbox : s.pos = r.pos /\ s.msg = r.msg
                              \/ r.pos = next /\ next' = next + 1
         /\ \A r, s \in inbox' : r.pos = s.pos => r = s
         /\ \A r \in inbox : \/ \E s \in inbox' : s.pos = r.pos /\ s.msg = r.msg
                             \/ r.msg \in Processed
<1>t. Types /\ RowsArePlaced
  BY DEF Inv
<1>1. ASSUME UNCHANGED <<inbox, next>>
      PROVE  next <= next' /\ inbox' = inbox
  BY <1>1, <1>t DEF Types
<1>2. ASSUME NEW m \in Messages, Unroutable(m)
      PROVE  /\ next <= next'
             /\ \A r \in inbox' : r \in inbox \/ (r.pos = next /\ next' = next + 1)
             /\ \A r, s \in inbox' : r \in inbox \/ s \in inbox \/ r = s
             /\ \A r \in inbox : r \in inbox'
  <2>1. \/ UNCHANGED <<inbox, next>>
        \/ inbox' = inbox \cup {Row(next, m)} /\ next' = next + 1
    BY <1>2 DEF Unroutable
  <2>2. Row(next, m).pos = next
    BY DEF Row
  <2> QED
    BY <1>t, <2>1, <2>2 DEF Types
<1>3. ASSUME NEW k \in Conns, HandleQueueAck(k)
      PROVE  /\ next <= next'
             /\ \A r \in inbox' : r \in inbox
             /\ \A r \in inbox : r \in inbox' \/ r.msg \in Processed
  <2>1. up[k] \in Seq(UpFrames) /\ up[k] # <<>>
    BY <1>t, <1>3 DEF HandleQueueAck, Dispatches, ReadsFrame, Types
  <2>2. Head(up[k]) = up[k][1] /\ 1 \in 1 .. Len(up[k]) /\ Head(up[k]).pos \in Nat
    BY <2>1, TailFacts, UpFacts
  <2>3. Head(up[k]).pos \in SafePositions
    BY <2>2 DEF Inv, GivenIsSafe
  <2>4. UNCHANGED next
    BY <1>3 DEF HandleQueueAck
  <2>5. inbox' = inbox \/ inbox' = {r \in inbox : r.pos > Head(up[k]).pos}
    BY <1>3 DEF HandleQueueAck
  <2>6. \A r \in inbox : r.pos \in Nat
    BY <1>t DEF Types, Rows
  <2>7. \A r \in inbox : r \in inbox' \/ r.msg \in Processed
    BY <2>2, <2>3, <2>5, <2>6 DEF SafePositions
  <2> QED
    BY <1>t, <2>4, <2>5, <2>7 DEF Types
<1>4. ASSUME NEW m \in Messages,
             \/ Refuse(m) \/ Dispatch(m, TRUE) \/ Dispatch(m, FALSE)
             \/ \E k \in Conns : WriteLive(m, k)
      PROVE  UNCHANGED <<inbox, next>>
  BY <1>4 DEF Refuse, Dispatch, WriteLive
<1>5. ASSUME NEW k \in Conns,
             \/ AddRoute(k) \/ HandleHello(k) \/ WriteReplay(k) \/ RemoveRoute(k) \/ ConnectionLost(k)
      PROVE  UNCHANGED <<inbox, next>>
  BY <1>5 DEF AddRoute, HandleHello, WriteReplay, RemoveRoute, ConnectionLost
<1>6. ASSUME Dial \/ Lapse \/ Announce \/ Handshake \/ OnEnvelope \/ Keep \/ Break \/ Crash
      PROVE  UNCHANGED <<inbox, next>>
  BY <1>6 DEF Dial, Lapse, Announce, Handshake, OnEnvelope, Keep, Break, Crash, coordinator
<1>7. ASSUME UNCHANGED vars PROVE UNCHANGED <<inbox, next>>
  BY <1>7 DEF vars, coordinator
<1>p. \A r, s \in inbox : r.pos = s.pos => r = s
  BY <1>t DEF RowsArePlaced
<1>8. CASE UNCHANGED <<inbox, next>>
  BY <1>1, <1>p, <1>8
<1>9. CASE \E m \in Messages : Unroutable(m)
  <2>1. \A r \in inbox : r.pos # next
    BY <1>t DEF RowsArePlaced, Types, Rows
  <2> QED
    BY <1>2, <1>9, <1>p, <2>1
<1>10. CASE \E k \in Conns : HandleQueueAck(k)
  BY <1>3, <1>p, <1>10
<1>11. CASE \E r \in inbox, b \in {"unreadable", "garbled"} : Damage(r, b)
  <2>1. UNCHANGED next
    BY <1>t, <1>11, DamageFacts
  <2> QED
    BY <1>t, <1>11, <2>1, DamageFacts DEF Types
<1> QED
  BY <1>4, <1>5, <1>6, <1>7, <1>8, <1>9, <1>10, <1>11 DEF Next

\* A safe position stays safe: rows that come later lie behind it.
LEMMA SafeStays == Inv /\ [Next]_vars => SafePositions \subseteq SafePositions'
<1> SUFFICES ASSUME Inv, [Next]_vars PROVE SafePositions \subseteq SafePositions'
  OBVIOUS
<1>1. /\ next <= next'
      /\ \A r \in inbox' : r.pos = next \/ \E s \in inbox : s.pos = r.pos /\ s.msg = r.msg
  BY InboxStep
<1>2. next \in Nat /\ next' \in Nat /\ \A r \in inbox : r.pos \in Nat
  BY TypesStep DEF Inv, Types, Rows
<1>3. Processed \subseteq Processed'
  BY ProcessedStays
<1> QED
  BY <1>1, <1>2, <1>3 DEF SafePositions

\* A frame stays that of its row.
LEMMA GenuineStays == Inv /\ [Next]_vars => GenuineFrames \subseteq GenuineFrames'
<1> SUFFICES ASSUME Inv, [Next]_vars PROVE GenuineFrames \subseteq GenuineFrames'
  OBVIOUS
<1>1. /\ next <= next'
      /\ \A r \in inbox' : r.pos = next \/ \E s \in inbox : s.pos = r.pos /\ s.msg = r.msg
      /\ \A r \in inbox : r.msg \in Processed \/ \E s \in inbox' : s.pos = r.pos /\ s.msg = r.msg
  BY InboxStep
<1>2. next \in Nat /\ next' \in Nat
  BY TypesStep DEF Inv, Types
<1>3. Processed \subseteq Processed'
  BY ProcessedStays
<1>4. \A f \in DownFrames : f.pos \in Nat
  BY DownFacts
<1> SUFFICES ASSUME NEW f \in GenuineFrames, f.kind \in Queued PROVE f \in GenuineFrames'
  BY DEF GenuineFrames
<1>5. f \in DownFrames /\ 0 < f.pos /\ f.pos < next'
  BY <1>1, <1>2, <1>4 DEF GenuineFrames
<1>6. \A r \in inbox' : r.pos = f.pos => r.msg = f.msg
  BY <1>1, <1>2, <1>4 DEF GenuineFrames
<1>7. f.msg \in Processed' \/ \E r \in inbox' : r.msg = f.msg
  BY <1>1, <1>3 DEF GenuineFrames
<1> QED
  BY <1>5, <1>6, <1>7 DEF GenuineFrames

\* Rows keep positions of their own ...
LEMMA RowsStep == Inv /\ [Next]_vars => RowsArePlaced'
<1> SUFFICES ASSUME Inv, [Next]_vars PROVE RowsArePlaced'
  OBVIOUS
<1>1. /\ next <= next'
      /\ \A r \in inbox' : \/ \E s \in inbox : s.pos = r.pos /\ s.msg = r.msg
                           \/ r.pos = next /\ next' = next + 1
      /\ \A r, s \in inbox' : r.pos = s.pos => r = s
  BY InboxStep
<1>2. next \in Nat /\ next' \in Nat /\ \A r \in inbox : r.pos \in Nat
  BY TypesStep DEF Inv, Types, Rows
<1>3. RowsArePlaced
  BY DEF Inv
<1> QED
  BY <1>1, <1>2, <1>3 DEF RowsArePlaced

\* ... and never exceed the size of the inbox.
LEMMA BoundedStep == Inv /\ [Next]_vars => Bounded'
<1> SUFFICES ASSUME Inv, [Next]_vars PROVE Bounded'
  OBVIOUS
<1>1. IsFiniteSet(inbox) /\ Cardinality(inbox) \in Nat /\ Cardinality(inbox) <= MaxSize
  BY FS_CardinalityType DEF Inv, Bounded
<1>2. ASSUME inbox' \subseteq inbox PROVE Bounded'
  <2>1. IsFiniteSet(inbox') /\ Cardinality(inbox') <= Cardinality(inbox)
    BY <1>1, <1>2, FS_Subset
  <2>2. Cardinality(inbox') \in Nat
    BY <2>1, FS_CardinalityType
  <2> QED
    BY <1>1, <2>1, <2>2, DeliveryAssumption DEF Bounded
<1>3. ASSUME NEW m \in Messages, Unroutable(m) PROVE Bounded'
  <2>1. CASE inbox' = inbox
    BY <1>2, <2>1
  <2>2. CASE inbox' = inbox \cup {Row(next, m)} /\ Cardinality(inbox) < MaxSize
    <3>1. IsFiniteSet(inbox') /\ Cardinality(inbox') <= Cardinality(inbox) + 1
      <4>1. \A x : IsFiniteSet(inbox \cup {x}) /\ Cardinality(inbox \cup {x}) <= Cardinality(inbox) + 1
        BY <1>1, FS_AddElement, SMTT(30)
      <4> QED
        BY <2>2, <4>1
    <3>2. Cardinality(inbox') \in Nat
      BY <3>1, FS_CardinalityType
    <3> QED
      BY <1>1, <2>2, <3>1, <3>2, DeliveryAssumption DEF Bounded
  <2> QED
    BY <1>3, <2>1, <2>2 DEF Unroutable
<1>4. ASSUME NEW k \in Conns, HandleQueueAck(k) PROVE inbox' \subseteq inbox
  BY <1>4 DEF HandleQueueAck
<1>5. ASSUME NEW m \in Messages,
             \/ Refuse(m) \/ Dispatch(m, TRUE) \/ Dispatch(m, FALSE)
             \/ \E k \in Conns : WriteLive(m, k)
      PROVE  UNCHANGED inbox
  BY <1>5 DEF Refuse, Dispatch, WriteLive
<1>6. ASSUME NEW k \in Conns,
             \/ AddRoute(k) \/ HandleHello(k) \/ WriteReplay(k) \/ RemoveRoute(k) \/ ConnectionLost(k)
      PROVE  UNCHANGED inbox
  BY <1>6 DEF AddRoute, HandleHello, WriteReplay, RemoveRoute, ConnectionLost
<1>7. ASSUME Dial \/ Lapse \/ Announce \/ Handshake \/ OnEnvelope \/ Keep \/ Break \/ Crash
      PROVE  UNCHANGED inbox
  BY <1>7 DEF Dial, Lapse, Announce, Handshake, OnEnvelope, Keep, Break, Crash, coordinator
<1>8. ASSUME UNCHANGED vars PROVE UNCHANGED inbox
  BY <1>8 DEF vars, coordinator
<1>9. ASSUME NEW r \in inbox, NEW b \in {"unreadable", "garbled"}, Damage(r, b) PROVE Bounded'
  <2> DEFINE d == [r EXCEPT !.body = b]
             rest == inbox \ {r}
  <2>1. inbox' = rest \cup {d}
    BY <1>9 DEF Damage
  <2>2. IsFiniteSet(rest) /\ Cardinality(rest) = Cardinality(inbox) - 1
    BY <1>1, FS_RemoveElement
  <2> HIDE DEF d, rest
  <2>3. IsFiniteSet(rest \cup {d}) /\ Cardinality(rest \cup {d}) <= Cardinality(rest) + 1
    BY <1>1, <2>2, FS_AddElement, SMTT(30)
  <2>4. Cardinality(inbox') \in Nat
    BY <2>1, <2>3, FS_CardinalityType
  <2> QED
    BY <1>1, <2>1, <2>2, <2>3, <2>4, DeliveryAssumption DEF Bounded
<1> QED
  BY <1>2, <1>3, <1>4, <1>5, <1>6, <1>7, <1>8, <1>9 DEF Next

\* What is shown is processed, or the next thing to be.
LEMMA ShownStep == Inv /\ [Next]_vars => ShownIsKept'
<1> SUFFICES ASSUME Inv, [Next]_vars PROVE ShownIsKept'
  OBVIOUS
<1>t. Types /\ ShownIsKept /\ Processed \subseteq Processed'
  BY ProcessedStays DEF Inv
<1>1. ASSUME UNCHANGED <<shown, kept, todo>> PROVE ShownIsKept'
  BY <1>1, <1>t DEF ShownIsKept
<1>2. ASSUME OnEnvelope PROVE ShownIsKept'
  <2> DEFINE m == Head(down[session]).msg
  <2>1. m \in Messages
    BY <1>2, EnvelopeFacts DEF OnEnvelope
  <2>2. todo = NoMessage
    BY <1>2 DEF OnEnvelope
  <2>3. \/ shown' = shown /\ todo' = todo
        \/ shown' = shown \cup {m} /\ todo' = IF m \in shown THEN NoMessage ELSE m
    BY <1>2 DEF OnEnvelope
  <2> HIDE DEF m
  <2>4. todo' \in shown' \cup {NoMessage}
    BY <2>2, <2>3
  <2>5. shown' \subseteq Processed'
    <3>1. m = todo' => m \in Processed'
      BY <2>1 DEF Processed
    <3> QED
      BY <1>t, <2>3, <3>1 DEF ShownIsKept
  <2> QED
    BY <2>4, <2>5 DEF ShownIsKept
<1>3. ASSUME Keep PROVE ShownIsKept'
  BY <1>3, <1>t DEF Keep, ShownIsKept
<1>4. ASSUME Crash PROVE ShownIsKept'
  BY <1>4, <1>t DEF Crash, ShownIsKept
<1>5. ASSUME NEW m \in Messages,
             \/ Refuse(m) \/ Dispatch(m, TRUE) \/ Dispatch(m, FALSE) \/ Unroutable(m)
             \/ \E k \in Conns : WriteLive(m, k)
      PROVE  UNCHANGED <<shown, kept, todo>>
  BY <1>5 DEF Refuse, Dispatch, Unroutable, WriteLive, client
<1>6. ASSUME NEW k \in Conns,
             \/ AddRoute(k) \/ HandleHello(k) \/ WriteReplay(k) \/ HandleQueueAck(k)
             \/ RemoveRoute(k) \/ ConnectionLost(k)
      PROVE  UNCHANGED <<shown, kept, todo>>
  BY <1>6 DEF AddRoute, HandleHello, WriteReplay, HandleQueueAck, RemoveRoute, ConnectionLost, client
<1>7. ASSUME Dial \/ Lapse \/ Announce \/ Handshake \/ Break PROVE UNCHANGED <<shown, kept, todo>>
  BY <1>7 DEF Dial, Lapse, Announce, Handshake, Break, client
<1>8. ASSUME UNCHANGED vars PROVE UNCHANGED <<shown, kept, todo>>
  BY <1>8 DEF vars, client
<1>9. ASSUME NEW r \in inbox, NEW b \in {"unreadable", "garbled"}, Damage(r, b)
      PROVE  UNCHANGED <<shown, kept, todo>>
  BY <1>9 DEF Damage, client
<1> QED
  BY <1>1, <1>2, <1>3, <1>4, <1>5, <1>6, <1>7, <1>8, <1>9 DEF Next

-----------------------------------------------------------------------------
(* The queues *)

\* The steps that move frames, and what the others leave alone.
LEMMA StepCases ==
  ASSUME Types, [Next]_vars
  PROVE  \/ /\ UNCHANGED <<replay, sockets, session, greeted, acked, highest, crashes>>
            /\ \A k \in Conns : handler'[k] = "replaying" => handler[k] = "replaying"
         \/ \E m \in Messages, k \in Conns : WriteLive(m, k)
         \/ \E k \in Conns : HandleHello(k)
         \/ \E k \in Conns : WriteReplay(k)
         \/ \E k \in Conns : HandleQueueAck(k)
         \/ \E k \in Conns : RemoveRoute(k)
         \/ Dial \/ Handshake \/ OnEnvelope \/ Break \/ Crash
<1> DEFINE Still == /\ UNCHANGED <<replay, sockets, session, greeted, acked, highest, crashes>>
                    /\ \A k \in Conns : handler'[k] = "replaying" => handler[k] = "replaying"
<1>1. ASSUME NEW m \in Messages,
             Refuse(m) \/ Dispatch(m, TRUE) \/ Dispatch(m, FALSE) \/ Unroutable(m)
      PROVE  Still
  BY <1>1 DEF Refuse, Dispatch, Unroutable, client, ghosts
<1>2. ASSUME NEW k \in Conns, AddRoute(k) \/ ConnectionLost(k) PROVE Still
  BY <1>2 DEF AddRoute, ConnectionLost, client, ghosts, Types
<1>3. ASSUME Lapse \/ Announce \/ Keep PROVE Still
  BY <1>3 DEF Lapse, Announce, Keep, coordinator, client, ghosts
<1>4. ASSUME UNCHANGED vars PROVE Still
  BY <1>4 DEF vars, coordinator, client, ghosts
<1>5. ASSUME NEW r \in inbox, NEW b \in {"unreadable", "garbled"}, Damage(r, b) PROVE Still
  BY <1>5 DEF Damage, client, ghosts
<1> QED
  BY <1>1, <1>2, <1>3, <1>4, <1>5 DEF Next

\* handleHello reads the Hello and puts the suffix behind it in front of the
\* writer, or nothing.
LEMMA HelloFacts ==
  ASSUME Types, NEW k \in Conns, HandleHello(k)
  PROVE  /\ Dispatches(k, "hello")
         /\ UNCHANGED <<down, link, conns, client, crashes, highest, inbox>>
         /\ \A j \in Conns : j # k => replay'[j] = replay[j]
         /\ \/ replay'[k] = {HelloAck}
            \/ replay'[k] = {HelloAck} \cup Deliveries(Head(up[k]).pos)
<1>1. Dispatches(k, "hello") /\ UNCHANGED <<down, link, conns, client, crashes, highest, inbox>>
  BY DEF HandleHello
<1>2. \/ replay' = [replay EXCEPT ![k] = {HelloAck}]
      \/ replay' = [replay EXCEPT ![k] = {HelloAck} \cup Deliveries(Head(up[k]).pos)]
  BY DEF HandleHello
<1> QED
  BY <1>1, <1>2 DEF Types

\* The read loop takes the first frame of its queue.
LEMMA ReadFacts ==
  ASSUME Types, NEW k \in Conns, ReadsFrame(k)
  PROVE  /\ \A j \in Conns : j # k => up'[j] = up[j]
         /\ Len(up[k]) \in Nat /\ 0 < Len(up[k])
         /\ Head(up[k]) = up[k][1] /\ Head(up[k]) \in UpFrames /\ Head(up[k]).pos \in Nat
         /\ Len(up'[k]) = Len(up[k]) - 1
         /\ \A i \in 1 .. Len(up[k]) - 1 : up'[k][i] = up[k][i + 1]
<1>1. up[k] \in Seq(UpFrames) /\ up[k] # <<>> /\ up'[k] = Tail(up[k])
  BY DEF ReadsFrame, Types
<1>2. \A j \in Conns : j # k => up'[j] = up[j]
  BY DEF ReadsFrame, Types
<1> QED
  BY <1>1, <1>2, TailFacts, UpFacts

\* The client takes the first frame of its own.
LEMMA TakeFacts ==
  ASSUME Types, session # 0, down[session] # <<>>,
         down' = [down EXCEPT ![session] = Tail(@)]
  PROVE  /\ \A j \in Conns : j # session => down'[j] = down[j]
         /\ Len(down[session]) \in Nat /\ 0 < Len(down[session])
         /\ Head(down[session]) = down[session][1] /\ Head(down[session]) \in DownFrames
         /\ Len(down'[session]) = Len(down[session]) - 1
         /\ \A i \in 1 .. Len(down[session]) - 1 : down'[session][i] = down[session][i + 1]
<1>1. session \in Conns /\ down[session] \in Seq(DownFrames)
  BY SessionFacts
<1>2. down'[session] = Tail(down[session]) /\ \A j \in Conns : j # session => down'[j] = down[j]
  BY <1>1 DEF Types
<1> QED
  BY <1>1, <1>2, TailFacts, ZenonT(40)

\* A frame that is written comes last.
LEMMA PutFacts ==
  ASSUME Types, NEW k \in Conns, NEW f \in DownFrames, Write(k, f)
  PROVE  /\ \A j \in Conns : j # k => down'[j] = down[j]
         /\ link[k] # "up" => down'[k] = down[k]
         /\ Len(down[k]) \in Nat
         /\ link[k] = "up" =>
              /\ Len(down'[k]) = Len(down[k]) + 1
              /\ \A i \in 1 .. Len(down[k]) : down'[k][i] = down[k][i]
              /\ down'[k][Len(down[k]) + 1] = f
<1>1. down[k] \in Seq(DownFrames)
  BY DEF Types
<1> QED
  BY <1>1, WriteFacts, AppendFacts

\* OnEnvelope acknowledges the position of a sealed frame behind its own.
LEMMA AcknowledgeFacts ==
  ASSUME Inv, OnEnvelope
  PROVE  LET f == Head(down[session]) IN
         /\ acked' \in {acked, f.pos}
         /\ acked' # acked => acked' = f.pos /\ f.kind \in Queued /\ acked < f.pos
         /\ \A j \in Conns : j # session => up'[j] = up[j]
         /\ Len(up[session]) \in Nat
         /\ \/ up'[session] = up[session]
            \/ /\ Len(up'[session]) = Len(up[session]) + 1
               /\ \A i \in 1 .. Len(up[session]) : up'[session][i] = up[session][i]
               /\ up'[session][Len(up[session]) + 1].kind = "queueack"
               /\ up'[session][Len(up[session]) + 1].pos = acked'
<1> DEFINE f == Head(down[session])
           a == [kind |-> "queueack", msg |-> NoMessage, pos |-> f.pos]
<1>1. Types /\ session # 0 /\ session \in Conns /\ up[session] \in Seq(UpFrames) /\ acked \in Nat
  BY SessionFacts DEF Inv, OnEnvelope, Types
<1>2. f.pos \in Nat
  BY EnvelopeFacts DEF OnEnvelope
<1>3. CASE UNCHANGED <<acked, highest, up>>
  BY <1>1, <1>3, ElementFacts
<1>4. CASE f.kind \in Queued /\ ~(f.pos <= acked) /\ Acknowledge(f.pos)
  <2>1. acked' = f.pos /\ acked < f.pos
    BY <1>1, <1>2, <1>4 DEF Acknowledge
  <2>2. up' = up \/ up' = [up EXCEPT ![session] = Append(@, a)]
    BY <1>4 DEF Acknowledge
  <2>3. CASE up' = up
    BY <1>1, <1>4, <2>1, <2>3, ElementFacts
  <2>4. CASE up' = [up EXCEPT ![session] = Append(@, a)]
    <3>1. up'[session] = Append(up[session], a) /\ \A j \in Conns : j # session => up'[j] = up[j]
      BY <1>1, <2>4 DEF Types
    <3>2. a \in UpFrames /\ a.kind = "queueack" /\ a.pos = f.pos
      BY <1>2, UpFacts
    <3> HIDE DEF a
    <3>3. /\ Len(up[session]) \in Nat /\ Len(up'[session]) = Len(up[session]) + 1
          /\ \A i \in 1 .. Len(up[session]) : up'[session][i] = up[session][i]
          /\ up'[session][Len(up[session]) + 1] = a
      BY <1>1, <3>1, <3>2, AppendFacts
    <3> QED
      BY <1>4, <2>1, <3>1, <3>2, <3>3
  <2> QED
    BY <2>2, <2>3, <2>4
<1> QED
  BY <1>3, <1>4 DEF OnEnvelope, Acknowledge, Queued

\* The client settles what it takes, or has it to append ...
LEMMA TakenIsProcessed ==
  ASSUME Inv, [Next]_vars, OnEnvelope
  PROVE  Head(down[session]).msg \in Processed'
<1> DEFINE m == Head(down[session]).msg
<1>1. m \in Messages
  BY EnvelopeFacts DEF OnEnvelope
<1>2. m \in shown' \/ Blame({m}, "forfeited")
  BY DEF OnEnvelope
<1>3. shown' \subseteq Processed'
  BY ShownStep DEF ShownIsKept
<1>4. CASE Blame({m}, "forfeited")
  <2> HIDE DEF m
  <2>1. "forfeited" \in cause'[m]
    BY <1>1, <1>4 DEF Blame
  <2>2. \A x \in Messages : "forfeited" \in cause'[x] => x \in Processed'
    BY DEF Processed, Settled
  <2> QED
    BY <1>1, <2>1, <2>2 DEF m
<1> QED
  BY <1>2, <1>3, <1>4

\* ... and a row that Resume skips is settled.
LEMMA SkippedIsProcessed ==
  ASSUME Types, NEW k \in Conns, HandleHello(k), replay'[k] # {HelloAck}
  PROVE  \A r \in Unreadable(Head(up[k]).pos) : r.msg \in Processed'
<1> DEFINE ms == {r.msg : r \in Unreadable(Head(up[k]).pos)}
<1>1. Blame(ms, "unreadable row")
  BY DEF HandleHello, Types
<1>2. ms \subseteq Messages
  BY DEF Unreadable, Suffix, Types, Rows
<1>3. \A r \in Unreadable(Head(up[k]).pos) : r.msg \in ms
  OBVIOUS
<1> HIDE DEF ms
<1>4. \A m \in ms : "unreadable row" \in cause'[m]
  BY <1>1, <1>2 DEF Blame
<1>5. \A m \in ms : m \in Processed'
  BY <1>2, <1>4 DEF Processed, Settled
<1> QED
  BY <1>3, <1>5

\* A position the client gives away is safe: in front of the frame it takes the
\* position from, nothing is left that the position covers.
LEMMA GivenStep == Inv /\ [Next]_vars => GivenIsSafe'
<1> SUFFICES ASSUME Inv, [Next]_vars PROVE GivenIsSafe'
  OBVIOUS
<1>t. Types /\ Types'
  BY TypesStep DEF Inv
<1>e. \A k \in Conns : Len(up[k]) \in Nat
  BY <1>t, ElementFacts DEF Types
<1>a. acked \in SafePositions'
  BY SafeStays DEF Inv, GivenIsSafe
<1>u. \A k \in Conns : \A i \in 1 .. Len(up[k]) : up[k][i].pos \in SafePositions'
  BY SafeStays DEF Inv, GivenIsSafe
<1>1. ASSUME UNCHANGED <<acked, up>> PROVE GivenIsSafe'
  BY <1>1, <1>a, <1>u DEF GivenIsSafe
<1>2. ASSUME NEW k \in Conns, ReadsFrame(k), UNCHANGED acked PROVE GivenIsSafe'
  <2>1. ASSUME NEW i \in 1 .. Len(up'[k]) PROVE up'[k][i].pos \in SafePositions'
    <3>1. up'[k][i] = up[k][i + 1] /\ i + 1 \in 1 .. Len(up[k])
      BY <1>2, <1>t, ReadFacts
    <3> QED
      BY <1>u, <3>1
  <2>2. \A j \in Conns : j # k => up'[j] = up[j]
    BY <1>2, <1>t, ReadFacts
  <2> QED
    BY <1>2, <1>a, <1>u, <2>1, <2>2 DEF GivenIsSafe
<1>3. ASSUME NEW k \in Conns, RemoveRoute(k) PROVE GivenIsSafe'
  <2>1. UNCHANGED acked /\ \A j \in Conns : j # k => up'[j] = up[j]
    BY <1>3, <1>t DEF RemoveRoute, client, Types
  <2>2. up'[k] = <<>>
    BY <1>3, <1>t DEF RemoveRoute, Types
  <2>3. Len(up'[k]) = 0
    BY <2>2
  <2> QED
    BY <2>1, <2>3, <1>a, <1>u DEF GivenIsSafe
<1>4. ASSUME Dial PROVE GivenIsSafe'
  <2>1. conns + 1 \in Conns
    BY <1>4, <1>t, DeliveryAssumption DEF Dial, Types, Conns
  <2>2. /\ UNCHANGED acked /\ up'[conns + 1] = <<HelloFrame>>
        /\ \A j \in Conns : j # conns + 1 => up'[j] = up[j]
    BY <1>4, <1>t, <2>1 DEF Dial, Types
  <2>3. Len(up'[conns + 1]) = 1 /\ up'[conns + 1][1] = HelloFrame
    BY <2>2
  <2>4. HelloFrame.pos = acked
    BY <1>t, UpFacts DEF HelloFrame, Types
  <2>5. \A i \in 1 .. Len(up'[conns + 1]) : up'[conns + 1][i].pos = acked
    BY <2>3, <2>4
  <2> QED
    BY <2>2, <2>5, <1>a, <1>u DEF GivenIsSafe
<1>5. ASSUME Crash PROVE GivenIsSafe'
  <2>1. acked' = 0 /\ UNCHANGED up
    BY <1>5 DEF Crash
  <2>2. 0 < next' /\ \A r \in inbox' : 0 < r.pos /\ r.pos \in Nat
    BY <1>t, RowsStep DEF RowsArePlaced, Types, Rows
  <2>3. 0 \in SafePositions'
    BY <2>2 DEF SafePositions
  <2> QED
    BY <2>1, <2>3, <1>u DEF GivenIsSafe
<1>6. ASSUME OnEnvelope PROVE GivenIsSafe'
  <2> DEFINE f == Head(down[session])
  <2>1. session \in Conns /\ session # 0 /\ f \in DownFrames /\ f = down[session][1]
        /\ 1 \in 1 .. Len(down[session]) /\ f.msg \in Messages /\ f.pos \in Nat
    BY <1>6, <1>t, SessionFacts, EnvelopeFacts, ElementFacts DEF OnEnvelope
  <2>2. ASSUME f.kind \in Queued PROVE f.pos \in SafePositions'
    <3>1. \A r \in inbox : r.pos < f.pos => r.msg \in Processed'
      <4>1. \A r \in inbox : r.pos < f.pos => r.msg \in Processed
        BY <2>1, <2>2 DEF Inv, NothingOvertakes
      <4> QED
        BY <4>1, ProcessedStays
    <3>2. f.msg \in Processed'
      BY <1>6, TakenIsProcessed
    <3>3. f.pos < next /\ \A r \in inbox : r.pos = f.pos => r.msg = f.msg
      BY <2>1, <2>2 DEF Inv, FramesAreGenuine, GenuineFrames
    <3>4. UNCHANGED <<inbox, next>>
      BY <1>6 DEF OnEnvelope, coordinator
    <3>5. \A r \in inbox : r.pos \in Nat
      BY <1>t DEF Types, Rows
    <3> QED
      BY <2>1, <3>1, <3>2, <3>3, <3>4, <3>5 DEF SafePositions
  <2>3. acked' \in SafePositions'
    <3>1. CASE acked' = acked
      BY <3>1, <1>a
    <3>2. CASE acked' # acked
      BY <1>6, <2>2, <3>2, AcknowledgeFacts DEF Queued
    <3> QED
      BY <3>1, <3>2
  <2>4. ASSUME NEW j \in Conns, NEW i \in 1 .. Len(up'[j])
        PROVE  up'[j][i].pos \in SafePositions'
    <3>1. (i \in 1 .. Len(up[j]) /\ up'[j][i] = up[j][i]) \/ up'[j][i].pos = acked'
      BY <1>6, <1>e, <2>1, AcknowledgeFacts
    <3> QED
      BY <2>3, <1>u, <3>1
  <2> QED
    BY <2>3, <2>4 DEF GivenIsSafe
<1>7. ASSUME NEW k \in Conns, HandleHello(k) \/ HandleQueueAck(k) PROVE GivenIsSafe'
  BY <1>2, <1>7 DEF HandleHello, HandleQueueAck, Dispatches, client
<1>8. ASSUME NEW k \in Conns, WriteReplay(k) \/ \E m \in Messages : WriteLive(m, k)
      PROVE  UNCHANGED <<acked, up>>
  BY <1>8 DEF WriteReplay, WriteLive, client
<1>9. ASSUME Handshake \/ Break PROVE UNCHANGED <<acked, up>>
  BY <1>9 DEF Handshake, Break
<1>10. ASSUME UNCHANGED <<replay, sockets, session, greeted, acked, highest, crashes>>
       PROVE  UNCHANGED <<acked, up>>
  BY <1>10 DEF sockets
<1> QED
  BY <1>t, <1>1, <1>3, <1>4, <1>5, <1>6, <1>7, <1>8, <1>9, <1>10, StepCases

\* Frames on their way are those of rows.
LEMMA FramesStep == Inv /\ [Next]_vars => FramesAreGenuine'
<1> SUFFICES ASSUME Inv, [Next]_vars PROVE FramesAreGenuine'
  OBVIOUS
<1>t. Types /\ Types'
  BY TypesStep DEF Inv
<1>e. \A k \in Conns : Len(down[k]) \in Nat
  BY <1>t, ElementFacts DEF Types
<1>d. \A k \in Conns : \A i \in 1 .. Len(down[k]) : down[k][i] \in GenuineFrames'
  BY GenuineStays DEF Inv, FramesAreGenuine
<1>r. \A k \in Conns :
        /\ \A f \in replay[k] : f \in GenuineFrames' /\ f.kind # "live"
        /\ \A f, g \in replay[k] : f.pos = g.pos => f = g
  BY GenuineStays DEF Inv, FramesAreGenuine
<1>1. ASSUME UNCHANGED <<down, replay>> PROVE FramesAreGenuine'
  BY <1>1, <1>d, <1>r DEF FramesAreGenuine
<1>2. ASSUME NEW k \in Conns, NEW f \in DownFrames, Write(k, f), f \in GenuineFrames'
      PROVE  \A j \in Conns : \A i \in 1 .. Len(down'[j]) : down'[j][i] \in GenuineFrames'
  <2>1. \A j \in Conns : j # k => down'[j] = down[j]
    BY <1>2, <1>t, PutFacts
  <2>2. ASSUME NEW i \in 1 .. Len(down'[k]) PROVE down'[k][i] \in GenuineFrames'
    <3>1. CASE link[k] # "up"
      BY <1>2, <1>t, <1>d, <3>1, PutFacts
    <3>2. CASE link[k] = "up"
      BY <1>2, <1>t, <1>d, <3>2, PutFacts
    <3> QED
      BY <3>1, <3>2
  <2> QED
    BY <1>d, <2>1, <2>2
<1>3. ASSUME NEW m \in Messages, NEW k \in Conns, WriteLive(m, k) PROVE FramesAreGenuine'
  <2>1. Live(m) \in DownFrames /\ Live(m).kind \notin Queued
    BY DownFacts DEF Queued
  <2>2. Live(m) \in GenuineFrames'
    BY <2>1 DEF GenuineFrames
  <2>3. Write(k, Live(m)) /\ UNCHANGED replay
    BY <1>3 DEF WriteLive
  <2> QED
    BY <1>2, <1>r, <2>1, <2>2, <2>3 DEF FramesAreGenuine
<1>4. ASSUME NEW k \in Conns, HandleHello(k) PROVE FramesAreGenuine'
  <2> DEFINE after == Head(up[k]).pos
  <2>1. after \in Nat
    BY <1>t, <1>4, ReadFacts DEF HandleHello, Dispatches
  <2>2. HelloAck \in GenuineFrames' /\ HelloAck.kind = "ack" /\ HelloAck.pos = 0
    BY DownFacts DEF GenuineFrames, Queued
  <2>3. UNCHANGED <<down, inbox, next>> /\ RowsArePlaced
    BY <1>4 DEF HandleHello, Inv
  <2>4. \A f \in Deliveries(after) : f \in GenuineFrames' /\ f.kind # "live" /\ 0 < f.pos
    <3> SUFFICES ASSUME NEW f \in Deliveries(after)
                 PROVE  f \in GenuineFrames' /\ f.kind # "live" /\ 0 < f.pos
      OBVIOUS
    <3>1. f \in DownFrames /\ f.kind \in Queued
      BY <1>t, <2>1, DeliveriesFacts
    <3>2. PICK r \in inbox : r.pos = f.pos /\ r.msg = f.msg
      BY <1>t, <2>1, DeliveriesFacts
    <3>3. 0 < f.pos /\ f.pos < next /\ \A s \in inbox : s.pos = f.pos => s.msg = f.msg
      BY <2>3, <3>2 DEF RowsArePlaced
    <3> QED
      BY <2>3, <3>1, <3>2, <3>3 DEF GenuineFrames, Queued
  <2>5. \A f, g \in Deliveries(after) : f.pos = g.pos => f = g
    BY <1>t, <2>1, <2>3, DeliveriesFacts
  <2>6. \A f \in Deliveries(after) : f.pos \in Nat
    BY <1>t, <2>1, DeliveriesFacts, DownFacts
  <2>7. replay'[k] \subseteq {HelloAck} \cup Deliveries(after)
    BY <1>t, <1>4 DEF HandleHello, Types
  <2>8. \A j \in Conns : j # k => replay'[j] = replay[j]
    BY <1>t, <1>4 DEF HandleHello, Types
  <2>9. /\ \A f \in replay'[k] : f \in GenuineFrames' /\ f.kind # "live"
        /\ \A f, g \in replay'[k] : f.pos = g.pos => f = g
    BY <2>2, <2>4, <2>5, <2>6, <2>7
  <2> QED
    BY <1>d, <1>r, <2>3, <2>8, <2>9 DEF FramesAreGenuine
<1>5. ASSUME NEW k \in Conns, WriteReplay(k) PROVE FramesAreGenuine'
  <2>1. \A j \in Conns : replay'[j] \subseteq replay[j]
    BY <1>t, <1>5, ZenonT(40) DEF WriteReplay, Types
  <2>2. UNCHANGED down \/ \E f \in replay[k] : Write(k, f)
    BY <1>5 DEF WriteReplay
  <2>3. \A f \in replay[k] : f \in DownFrames /\ f \in GenuineFrames'
    BY <1>t, <1>r DEF Types
  <2>4. \A j \in Conns : \A i \in 1 .. Len(down'[j]) : down'[j][i] \in GenuineFrames'
    BY <1>2, <1>d, <2>2, <2>3
  <2> QED
    BY <1>r, <2>1, <2>4 DEF FramesAreGenuine
<1>6. ASSUME Handshake \/ OnEnvelope PROVE FramesAreGenuine'
  <2>1. session # 0 /\ down[session] # <<>> /\ down' = [down EXCEPT ![session] = Tail(@)]
        /\ UNCHANGED replay
    BY <1>6 DEF Handshake, OnEnvelope, coordinator
  <2>2. session \in Conns
    BY <1>t, <2>1, SessionFacts
  <2>3. ASSUME NEW i \in 1 .. Len(down'[session]) PROVE down'[session][i] \in GenuineFrames'
    <3>1. i + 1 \in 1 .. Len(down[session]) /\ down'[session][i] = down[session][i + 1]
      BY <1>t, <2>1, TakeFacts
    <3> QED
      BY <1>d, <2>2, <3>1
  <2>4. \A j \in Conns : j # session => down'[j] = down[j]
    BY <1>t, <2>1, TakeFacts
  <2> QED
    BY <1>d, <1>r, <2>1, <2>3, <2>4 DEF FramesAreGenuine
<1>7. ASSUME Break \/ Crash PROVE FramesAreGenuine'
  <2>1. UNCHANGED replay /\ ((session # 0 /\ Sever(session)) \/ UNCHANGED down)
    BY <1>7 DEF Break, Crash, coordinator
  <2>2. \A j \in Conns : down'[j] = down[j] \/ down'[j] = <<>>
    BY <1>t, <2>1, SessionFacts DEF Sever, Types
  <2>3. \A j \in Conns : \A i \in 1 .. Len(down'[j]) : down'[j][i] \in GenuineFrames'
    BY <1>d, <2>2
  <2> QED
    BY <1>r, <2>1, <2>3 DEF FramesAreGenuine
<1>8. ASSUME NEW k \in Conns, HandleQueueAck(k) \/ RemoveRoute(k) PROVE UNCHANGED <<down, replay>>
  BY <1>8 DEF HandleQueueAck, RemoveRoute
<1>9. ASSUME Dial PROVE UNCHANGED <<down, replay>>
  BY <1>9 DEF Dial
<1>10. ASSUME UNCHANGED <<replay, sockets, session, greeted, acked, highest, crashes>>
       PROVE  UNCHANGED <<down, replay>>
  BY <1>10 DEF sockets
<1> QED
  BY <1>t, <1>1, <1>3, <1>4, <1>5, <1>6, <1>7, <1>8, <1>9, <1>10, StepCases

\* Connections begin empty, one is up at a time, and a route is gone before its
\* handler is.
LEMMA ConnectedStep == Inv /\ [Next]_vars => Connected'
<1> SUFFICES ASSUME Inv, [Next]_vars PROVE Connected'
  OBVIOUS
<1>t. Types /\ Connected
  BY DEF Inv
<1>n. conns \in Nat /\ session \in Nat /\ \A k \in Conns : k \in Nat
  BY <1>t, DeliveryAssumption DEF Types, Conns
<1>0. ASSUME UNCHANGED <<session, conns, link, handler, up, down, replay, routes>>
      PROVE  Connected'
  BY <1>0, <1>t DEF Connected
<1>1. ASSUME NEW m \in Messages, NEW k \in Conns, WriteLive(m, k) PROVE Connected'
  <2>1. Live(m) \in DownFrames /\ Write(k, Live(m))
        /\ UNCHANGED <<session, conns, link, handler, up, replay, routes>>
    BY <1>1, DownFacts DEF WriteLive, client
  <2>2. \A j \in Conns : conns < j => down'[j] = down[j]
    BY <1>t, <1>n, <2>1, WriteFacts DEF Connected
  <2> QED
    BY <1>t, <2>1, <2>2 DEF Connected
<1>2. ASSUME NEW k \in Conns, AddRoute(k) PROVE Connected'
  <2>1. /\ handler[k] = "accepted" /\ routes' = routes \cup {k}
        /\ handler' = [handler EXCEPT ![k] = "reading"]
        /\ UNCHANGED <<session, conns, link, up, down, replay>>
    BY <1>2 DEF AddRoute, sockets, client
  <2> QED
    BY <1>t, <2>1 DEF Connected, Types
<1>3. ASSUME NEW k \in Conns, HandleHello(k) PROVE Connected'
  <2>1. /\ handler[k] = "reading" /\ handler' = [handler EXCEPT ![k] = "replaying"]
        /\ UNCHANGED <<session, conns, link, down, routes>>
    BY <1>3 DEF HandleHello, Dispatches, ReadsFrame, client
  <2>2. \A j \in Conns : j # k => up'[j] = up[j] /\ replay'[j] = replay[j]
    BY <1>t, <1>3 DEF HandleHello, Dispatches, ReadsFrame, Types
  <2> QED
    BY <1>t, <2>1, <2>2 DEF Connected, Types
<1>4. ASSUME NEW k \in Conns, WriteReplay(k) PROVE Connected'
  <2>1. /\ handler[k] = "replaying" /\ handler'[k] \in {"reading", "replaying"}
        /\ UNCHANGED <<session, conns, link, up, routes>>
    BY <1>t, <1>4 DEF WriteReplay, client, Types
  <2>2. \A j \in Conns : j # k => handler'[j] = handler[j] /\ replay'[j] = replay[j]
                                  /\ down'[j] = down[j]
    BY <1>t, <1>4 DEF WriteReplay, Write, Types
  <2>3. \A j \in Conns : conns < j => j # k
    BY <1>t, <2>1 DEF Connected
  <2>4. \A j \in routes' : handler'[j] \in {"reading", "replaying"}
    BY <1>t, <2>1, <2>2 DEF Connected, Types
  <2> QED
    BY <1>t, <2>1, <2>2, <2>3, <2>4 DEF Connected
<1>5. ASSUME NEW k \in Conns, HandleQueueAck(k) PROVE Connected'
  <2>1. /\ handler[k] = "reading"
        /\ UNCHANGED <<session, conns, link, handler, down, replay, routes>>
    BY <1>5 DEF HandleQueueAck, Dispatches, ReadsFrame, client
  <2>2. \A j \in Conns : j # k => up'[j] = up[j]
    BY <1>t, <1>5 DEF HandleQueueAck, Dispatches, ReadsFrame, Types
  <2> QED
    BY <1>t, <2>1, <2>2 DEF Connected
<1>6. ASSUME NEW k \in Conns, RemoveRoute(k) PROVE Connected'
  <2>1. /\ handler[k] = "reading" /\ routes' = routes \ {k}
        /\ handler' = [handler EXCEPT ![k] = "leaving"]
        /\ UNCHANGED <<session, conns, link, down, replay>>
        /\ \A j \in Conns : j # k => up'[j] = up[j]
    BY <1>t, <1>6 DEF RemoveRoute, client, Types
  <2> QED
    BY <1>t, <2>1 DEF Connected, Types
<1>7. ASSUME NEW k \in Conns, ConnectionLost(k) PROVE Connected'
  <2>1. /\ handler[k] = "leaving" /\ handler' = [handler EXCEPT ![k] = "gone"]
        /\ UNCHANGED <<session, conns, link, up, down, replay, routes>>
    BY <1>7 DEF ConnectionLost, sockets, client
  <2> QED
    BY <1>t, <2>1 DEF Connected, Types
<1>8. ASSUME Dial PROVE Connected'
  <2>1. conns + 1 \in Conns
    BY <1>8, <1>t, DeliveryAssumption DEF Dial, Types, Conns
  <2>2. /\ session = 0 /\ conns' = conns + 1 /\ session' = conns + 1
        /\ link' = [link EXCEPT ![conns + 1] = "up"]
        /\ handler' = [handler EXCEPT ![conns + 1] = "accepted"]
        /\ \A j \in Conns : j # conns + 1 => up'[j] = up[j]
        /\ UNCHANGED <<routes, down, replay>>
    BY <1>8, <1>t, <2>1 DEF Dial, Types
  <2>3. conns + 1 \notin routes
    BY <1>t, <1>n, <2>1 DEF Connected
  <2>4. \A k \in Conns : link'[k] = "up" <=> k = session'
    BY <1>t, <1>n, <2>1, <2>2, DeliveryAssumption DEF Connected, Types, Conns
  <2> QED
    BY <1>t, <1>n, <2>1, <2>2, <2>3, <2>4 DEF Connected, Types
<1>9. ASSUME Handshake \/ OnEnvelope PROVE Connected'
  <2>1. /\ session # 0 /\ down' = [down EXCEPT ![session] = Tail(@)]
        /\ UNCHANGED <<session, conns, link, handler, replay, routes>>
    BY <1>9 DEF Handshake, OnEnvelope, coordinator
  <2>2. session \in Conns
    BY <1>t, <2>1, SessionFacts
  <2>3. \A j \in Conns : j # session => up'[j] = up[j] /\ down'[j] = down[j]
    BY <1>9, <1>t, <2>1, <2>2 DEF Handshake, OnEnvelope, Acknowledge, Types
  <2> QED
    <3>1. \A j \in Conns : conns < j => j # session
      BY <1>t, <1>n DEF Connected
    <3>2. \A j \in Conns : conns' < j =>
            handler'[j] = "none" /\ up'[j] = <<>> /\ down'[j] = <<>> /\ replay'[j] = {}
      BY <1>t, <2>1, <2>3, <3>1 DEF Connected
    <3> QED
      BY <1>t, <2>1, <3>2 DEF Connected
<1>10. ASSUME Break \/ Crash PROVE Connected'
  <2>1. /\ session' = 0 /\ UNCHANGED <<conns, handler, replay, routes, up>>
        /\ \/ session # 0 /\ Sever(session)
           \/ session = 0 /\ UNCHANGED <<link, down>>
    BY <1>10 DEF Break, Crash, coordinator
  <2>2. \A j \in Conns : /\ j # session => down'[j] = down[j] /\ link'[j] = link[j]
                         /\ j = session => link'[j] = "dead"
    BY <1>t, <2>1, SessionFacts, DeliveryAssumption DEF Sever, Types, Conns
  <2>3. \A k \in Conns : link'[k] = "up" <=> k = session'
    BY <1>t, <2>1, <2>2, DeliveryAssumption DEF Connected, Conns
  <2> QED
    BY <1>t, <1>n, <2>1, <2>2, <2>3 DEF Connected
<1>11. ASSUME NEW m \in Messages,
              Refuse(m) \/ Dispatch(m, TRUE) \/ Dispatch(m, FALSE) \/ Unroutable(m)
       PROVE  UNCHANGED <<session, conns, link, handler, up, down, replay, routes>>
  BY <1>11 DEF Refuse, Dispatch, Unroutable, sockets, client
<1>12. ASSUME Lapse \/ Announce \/ Keep
       PROVE  UNCHANGED <<session, conns, link, handler, up, down, replay, routes>>
  BY <1>12 DEF Lapse, Announce, Keep, coordinator, sockets, client
<1>13. ASSUME UNCHANGED vars
       PROVE  UNCHANGED <<session, conns, link, handler, up, down, replay, routes>>
  BY <1>13 DEF vars, coordinator, sockets, client
<1>14. ASSUME NEW r \in inbox, NEW b \in {"unreadable", "garbled"}, Damage(r, b)
       PROVE  UNCHANGED <<session, conns, link, handler, up, down, replay, routes>>
  BY <1>14 DEF Damage, sockets, client
<1> QED
  BY <1>0, <1>1, <1>2, <1>3, <1>4, <1>5, <1>6, <1>7, <1>8, <1>9, <1>10, <1>11, <1>12, <1>13, <1>14
     DEF Next

\* A connection says hello once, before anything is replayed to it.
LEMMA HelloStep == Inv /\ [Next]_vars => HelloFirst'
<1> SUFFICES ASSUME Inv, [Next]_vars PROVE HelloFirst'
  OBVIOUS
<1>t. Types /\ Types' /\ Connected /\ HelloFirst
  BY TypesStep DEF Inv
<1>e. \A k \in Conns : Len(up[k]) \in Nat /\ Len(down[k]) \in Nat
  BY <1>t, ElementFacts DEF Types
<1>z. 0 \notin Conns
  BY DeliveryAssumption DEF Conns
<1>1. ASSUME UNCHANGED <<replay, up, down, session, greeted, acked>>,
             \A k \in Conns : handler'[k] = "replaying" => handler[k] = "replaying"
      PROVE  HelloFirst'
  BY <1>1, <1>t DEF HelloFirst
<1>2. ASSUME NEW m \in Messages, NEW k \in Conns, WriteLive(m, k) PROVE HelloFirst'
  <2>1. /\ Live(m) \in DownFrames /\ Live(m).kind = "live" /\ Write(k, Live(m))
        /\ UNCHANGED <<replay, up, session, greeted, acked, handler>>
    BY <1>2, DownFacts DEF WriteLive, client
  <2>2. \A j \in Conns : (\A i \in 1 .. Len(down[j]) : down[j][i].kind = "live") =>
          \A i \in 1 .. Len(down'[j]) : down'[j][i].kind = "live"
    BY <1>t, <2>1, PutFacts, SMTT(30)
  <2> QED
    BY <1>t, <2>1, <2>2 DEF HelloFirst
<1>3. ASSUME NEW k \in Conns, ReadsFrame(k) PROVE \A i \in 1 .. Len(up'[k]) : up'[k][i].kind # "hello"
  <2>1. \A i \in 1 .. Len(up'[k]) : i + 1 \in 1 .. Len(up[k]) /\ up'[k][i] = up[k][i + 1] /\ i + 1 # 1
    BY <1>3, <1>t, ReadFacts
  <2> QED
    BY <1>t, <2>1 DEF HelloFirst
<1>4. ASSUME NEW k \in Conns, HandleHello(k) PROVE HelloFirst'
  <2>1. /\ ReadsFrame(k) /\ UNCHANGED <<down, session, greeted, acked>>
        /\ \A j \in Conns : j # k => replay'[j] = replay[j] /\ handler'[j] = handler[j]
    BY <1>4, <1>t DEF HandleHello, Dispatches, client, Types
  <2>2. \A j \in Conns : j # k => up'[j] = up[j]
    BY <1>t, <2>1, ReadFacts
  <2> QED
    BY <1>t, <1>3, <2>1, <2>2 DEF HelloFirst
<1>5. ASSUME NEW k \in Conns, HandleQueueAck(k) PROVE HelloFirst'
  <2>1. ReadsFrame(k) /\ UNCHANGED <<down, replay, handler, session, greeted, acked>>
    BY <1>5 DEF HandleQueueAck, Dispatches, client
  <2>2. \A j \in Conns : j # k => up'[j] = up[j]
    BY <1>t, <2>1, ReadFacts
  <2> QED
    BY <1>t, <1>3, <2>1, <2>2 DEF HelloFirst
<1>6. ASSUME NEW k \in Conns, WriteReplay(k) PROVE HelloFirst'
  <2>1. /\ handler[k] = "replaying" /\ UNCHANGED <<up, session, greeted, acked>>
        /\ \A j \in Conns : j # k => handler'[j] = handler[j] /\ replay'[j] = replay[j]
                                     /\ down'[j] = down[j]
    BY <1>6, <1>t DEF WriteReplay, Write, client, Types
  <2>2. \A i \in 1 .. Len(up[k]) : up[k][i].kind # "hello"
    BY <1>t, <2>1 DEF HelloFirst
  <2> QED
    BY <1>t, <2>1, <2>2 DEF HelloFirst
<1>7. ASSUME NEW k \in Conns, RemoveRoute(k) PROVE HelloFirst'
  <2>1. /\ UNCHANGED <<replay, down, session, greeted, acked>>
        /\ \A j \in Conns : j # k => up'[j] = up[j] /\ handler'[j] = handler[j]
    BY <1>7, <1>t DEF RemoveRoute, client, Types
  <2>2. up'[k] = <<>>
    BY <1>7, <1>t DEF RemoveRoute, Types
  <2>3. Len(up'[k]) = 0
    BY <2>2
  <2> QED
    BY <1>t, <2>1, <2>3 DEF HelloFirst
<1>8. ASSUME Dial PROVE HelloFirst'
  <2> DEFINE k == conns + 1
  <2>1. k \in Conns /\ conns \in Nat
    BY <1>8, <1>t, DeliveryAssumption DEF Dial, Types, Conns
  <2>2. /\ session' = k /\ greeted' = FALSE /\ UNCHANGED <<replay, down, acked>>
        /\ up'[k] = <<HelloFrame>> /\ handler'[k] = "accepted"
        /\ \A j \in Conns : j # k => up'[j] = up[j] /\ handler'[j] = handler[j]
    BY <1>8, <1>t, <2>1 DEF Dial, Types
  <2>3. replay[k] = {} /\ down[k] = <<>>
    BY <1>t, <2>1 DEF Connected
  <2>4. Len(up'[k]) = 1 /\ up'[k][1] = HelloFrame /\ Len(down[k]) = 0
    BY <2>2, <2>3
  <2>5. HelloFrame.pos = acked
    BY <1>t, UpFacts DEF HelloFrame, Types
  <2>6. \A j \in Conns : j = session => j # k
    BY <1>8, <1>z DEF Dial
  <2> HIDE DEF k
  <2> QED
    BY <1>t, <2>1, <2>2, <2>3, <2>4, <2>5, <2>6 DEF HelloFirst
<1>9. ASSUME Handshake PROVE HelloFirst'
  <2>1. /\ session # 0 /\ down[session] # <<>> /\ down' = [down EXCEPT ![session] = Tail(@)]
        /\ greeted' = (Head(down[session]).kind = "ack")
        /\ UNCHANGED <<replay, up, handler, session, acked>>
    BY <1>9 DEF Handshake, coordinator
  <2>2. session \in Conns /\ \A j \in Conns : j # session => down'[j] = down[j]
    BY <1>t, <2>1, SessionFacts, TakeFacts
  <2>3. ASSUME \A i \in 1 .. Len(down[session]) : down[session][i].kind = "live"
        PROVE  ~greeted' /\ \A i \in 1 .. Len(down'[session]) : down'[session][i].kind = "live"
    <3>1. Head(down[session]).kind = "live"
      BY <1>t, <2>1, <2>3, TakeFacts
    <3>2. \A i \in 1 .. Len(down'[session]) :
            i + 1 \in 1 .. Len(down[session]) /\ down'[session][i] = down[session][i + 1]
      BY <1>t, <2>1, TakeFacts
    <3> QED
      BY <2>1, <2>3, <3>1, <3>2
  <2> QED
    BY <1>t, <2>1, <2>2, <2>3 DEF HelloFirst
<1>10. ASSUME OnEnvelope PROVE HelloFirst'
  <2>1. /\ session # 0 /\ greeted /\ down[session] # <<>>
        /\ down' = [down EXCEPT ![session] = Tail(@)]
        /\ UNCHANGED <<replay, handler, session, greeted>>
    BY <1>10 DEF OnEnvelope, coordinator
  <2>2. session \in Conns /\ \A j \in Conns : j # session => down'[j] = down[j]
    BY <1>t, <2>1, SessionFacts, TakeFacts
  <2>3. \A i \in 1 .. Len(up[session]) : up[session][i].kind # "hello"
    BY <1>t, <2>1, <2>2 DEF HelloFirst
  <2>4. \A i \in 1 .. Len(up'[session]) : up'[session][i].kind # "hello"
    BY <1>10, <2>3, AcknowledgeFacts, SMTT(30)
  <2>5. \A j \in Conns : j # session => up'[j] = up[j]
    BY <1>10, AcknowledgeFacts
  <2> QED
    BY <1>t, <2>1, <2>2, <2>4, <2>5 DEF HelloFirst
<1>11. ASSUME Break \/ Crash PROVE HelloFirst'
  <2>1. /\ session' = 0 /\ UNCHANGED <<handler, replay, up>>
        /\ (session # 0 /\ Sever(session)) \/ UNCHANGED down
    BY <1>11 DEF Break, Crash, coordinator
  <2>2. \A j \in Conns : down'[j] = down[j] \/ down'[j] = <<>>
    BY <1>t, <2>1, SessionFacts DEF Sever, Types
  <2>3. \A j \in Conns : (\A i \in 1 .. Len(down[j]) : down[j][i].kind = "live") =>
          \A i \in 1 .. Len(down'[j]) : down'[j][i].kind = "live"
    BY <2>2
  <2> QED
    BY <1>t, <1>z, <2>1, <2>3 DEF HelloFirst
<1> QED
  BY <1>t, <1>1, <1>2, <1>4, <1>5, <1>6, <1>7, <1>8, <1>9, <1>10, <1>11, StepCases DEF sockets

\* handleHello writes the least of what is left, the HelloAck before any row.
LEMMA ReplayFacts ==
  ASSUME Inv, NEW k \in Conns, WriteReplay(k)
  PROVE  /\ UNCHANGED <<session, greeted, acked, highest, crashes, link, inbox, next, up>>
         /\ \A j \in Conns : j # k => replay'[j] = replay[j] /\ down'[j] = down[j]
         /\ \/ UNCHANGED <<down, replay, replayed>>
            \/ \E f \in replay[k] :
                 /\ f \in DownFrames /\ Write(k, f) /\ replay'[k] = replay[k] \ {f}
                 /\ f = HelloAck \/ f.kind \in Queued
                 /\ HelloAck \in replay[k] => f = HelloAck
                 /\ \A g \in replay[k] : g # f => f.pos < g.pos
                 /\ replayed' = IF link[k] = "up" /\ 0 < f.pos /\ f.pos <= highest
                                THEN replayed \cup {f.pos} ELSE replayed
<1>t. Types
  BY DEF Inv
<1>1. UNCHANGED <<session, greeted, acked, highest, crashes, link, inbox, next, up>>
  BY DEF WriteReplay, client
<1>2. \A j \in Conns : j # k => replay'[j] = replay[j] /\ down'[j] = down[j]
  BY <1>t DEF WriteReplay, Write, Types
<1>3. \/ UNCHANGED <<down, replay, replayed>>
      \/ \E f \in replay[k] :
           /\ \A g \in replay[k] : f.pos <= g.pos
           /\ Write(k, f) /\ replay'[k] = replay[k] \ {f}
           /\ replayed' = IF link[k] = "up" /\ 0 < f.pos /\ f.pos <= highest
                          THEN replayed \cup {f.pos} ELSE replayed
  BY <1>t DEF WriteReplay, WrittenFirst, Types
<1>4. \A f \in replay[k] :
        /\ f \in DownFrames /\ f.pos \in Nat
        /\ f = HelloAck \/ f.kind \in Queued
        /\ f.kind \in Queued => 0 < f.pos
  BY <1>t, DownFacts DEF Inv, FramesAreGenuine, GenuineFrames, Types, Queued
<1>5. \A f, g \in replay[k] : f.pos = g.pos => f = g
  BY DEF Inv, FramesAreGenuine
<1>6. HelloAck.pos = 0
  BY DownFacts
<1>7. CASE UNCHANGED <<down, replay, replayed>>
  BY <1>1, <1>2, <1>7
<1>8. ASSUME NEW f \in replay[k], \A g \in replay[k] : f.pos <= g.pos
      PROVE  /\ f \in DownFrames
             /\ f = HelloAck \/ f.kind \in Queued
             /\ HelloAck \in replay[k] => f = HelloAck
             /\ \A g \in replay[k] : g # f => f.pos < g.pos
  <2>1. ASSUME NEW g \in replay[k], g # f PROVE f.pos < g.pos
    <3>1. f.pos # g.pos /\ f.pos <= g.pos /\ f.pos \in Nat /\ g.pos \in Nat
      BY <1>4, <1>5, <1>8, <2>1
    <3> QED
      BY <3>1
  <2>2. ASSUME HelloAck \in replay[k] PROVE f = HelloAck
    <3>1. f.pos <= 0 /\ f.pos \in Nat
      BY <1>4, <1>6, <1>8, <2>2
    <3>2. f.pos = HelloAck.pos
      BY <1>6, <3>1
    <3> QED
      BY <1>5, <2>2, <3>2
  <2> QED
    BY <1>4, <2>1, <2>2
<1> QED
  BY <1>1, <1>2, <1>3, <1>7, <1>8

\* The HelloAck stays in front of what it promises.
LEMMA AckStep == Inv /\ [Next]_vars => AckFirst'
<1> SUFFICES ASSUME Inv, [Next]_vars PROVE AckFirst'
  OBVIOUS
<1>t. Types /\ Types' /\ Connected /\ AckFirst /\ HelloFirst
  BY TypesStep DEF Inv
<1>e. \A k \in Conns : Len(down[k]) \in Nat
  BY <1>t, ElementFacts DEF Types
<1>z. 0 \notin Conns /\ (session # 0 => session \in Conns)
  BY <1>t, SessionFacts, DeliveryAssumption DEF Conns
<1>1. ASSUME UNCHANGED <<replay, down, session, greeted>> PROVE AckFirst'
  BY <1>1, <1>t DEF AckFirst
<1>2. ASSUME NEW m \in Messages, NEW k \in Conns, WriteLive(m, k) PROVE AckFirst'
  <2>1. /\ Live(m) \in DownFrames /\ Live(m).kind = "live" /\ Write(k, Live(m))
        /\ UNCHANGED <<replay, session, greeted>>
    BY <1>2, DownFacts DEF WriteLive, client
  <2>2. \A j \in Conns :
          /\ Len(down[j]) <= Len(down'[j]) /\ Len(down'[j]) \in Nat
          /\ \A i \in 1 .. Len(down[j]) : down'[j][i] = down[j][i]
          /\ \A i \in 1 .. Len(down'[j]) : i \in 1 .. Len(down[j]) \/ down'[j][i].kind = "live"
    BY <1>t, <1>e, <2>1, PutFacts
  <2>3. \A j \in Conns : HelloAck \in replay'[j] =>
          \A i \in 1 .. Len(down'[j]) : down'[j][i].kind = "live"
    BY <1>t, <2>1, <2>2 DEF AckFirst
  <2>4. ASSUME session # 0
        PROVE  /\ \A i \in 1 .. Len(down'[session]) : down'[session][i].kind = "ack" =>
                    i \in 1 .. Len(down[session]) /\ down[session][i].kind = "ack"
               /\ \A i \in 1 .. Len(down'[session]) : down'[session][i].kind \in Queued =>
                    i \in 1 .. Len(down[session]) /\ down[session][i].kind \in Queued
               /\ \A i \in 1 .. Len(down[session]) : down[session][i].kind = "ack" =>
                    i \in 1 .. Len(down'[session]) /\ down'[session][i].kind = "ack"
    BY <1>z, <1>e, <2>2, <2>4 DEF Queued
  <2>5. ASSUME session # 0, ~greeted
        PROVE  \A j \in 1 .. Len(down'[session]) : down'[session][j].kind \in Queued =>
                 \E i \in 1 .. j - 1 : down'[session][i].kind = "ack"
    <3> SUFFICES ASSUME NEW j \in 1 .. Len(down'[session]), down'[session][j].kind \in Queued
                 PROVE  \E i \in 1 .. j - 1 : down'[session][i].kind = "ack"
      OBVIOUS
    <3>1. j \in 1 .. Len(down[session]) /\ down[session][j].kind \in Queued
      BY <2>4, <2>5
    <3>2. PICK i \in 1 .. j - 1 : down[session][i].kind = "ack"
      BY <1>t, <2>5, <3>1 DEF AckFirst
    <3>3. i \in 1 .. Len(down[session])
      BY <1>e, <1>z, <2>5, <3>1
    <3> QED
      BY <2>4, <2>5, <3>2, <3>3
  <2>6. ASSUME session # 0
        PROVE  \A i \in 1 .. Len(down'[session]) : down'[session][i].kind = "ack" =>
                 /\ ~greeted
                 /\ \A j \in 1 .. Len(down'[session]) : down'[session][j].kind = "ack" => i = j
    BY <1>t, <2>4, <2>6 DEF AckFirst
  <2>7. ASSUME session # 0, ~greeted, NEW f \in replay[session], HelloAck \notin replay[session]
        PROVE  \E i \in 1 .. Len(down'[session]) : down'[session][i].kind = "ack"
    BY <1>t, <2>4, <2>7 DEF AckFirst
  <2>8. session # 0 /\ greeted => HelloAck \notin replay[session]
    BY <1>t DEF AckFirst
  <2> QED
    BY <2>1, <2>3, <2>5, <2>6, <2>7, <2>8 DEF AckFirst
<1>3. ASSUME NEW k \in Conns, HandleHello(k) PROVE AckFirst'
  <2>1. /\ HelloAck \in replay'[k] /\ UNCHANGED <<down, session, greeted>>
        /\ \A j \in Conns : j # k => replay'[j] = replay[j]
    BY <1>3, <1>t DEF HandleHello, client, Types
  <2>2. 1 \in 1 .. Len(up[k]) /\ up[k][1].kind = "hello"
    BY <1>3, <1>t, HelloFacts, ReadFacts DEF Dispatches
  <2>3. /\ \A j \in 1 .. Len(down[k]) : down[k][j].kind = "live"
        /\ k = session => ~greeted
    BY <1>t, <2>2 DEF HelloFirst
  <2> QED
    BY <1>t, <1>z, <2>1, <2>3 DEF AckFirst, Queued
<1>4. ASSUME NEW k \in Conns, WriteReplay(k) PROVE AckFirst'
  <2>1. CASE UNCHANGED <<down, replay>>
    BY <1>1, <1>4, <2>1, ReplayFacts
  <2>2. ASSUME NEW f \in replay[k], f \in DownFrames, Write(k, f), replay'[k] = replay[k] \ {f},
               f = HelloAck \/ f.kind \in Queued, HelloAck \in replay[k] => f = HelloAck
        PROVE  AckFirst'
    <3>1. /\ UNCHANGED <<session, greeted>> /\ HelloAck \notin replay'[k]
          /\ \A j \in Conns : j # k => replay'[j] = replay[j] /\ down'[j] = down[j]
      BY <1>4, <2>2, ReplayFacts
    <3>2. CASE k # session
      BY <1>t, <1>z, <3>1, <3>2, SMTT(30) DEF AckFirst
    <3>3. CASE k = session
      <4>1. link[k] = "up" /\ session # 0
        BY <1>t, <1>z, <3>3 DEF Connected
      <4>2. /\ Len(down'[k]) = Len(down[k]) + 1 /\ Len(down[k]) \in Nat
            /\ \A i \in 1 .. Len(down[k]) : down'[k][i] = down[k][i]
            /\ down'[k][Len(down[k]) + 1] = f
        BY <1>t, <2>2, <4>1, PutFacts
      <4>3. CASE f = HelloAck
        <5>1. ~greeted /\ \A i \in 1 .. Len(down[k]) : down[k][i].kind = "live"
          BY <1>t, <2>2, <3>3, <4>1, <4>3 DEF AckFirst
        <5>2. f.kind = "ack"
          BY <4>3, DownFacts
        <5>3. \A i \in 1 .. Len(down'[k]) : down'[k][i].kind = "ack" => i = Len(down[k]) + 1
          BY <4>2, <5>1
        <5>4. \A i \in 1 .. Len(down'[k]) : down'[k][i].kind \notin Queued
          BY <4>2, <5>1, <5>2, SMTT(30) DEF Queued
        <5>5. \E i \in 1 .. Len(down'[k]) : down'[k][i].kind = "ack"
          BY <4>2, <5>2
        <5> QED
          BY <1>t, <3>1, <3>3, <4>1, <5>1, <5>3, <5>4, <5>5 DEF AckFirst
      <4>4. CASE f # HelloAck
        <5>1. f.kind \in Queued /\ HelloAck \notin replay[k] /\ f.kind # "ack"
          BY <2>2, <4>4 DEF Queued
        <5>2. ~greeted => \E i \in 1 .. Len(down[k]) : down[k][i].kind = "ack"
          BY <1>t, <2>2, <3>3, <4>1, <5>1 DEF AckFirst
        <5>3. \A i \in 1 .. Len(down'[k]) : down'[k][i].kind = "ack" =>
                i \in 1 .. Len(down[k]) /\ down[k][i].kind = "ack"
          BY <4>2, <5>1
        <5>4. ~greeted => \E i \in 1 .. Len(down'[k]) : down'[k][i].kind = "ack"
          BY <4>2, <5>2
        <5>5. ~greeted =>
                \A j \in 1 .. Len(down'[k]) : down'[k][j].kind \in Queued =>
                  \E i \in 1 .. j - 1 : down'[k][i].kind = "ack"
          <6> SUFFICES ASSUME ~greeted, NEW j \in 1 .. Len(down'[k]), down'[k][j].kind \in Queued
                       PROVE  \E i \in 1 .. j - 1 : down'[k][i].kind = "ack"
            OBVIOUS
          <6>1. CASE j = Len(down[k]) + 1
            BY <4>2, <5>2, <6>1
          <6>2. CASE j \in 1 .. Len(down[k])
            <7>1. PICK i \in 1 .. j - 1 : down[k][i].kind = "ack"
              BY <1>t, <3>3, <4>1, <4>2, <6>2 DEF AckFirst
            <7> QED
              BY <4>2, <6>2, <7>1
          <6> QED
            BY <4>2, <6>1, <6>2
        <5> QED
          BY <1>t, <3>1, <3>3, <4>1, <5>3, <5>4, <5>5 DEF AckFirst
      <4> QED
        BY <4>3, <4>4
    <3> QED
      BY <3>2, <3>3
  <2> QED
    BY <1>4, <2>1, <2>2, ReplayFacts
<1>5. ASSUME Dial PROVE AckFirst'
  <2> DEFINE k == conns + 1
  <2>1. k \in Conns /\ conns \in Nat /\ conns < k
    BY <1>5, <1>t, DeliveryAssumption DEF Dial, Types, Conns
  <2>2. session' = k /\ greeted' = FALSE /\ UNCHANGED <<replay, down>>
    BY <1>5, <2>1 DEF Dial
  <2>3. replay[k] = {} /\ down[k] = <<>>
    BY <1>t, <2>1 DEF Connected
  <2>4. Len(down[k]) = 0
    BY <2>3
  <2> HIDE DEF k
  <2> QED
    BY <1>t, <2>2, <2>3, <2>4 DEF AckFirst
<1>6. ASSUME Handshake \/ OnEnvelope PROVE AckFirst'
  <2>1. /\ session # 0 /\ down[session] # <<>> /\ down' = [down EXCEPT ![session] = Tail(@)]
        /\ UNCHANGED <<replay, session>>
        /\ greeted' = (greeted \/ Head(down[session]).kind = "ack")
    BY <1>6 DEF Handshake, OnEnvelope, coordinator
  <2>2. session \in Conns /\ \A j \in Conns : j # session => down'[j] = down[j]
    BY <1>t, <2>1, SessionFacts, TakeFacts
  <2>3. /\ Len(down[session]) \in Nat /\ 0 < Len(down[session])
        /\ Head(down[session]) = down[session][1]
        /\ Len(down'[session]) = Len(down[session]) - 1
        /\ \A i \in 1 .. Len(down'[session]) :
             i + 1 \in 1 .. Len(down[session]) /\ down'[session][i] = down[session][i + 1]
    BY <1>t, <2>1, TakeFacts
  <2>4. \A k \in Conns : HelloAck \in replay'[k] =>
          \A j \in 1 .. Len(down'[k]) : down'[k][j].kind = "live"
    BY <1>t, <2>1, <2>2, <2>3 DEF AckFirst
  <2>5. greeted' => HelloAck \notin replay[session]
    <3>1. ASSUME Head(down[session]).kind = "ack" PROVE HelloAck \notin replay[session]
      BY <1>t, <2>2, <2>3, <3>1 DEF AckFirst
    <3> QED
      BY <1>t, <2>1, <3>1 DEF AckFirst
  <2>6. \A i \in 1 .. Len(down'[session]) : down'[session][i].kind = "ack" =>
          /\ ~greeted'
          /\ \A j \in 1 .. Len(down'[session]) : down'[session][j].kind = "ack" => i = j
    <3> SUFFICES ASSUME NEW i \in 1 .. Len(down'[session]), down'[session][i].kind = "ack"
                 PROVE  /\ ~greeted'
                        /\ \A j \in 1 .. Len(down'[session]) : down'[session][j].kind = "ack" => i = j
      OBVIOUS
    <3>1. i + 1 \in 1 .. Len(down[session]) /\ down[session][i + 1].kind = "ack"
      BY <2>3
    <3>2. ~greeted /\ \A j \in 1 .. Len(down[session]) : down[session][j].kind = "ack" => i + 1 = j
      BY <1>t, <2>1, <3>1 DEF AckFirst
    <3>3. Head(down[session]).kind # "ack"
      BY <2>3, <3>2
    <3>4. ~greeted'
      BY <2>1, <3>2, <3>3
    <3>5. ASSUME NEW j \in 1 .. Len(down'[session]), down'[session][j].kind = "ack" PROVE i = j
      <4>1. i + 1 = j + 1
        BY <2>3, <3>2, <3>5
      <4>2. i \in Nat /\ j \in Nat
        BY <2>3
      <4> QED
        BY <4>1, <4>2
    <3> QED
      BY <3>4, <3>5
  <2>7. ASSUME ~greeted'
        PROVE  /\ \A j \in 1 .. Len(down'[session]) : down'[session][j].kind \in Queued =>
                    \E i \in 1 .. j - 1 : down'[session][i].kind = "ack"
               /\ \A f \in replay[session] :
                    \/ HelloAck \in replay[session]
                    \/ \E i \in 1 .. Len(down'[session]) : down'[session][i].kind = "ack"
    <3>1. ~greeted /\ down[session][1].kind # "ack"
      BY <2>1, <2>3, <2>7
    <3>2. \A i \in 2 .. Len(down[session]) : i - 1 \in 1 .. Len(down'[session]) /\ down'[session][i - 1] = down[session][i]
      BY <2>3
    <3>3. ASSUME NEW j \in 1 .. Len(down'[session]), down'[session][j].kind \in Queued
          PROVE  \E i \in 1 .. j - 1 : down'[session][i].kind = "ack"
      <4>1. j + 1 \in 1 .. Len(down[session]) /\ down[session][j + 1].kind \in Queued
        BY <2>3, <3>3
      <4>2. PICK i \in 1 .. (j + 1) - 1 : down[session][i].kind = "ack"
        BY <1>t, <2>1, <3>1, <4>1 DEF AckFirst
      <4>3. i \in 2 .. Len(down[session]) /\ i - 1 \in 1 .. j - 1
        <5>1. i # 1 /\ j \in Nat /\ i \in Nat /\ 1 <= i /\ i <= j /\ j + 1 <= Len(down[session])
          BY <2>3, <3>1, <4>1, <4>2
        <5> QED
          BY <2>3, <5>1
      <4> QED
        BY <3>2, <4>2, <4>3
    <3>4. ASSUME NEW f \in replay[session], HelloAck \notin replay[session]
          PROVE  \E i \in 1 .. Len(down'[session]) : down'[session][i].kind = "ack"
      <4>1. PICK i \in 1 .. Len(down[session]) : down[session][i].kind = "ack"
        BY <1>t, <2>1, <3>1, <3>4 DEF AckFirst
      <4>2. i \in 2 .. Len(down[session])
        BY <2>3, <3>1, <4>1
      <4> QED
        BY <3>2, <4>1, <4>2
    <3> QED
      BY <3>3, <3>4
  <2> QED
    <3>1. UNCHANGED <<replay, session>>
      BY <2>1
    <3> QED
      BY <3>1, <2>4, <2>5, <2>6, <2>7 DEF AckFirst
<1>7. ASSUME Break \/ Crash PROVE AckFirst'
  <2>1. /\ session' = 0 /\ UNCHANGED replay
        /\ (session # 0 /\ Sever(session)) \/ UNCHANGED down
    BY <1>7 DEF Break, Crash, coordinator
  <2>2. \A j \in Conns : down'[j] = down[j] \/ down'[j] = <<>>
    BY <1>t, <2>1, SessionFacts DEF Sever, Types
  <2>3. \A j \in Conns : (\A i \in 1 .. Len(down[j]) : down[j][i].kind = "live") =>
          \A i \in 1 .. Len(down'[j]) : down'[j][i].kind = "live"
    BY <2>2
  <2> QED
    BY <1>t, <2>1, <2>3 DEF AckFirst
<1>8. ASSUME NEW k \in Conns, HandleQueueAck(k) \/ RemoveRoute(k)
      PROVE  UNCHANGED <<replay, down, session, greeted>>
  BY <1>8 DEF HandleQueueAck, RemoveRoute, client
<1> QED
  BY <1>t, <1>1, <1>2, <1>3, <1>4, <1>5, <1>6, <1>7, <1>8, StepCases DEF sockets

\* No queued frame overtakes the frame of an older row: Resume takes every row
\* behind the client's position, and handleHello writes them from the oldest.
LEMMA OvertakesStep == Inv /\ [Next]_vars => NothingOvertakes'
<1> SUFFICES ASSUME Inv, [Next]_vars PROVE NothingOvertakes'
  OBVIOUS
<1>t. Types /\ Types' /\ Connected /\ NothingOvertakes /\ FramesAreGenuine
  BY TypesStep DEF Inv
<1>e. \A k \in Conns : Len(down[k]) \in Nat
  BY <1>t, ElementFacts DEF Types
<1>z. 0 \notin Conns /\ (session # 0 => session \in Conns)
  BY <1>t, SessionFacts, DeliveryAssumption DEF Conns
<1>n. \A r \in inbox' : r.pos \in Nat /\ 0 < r.pos
  BY <1>t, RowsStep DEF RowsArePlaced, Types, Rows
<1>i. /\ next \in Nat
      /\ \A r \in inbox' : r.pos = next \/ \E s \in inbox : s.pos = r.pos /\ s.msg = r.msg
  BY <1>t, InboxStep DEF Types
<1>p. Processed \subseteq Processed'
  BY ProcessedStays
<1>d. ASSUME session # 0, NEW i \in 1 .. Len(down[session]), down[session][i].kind \in Queued,
             NEW r \in inbox', r.pos < down[session][i].pos
      PROVE  \/ r.msg \in Processed'
             \/ \E j \in 1 .. i - 1 :
                  down[session][j].kind \in Queued /\ down[session][j].pos = r.pos
  <2>1. down[session][i] \in GenuineFrames
    BY <1>t, <1>z, <1>d DEF FramesAreGenuine
  <2>2. down[session][i].pos \in Nat /\ down[session][i].pos < next
    BY <1>d, <2>1, DownFacts DEF GenuineFrames
  <2>3. PICK s \in inbox : s.pos = r.pos /\ s.msg = r.msg
    BY <1>n, <1>i, <1>d, <2>2
  <2> QED
    BY <1>t, <1>p, <1>d, <2>3 DEF NothingOvertakes
<1>r. ASSUME session # 0, NEW f \in replay[session], NEW r \in inbox', r.pos < f.pos
      PROVE  \/ r.msg \in Processed'
             \/ \E g \in replay[session] : g.pos = r.pos
             \/ \E j \in 1 .. Len(down[session]) :
                  down[session][j].kind \in Queued /\ down[session][j].pos = r.pos
  <2>1. f \in GenuineFrames /\ f.kind # "live"
    BY <1>t, <1>z, <1>r DEF FramesAreGenuine
  <2>2. f.pos \in Nat /\ (f.kind \in Queued \/ f.pos = 0)
    BY <2>1, DownFacts DEF GenuineFrames, Queued
  <2>3. f.pos < next
    <3>1. f.kind \in Queued
      BY <1>n, <1>r, <2>2
    <3> QED
      BY <2>1, <3>1 DEF GenuineFrames
  <2>4. PICK s \in inbox : s.pos = r.pos /\ s.msg = r.msg
    BY <1>n, <1>i, <1>r, <2>2, <2>3
  <2> QED
    BY <1>t, <1>p, <1>r, <2>4 DEF NothingOvertakes
<1>1. ASSUME UNCHANGED <<replay, down, session>> PROVE NothingOvertakes'
  BY <1>1, <1>d, <1>r DEF NothingOvertakes
<1>2. ASSUME NEW m \in Messages, NEW k \in Conns, WriteLive(m, k) PROVE NothingOvertakes'
  <2>1. /\ Live(m) \in DownFrames /\ Live(m).kind = "live" /\ Write(k, Live(m))
        /\ UNCHANGED <<replay, session>>
    BY <1>2, DownFacts DEF WriteLive, client
  <2> SUFFICES ASSUME session # 0 PROVE NothingOvertakes'
    BY <2>1 DEF NothingOvertakes
  <2>2. /\ \A i \in 1 .. Len(down[session]) :
             i \in 1 .. Len(down'[session]) /\ down'[session][i] = down[session][i]
        /\ \A i \in 1 .. Len(down'[session]) :
             i \in 1 .. Len(down[session]) \/ down'[session][i].kind = "live"
    BY <1>t, <1>e, <1>z, <2>1, PutFacts
  <2>3. ASSUME NEW i \in 1 .. Len(down'[session]), down'[session][i].kind \in Queued,
               NEW r \in inbox', r.pos < down'[session][i].pos
        PROVE  \/ r.msg \in Processed'
               \/ \E j \in 1 .. i - 1 :
                    down'[session][j].kind \in Queued /\ down'[session][j].pos = r.pos
    <3>1. i \in 1 .. Len(down[session]) /\ down[session][i] = down'[session][i]
      BY <2>2, <2>3 DEF Queued
    <3>2. \A j \in 1 .. i - 1 : j \in 1 .. Len(down[session])
      BY <1>e, <1>z, <3>1
    <3> QED
      BY <1>d, <2>2, <2>3, <3>1, <3>2, SMTT(30)
  <2>4. ASSUME NEW f \in replay[session], NEW r \in inbox', r.pos < f.pos
        PROVE  \/ r.msg \in Processed'
               \/ \E g \in replay[session] : g.pos = r.pos
               \/ \E j \in 1 .. Len(down'[session]) :
                    down'[session][j].kind \in Queued /\ down'[session][j].pos = r.pos
    BY <1>r, <2>2, <2>4
  <2> QED
    BY <2>1, <2>3, <2>4 DEF NothingOvertakes
<1>3. ASSUME NEW k \in Conns, HandleHello(k) PROVE NothingOvertakes'
  <2> DEFINE after == Head(up[k]).pos
  <2>1. /\ UNCHANGED <<down, session, inbox>>
        /\ \A j \in Conns : j # k => replay'[j] = replay[j]
        /\ replay'[k] = {HelloAck} \/ replay'[k] = {HelloAck} \cup Deliveries(after)
    BY <1>3, <1>t DEF HandleHello, client, Types
  <2>2. after \in Nat /\ up[k][1].pos = after /\ 1 \in 1 .. Len(up[k])
    BY <1>3, <1>t, HelloFacts, ReadFacts DEF Dispatches
  <2>3. \A r \in inbox : r.pos <= after => r.msg \in Processed'
    BY <1>p, <2>2 DEF Inv, GivenIsSafe, SafePositions
  <2> HIDE DEF after
  <2>4. ASSUME NEW f \in replay'[k], NEW r \in inbox, r.pos < f.pos
        PROVE  r.msg \in Processed' \/ \E g \in replay'[k] : g.pos = r.pos
    <3>1. replay'[k] = {HelloAck} \cup Deliveries(after)
      BY <1>n, <2>1, <2>4, DownFacts
    <3>2. CASE r.pos <= after
      BY <2>3, <3>2
    <3>3. CASE after < r.pos
      <4>1. CASE r \in Unreadable(after)
        <5>1. replay'[k] # {HelloAck}
          BY <1>n, <2>1, <2>4, DownFacts
        <5> QED
          BY <1>3, <1>t, <4>1, <5>1, SkippedIsProcessed DEF after
      <4> QED
        BY <1>t, <2>2, <3>1, <3>3, <4>1, DeliveriesFacts
    <3> QED
      BY <1>n, <2>1, <2>2, <3>2, <3>3
  <2> QED
    <3>1. CASE k # session
      BY <1>d, <1>r, <1>z, <2>1, <3>1 DEF NothingOvertakes
    <3>2. CASE k = session
      BY <1>d, <2>1, <2>4, <3>2 DEF NothingOvertakes
    <3> QED
      BY <3>1, <3>2
<1>4. ASSUME NEW k \in Conns, WriteReplay(k) PROVE NothingOvertakes'
  <2>1. UNCHANGED <<session, link>> /\ \A j \in Conns : j # k => replay'[j] = replay[j] /\ down'[j] = down[j]
    BY <1>4, ReplayFacts
  <2>2. CASE UNCHANGED <<down, replay>>
    BY <1>1, <2>1, <2>2
  <2>3. CASE k # session
    BY <1>d, <1>r, <1>z, <2>1, <2>3, SMTT(30) DEF NothingOvertakes
  <2>4. ASSUME k = session, NEW f \in replay[k], f \in DownFrames, Write(k, f),
               replay'[k] = replay[k] \ {f}, f = HelloAck \/ f.kind \in Queued,
               \A g \in replay[k] : g # f => f.pos < g.pos
        PROVE  NothingOvertakes'
    <3>1. link[k] = "up" /\ session # 0
      BY <1>t, <1>z, <2>4 DEF Connected
    <3>2. /\ Len(down'[k]) = Len(down[k]) + 1 /\ Len(down[k]) \in Nat
          /\ \A i \in 1 .. Len(down[k]) : down'[k][i] = down[k][i]
          /\ down'[k][Len(down[k]) + 1] = f
      BY <1>t, <2>4, <3>1, PutFacts
    <3>3. \A g \in replay[k] : g.pos \in Nat
      BY <1>t, DownFacts DEF Types
    <3>4. ASSUME NEW i \in 1 .. Len(down'[k]), down'[k][i].kind \in Queued,
                 NEW r \in inbox', r.pos < down'[k][i].pos
          PROVE  \/ r.msg \in Processed'
                 \/ \E j \in 1 .. i - 1 : down'[k][j].kind \in Queued /\ down'[k][j].pos = r.pos
      <4>1. CASE i \in 1 .. Len(down[k])
        <5>1. down[k][i] = down'[k][i] /\ \A j \in 1 .. i - 1 : down[k][j] = down'[k][j]
          BY <3>2, <4>1
        <5> QED
          BY <1>d, <2>4, <3>1, <3>4, <4>1, <5>1, SMTT(30)
      <4>2. CASE i = Len(down[k]) + 1
        <5>1. r.pos < f.pos
          BY <3>2, <3>4, <4>2
        <5>2. ~ \E g \in replay[k] : g.pos = r.pos
          BY <1>n, <2>4, <3>3, <5>1
        <5>3. \/ r.msg \in Processed'
              \/ \E j \in 1 .. Len(down[k]) : down[k][j].kind \in Queued /\ down[k][j].pos = r.pos
          BY <1>r, <2>4, <3>1, <5>1, <5>2
        <5>4. \A j \in 1 .. Len(down[k]) : j \in 1 .. i - 1 /\ down'[k][j] = down[k][j]
          BY <3>2, <4>2
        <5> QED
          BY <5>3, <5>4
      <4> QED
        BY <3>2, <4>1, <4>2
    <3>5. ASSUME NEW h \in replay'[k], NEW r \in inbox', r.pos < h.pos
          PROVE  \/ r.msg \in Processed'
                 \/ \E g \in replay'[k] : g.pos = r.pos
                 \/ \E j \in 1 .. Len(down'[k]) : down'[k][j].kind \in Queued /\ down'[k][j].pos = r.pos
      <4>1. \/ r.msg \in Processed'
            \/ \E g \in replay[k] : g.pos = r.pos
            \/ \E j \in 1 .. Len(down[k]) : down[k][j].kind \in Queued /\ down[k][j].pos = r.pos
        BY <1>r, <2>4, <3>1, <3>5
      <4>2. ASSUME f.pos = r.pos
            PROVE  \E j \in 1 .. Len(down'[k]) : down'[k][j].kind \in Queued /\ down'[k][j].pos = r.pos
        <5>1. f.kind \in Queued
          BY <1>n, <2>4, <4>2, DownFacts
        <5>2. Len(down[k]) + 1 \in 1 .. Len(down'[k])
          BY <3>2
        <5> QED
          BY <3>2, <4>2, <5>1, <5>2
      <4>3. \A j \in 1 .. Len(down[k]) : j \in 1 .. Len(down'[k]) /\ down'[k][j] = down[k][j]
        BY <3>2
      <4> QED
        BY <2>4, <4>1, <4>2, <4>3
    <3> QED
      BY <2>1, <2>4, <3>4, <3>5, SMTT(30) DEF NothingOvertakes
  <2> QED
    BY <1>4, <2>2, <2>3, <2>4, ReplayFacts
<1>5. ASSUME Dial PROVE NothingOvertakes'
  <2> DEFINE k == conns + 1
  <2>1. k \in Conns /\ conns \in Nat /\ conns < k
    BY <1>5, <1>t, DeliveryAssumption DEF Dial, Types, Conns
  <2>2. session' = k /\ UNCHANGED <<replay, down>>
    BY <1>5, <2>1 DEF Dial
  <2>3. replay[k] = {} /\ down[k] = <<>>
    BY <1>t, <2>1 DEF Connected
  <2>4. Len(down[k]) = 0
    BY <2>3
  <2> HIDE DEF k
  <2> QED
    BY <2>2, <2>3, <2>4 DEF NothingOvertakes
<1>6. ASSUME Handshake \/ OnEnvelope PROVE NothingOvertakes'
  <2>1. /\ session # 0 /\ down[session] # <<>> /\ down' = [down EXCEPT ![session] = Tail(@)]
        /\ UNCHANGED <<replay, session, inbox>>
    BY <1>6 DEF Handshake, OnEnvelope, coordinator
  <2>2. /\ Len(down[session]) \in Nat /\ 0 < Len(down[session])
        /\ Head(down[session]) = down[session][1] /\ down[session][1] \in DownFrames
        /\ Len(down'[session]) = Len(down[session]) - 1
        /\ \A i \in 1 .. Len(down'[session]) :
             i + 1 \in 1 .. Len(down[session]) /\ down'[session][i] = down[session][i + 1]
    BY <1>t, <2>1, TakeFacts
  <2>3. ASSUME NEW r \in inbox', down[session][1].kind \in Queued, r.pos = down[session][1].pos
        PROVE  r.msg \in Processed'
    <3>1. 1 \in 1 .. Len(down[session])
      BY <2>2
    <3>2. greeted
      BY <2>1, <2>3, <3>1 DEF Inv, AckFirst
    <3>3. OnEnvelope
      BY <1>6, <3>2 DEF Handshake
    <3>4. r.msg = down[session][1].msg
      BY <1>t, <1>z, <2>1, <2>3, <3>1 DEF FramesAreGenuine, GenuineFrames
    <3> QED
      BY <2>2, <3>3, <3>4, TakenIsProcessed
  <2>4. \A i \in 2 .. Len(down[session]) :
          i - 1 \in 1 .. Len(down'[session]) /\ down'[session][i - 1] = down[session][i]
    BY <2>2
  <2>5. ASSUME NEW i \in 1 .. Len(down'[session]), down'[session][i].kind \in Queued,
               NEW r \in inbox', r.pos < down'[session][i].pos
        PROVE  \/ r.msg \in Processed'
               \/ \E j \in 1 .. i - 1 :
                    down'[session][j].kind \in Queued /\ down'[session][j].pos = r.pos
    <3>1. i + 1 \in 1 .. Len(down[session]) /\ down'[session][i] = down[session][i + 1] /\ i \in Nat
      BY <2>2
    <3>2. \/ r.msg \in Processed'
          \/ \E j \in 1 .. (i + 1) - 1 :
               down[session][j].kind \in Queued /\ down[session][j].pos = r.pos
      BY <1>d, <2>1, <2>5, <3>1
    <3>3. ASSUME NEW j \in 1 .. (i + 1) - 1, j # 1
          PROVE  j - 1 \in 1 .. i - 1 /\ j \in 2 .. Len(down[session])
      BY <2>2, <3>1, <3>3
    <3> QED
      BY <2>3, <2>4, <3>2, <3>3
  <2>6. ASSUME NEW f \in replay[session], NEW r \in inbox', r.pos < f.pos
        PROVE  \/ r.msg \in Processed'
               \/ \E g \in replay[session] : g.pos = r.pos
               \/ \E j \in 1 .. Len(down'[session]) :
                    down'[session][j].kind \in Queued /\ down'[session][j].pos = r.pos
    <3>1. \A j \in 1 .. Len(down[session]) : j = 1 \/ j \in 2 .. Len(down[session])
      BY <2>2
    <3>2. \/ r.msg \in Processed'
          \/ \E g \in replay[session] : g.pos = r.pos
          \/ \E j \in 1 .. Len(down[session]) :
               down[session][j].kind \in Queued /\ down[session][j].pos = r.pos
      BY <1>r, <2>1, <2>6
    <3>3. ASSUME NEW j \in 1 .. Len(down[session]), down[session][j].kind \in Queued,
                 down[session][j].pos = r.pos
          PROVE  \/ r.msg \in Processed'
                 \/ \E i \in 1 .. Len(down'[session]) :
                      down'[session][i].kind \in Queued /\ down'[session][i].pos = r.pos
      BY <2>3, <2>4, <3>1, <3>3
    <3> QED
      BY <3>2, <3>3
  <2> QED
    <3>1. UNCHANGED <<replay, session>>
      BY <2>1
    <3> QED
      BY <3>1, <2>5, <2>6 DEF NothingOvertakes
<1>7. ASSUME Break \/ Crash PROVE NothingOvertakes'
  <2>1. session' = 0
    BY <1>7 DEF Break, Crash
  <2> QED
    BY <2>1 DEF NothingOvertakes
<1>8. ASSUME NEW k \in Conns, HandleQueueAck(k) \/ RemoveRoute(k)
      PROVE  UNCHANGED <<replay, down, session>>
  BY <1>8 DEF HandleQueueAck, RemoveRoute, client
<1> QED
  BY <1>t, <1>1, <1>2, <1>3, <1>4, <1>5, <1>6, <1>7, <1>8, StepCases DEF sockets

\* What is on its way stays in ascending order, behind the acknowledged position.
LEMMA AscendingStep == Inv /\ [Next]_vars => Ascending'
<1> SUFFICES ASSUME Inv, [Next]_vars PROVE Ascending'
  OBVIOUS
<1>t. Types /\ Types' /\ Connected /\ Ascending
  BY TypesStep DEF Inv
<1>e. \A k \in Conns : Len(down[k]) \in Nat
  BY <1>t, ElementFacts DEF Types
<1>z. 0 \notin Conns /\ (session # 0 => session \in Conns)
  BY <1>t, SessionFacts, DeliveryAssumption DEF Conns
<1>1. ASSUME UNCHANGED <<replay, down, session, acked, highest, crashes>> PROVE Ascending'
  BY <1>1, <1>t DEF Ascending
<1>2. ASSUME NEW m \in Messages, NEW k \in Conns, WriteLive(m, k) PROVE Ascending'
  <2>1. /\ Live(m) \in DownFrames /\ Live(m).kind = "live" /\ Write(k, Live(m))
        /\ UNCHANGED <<replay, session, acked, highest, crashes>>
    BY <1>2, DownFacts DEF WriteLive, client
  <2>2. \A j \in Conns : \A i \in 1 .. Len(down'[j]) : down'[j][i].kind \in Queued =>
          i \in 1 .. Len(down[j]) /\ down'[j][i] = down[j][i]
    BY <1>t, <1>e, <2>1, PutFacts DEF Queued
  <2> QED
    BY <1>t, <1>z, <2>1, <2>2 DEF Ascending
<1>3. ASSUME NEW k \in Conns, HandleHello(k) PROVE Ascending'
  <2> DEFINE after == Head(up[k]).pos
  <2>1. /\ UNCHANGED <<down, session, acked, highest, crashes>>
        /\ \A j \in Conns : j # k => replay'[j] = replay[j]
        /\ replay'[k] \subseteq {HelloAck} \cup Deliveries(after)
    BY <1>3, <1>t, HelloFacts DEF client
  <2>2. after \in Nat /\ up[k][1].pos = after /\ 1 \in 1 .. Len(up[k]) /\ up[k][1].kind = "hello"
    BY <1>3, <1>t, HelloFacts, ReadFacts DEF Dispatches
  <2> HIDE DEF after
  <2>3. CASE k # session
    BY <1>t, <1>z, <2>1, <2>3 DEF Ascending
  <2>4. CASE k = session
    <3>1. after = acked /\ \A i \in 1 .. Len(down[k]) : down[k][i].kind \notin Queued
      BY <2>2, <2>4 DEF Inv, HelloFirst, Queued
    <3>2. \A f \in replay'[k] : f.kind \in Queued => acked < f.pos
      <4>1. \A f \in Deliveries(after) : acked < f.pos
        BY <1>t, <2>2, <3>1, DeliveriesFacts
      <4>2. HelloAck.kind \notin Queued
        BY DownFacts DEF Queued
      <4> QED
        BY <2>1, <4>1, <4>2
    <3> QED
      BY <1>t, <2>1, <2>4, <3>1, <3>2 DEF Ascending
  <2> QED
    BY <2>3, <2>4
<1>4. ASSUME NEW k \in Conns, WriteReplay(k) PROVE Ascending'
  <2>1. /\ UNCHANGED <<session, acked, highest, crashes>>
        /\ \A j \in Conns : j # k => replay'[j] = replay[j] /\ down'[j] = down[j]
    BY <1>4, ReplayFacts
  <2>2. CASE UNCHANGED <<down, replay>>
    BY <1>1, <2>1, <2>2
  <2>3. CASE k # session
    BY <1>t, <1>z, <2>1, <2>3 DEF Ascending
  <2>4. ASSUME k = session, NEW f \in replay[k], f \in DownFrames, Write(k, f),
               replay'[k] = replay[k] \ {f}, \A g \in replay[k] : g # f => f.pos < g.pos
        PROVE  Ascending'
    <3>1. link[k] = "up" /\ session # 0
      BY <1>t, <1>z, <2>4 DEF Connected
    <3>2. /\ Len(down'[k]) = Len(down[k]) + 1 /\ Len(down[k]) \in Nat
          /\ \A i \in 1 .. Len(down[k]) : down'[k][i] = down[k][i]
          /\ down'[k][Len(down[k]) + 1] = f
      BY <1>t, <2>4, <3>1, PutFacts
    <3>3. \A i \in 1 .. Len(down'[k]) :
            \/ i \in 1 .. Len(down[k]) /\ down'[k][i] = down[k][i]
            \/ i = Len(down[k]) + 1 /\ down'[k][i] = f
      BY <3>2
    <3>4. \A i \in 1 .. Len(down[k]) : down[k][i].kind \in Queued =>
            /\ acked < down[k][i].pos
            /\ \A j \in 1 .. Len(down[k]) :
                 down[k][j].kind \in Queued /\ i < j => down[k][i].pos < down[k][j].pos
            /\ \A g \in replay[k] : down[k][i].pos < g.pos
      BY <1>t, <2>4, <3>1 DEF Ascending
    <3>5. \A g \in replay[k] : g.kind \in Queued => acked < g.pos
      BY <1>t, <2>4, <3>1 DEF Ascending
    <3>6. \A i \in 1 .. Len(down'[k]) : down'[k][i].kind \in Queued => acked < down'[k][i].pos
      BY <2>4, <3>3, <3>4, <3>5
    <3>7. \A i \in 1 .. Len(down'[k]) : down'[k][i].kind \in Queued =>
            \A g \in replay'[k] : down'[k][i].pos < g.pos
      BY <2>4, <3>3, <3>4
    <3>8. ASSUME NEW i \in 1 .. Len(down'[k]), down'[k][i].kind \in Queued,
                 NEW j \in 1 .. Len(down'[k]), down'[k][j].kind \in Queued, i < j
          PROVE  down'[k][i].pos < down'[k][j].pos
      <4>1. i \in 1 .. Len(down[k]) /\ down'[k][i] = down[k][i]
        BY <3>2, <3>8
      <4>2. CASE j \in 1 .. Len(down[k])
        BY <3>2, <3>4, <3>8, <4>1, <4>2
      <4>3. CASE j = Len(down[k]) + 1
        BY <2>4, <3>2, <3>4, <3>8, <4>1, <4>3
      <4> QED
        BY <3>2, <4>2, <4>3
    <3>9. /\ \A g \in replay'[k] : g.kind \in Queued => acked < g.pos
          /\ crashes = 0 => highest = acked
      BY <1>t, <2>4, <3>5 DEF Ascending
    <3> QED
      BY <2>1, <2>4, <3>6, <3>7, <3>8, <3>9 DEF Ascending
  <2> QED
    BY <1>4, <2>2, <2>3, <2>4, ReplayFacts
<1>5. ASSUME Dial PROVE Ascending'
  <2> DEFINE k == conns + 1
  <2>1. k \in Conns /\ conns \in Nat /\ conns < k
    BY <1>5, <1>t, DeliveryAssumption DEF Dial, Types, Conns
  <2>2. session' = k /\ UNCHANGED <<replay, down, acked, highest, crashes>>
    BY <1>5, <2>1 DEF Dial, ghosts
  <2>3. replay[k] = {} /\ down[k] = <<>>
    BY <1>t, <2>1 DEF Connected
  <2>4. Len(down[k]) = 0
    BY <2>3
  <2> HIDE DEF k
  <2> QED
    BY <1>t, <2>2, <2>3, <2>4 DEF Ascending
<1>6. ASSUME session # 0, down[session] # <<>>, down' = [down EXCEPT ![session] = Tail(@)],
             UNCHANGED <<replay, session>>, crashes' = 0 => highest' = acked',
             \/ acked' = acked
             \/ acked' = Head(down[session]).pos /\ Head(down[session]).kind \in Queued
      PROVE  Ascending'
  <2>1. /\ Len(down[session]) \in Nat /\ 0 < Len(down[session])
        /\ Head(down[session]) = down[session][1]
        /\ Len(down'[session]) = Len(down[session]) - 1
        /\ \A i \in 1 .. Len(down'[session]) :
             i + 1 \in 1 .. Len(down[session]) /\ down'[session][i] = down[session][i + 1]
    BY <1>t, <1>6, TakeFacts
  <2>2. \A i \in 1 .. Len(down[session]) : down[session][i].kind \in Queued =>
          /\ acked < down[session][i].pos
          /\ \A j \in 1 .. Len(down[session]) :
               down[session][j].kind \in Queued /\ i < j => down[session][i].pos < down[session][j].pos
          /\ \A g \in replay[session] : down[session][i].pos < g.pos
    BY <1>t, <1>6 DEF Ascending
  <2>3. ASSUME NEW i \in 1 .. Len(down'[session]), down'[session][i].kind \in Queued
        PROVE  acked' < down'[session][i].pos
    <3>1. /\ i + 1 \in 1 .. Len(down[session]) /\ down'[session][i] = down[session][i + 1]
          /\ 1 \in 1 .. Len(down[session]) /\ 1 < i + 1
      BY <2>1
    <3> QED
      BY <1>6, <2>1, <2>2, <2>3, <3>1
  <2>4. ASSUME NEW i \in 1 .. Len(down'[session]), down'[session][i].kind \in Queued,
               NEW j \in 1 .. Len(down'[session]), down'[session][j].kind \in Queued, i < j
        PROVE  down'[session][i].pos < down'[session][j].pos
    <3>1. i + 1 < j + 1
      BY <2>1, <2>4
    <3> QED
      BY <2>1, <2>2, <2>4, <3>1
  <2>5. ASSUME NEW i \in 1 .. Len(down'[session]), down'[session][i].kind \in Queued,
               NEW g \in replay[session]
        PROVE  down'[session][i].pos < g.pos
    BY <2>1, <2>2, <2>5
  <2>6. ASSUME NEW g \in replay[session], g.kind \in Queued PROVE acked' < g.pos
    <3>1. 1 \in 1 .. Len(down[session])
      BY <2>1
    <3> QED
      BY <1>t, <1>6, <2>1, <2>2, <2>6, <3>1 DEF Ascending
  <2> QED
    <3>1. UNCHANGED <<replay, session>> /\ (crashes' = 0 => highest' = acked')
      BY <1>6
    <3> QED
      BY <3>1, <2>3, <2>4, <2>5, <2>6 DEF Ascending
<1>7. ASSUME Handshake PROVE Ascending'
  <2>1. /\ session # 0 /\ down[session] # <<>> /\ down' = [down EXCEPT ![session] = Tail(@)]
        /\ UNCHANGED <<replay, session, acked, highest, crashes>>
    BY <1>7 DEF Handshake, coordinator
  <2> QED
    BY <1>t, <1>6, <2>1 DEF Ascending
<1>8. ASSUME OnEnvelope PROVE Ascending'
  <2>1. /\ session # 0 /\ down[session] # <<>> /\ down' = [down EXCEPT ![session] = Tail(@)]
        /\ UNCHANGED <<replay, session, crashes>>
    BY <1>8 DEF OnEnvelope, coordinator
  <2>2. \/ acked' = acked
        \/ acked' = Head(down[session]).pos /\ Head(down[session]).kind \in Queued
    BY <1>8, AcknowledgeFacts DEF Queued
  <2>3. \/ UNCHANGED <<acked, highest>>
        \/ /\ ~ Head(down[session]).pos <= acked
           /\ acked' = Head(down[session]).pos
           /\ highest' = IF Head(down[session]).pos > highest THEN Head(down[session]).pos ELSE highest
    BY <1>8 DEF OnEnvelope, Acknowledge
  <2>4. Head(down[session]).pos \in Nat /\ acked \in Nat /\ highest \in Nat
    BY <1>8, <1>t, EnvelopeFacts DEF OnEnvelope, Types
  <2>5. crashes' = 0 => highest' = acked'
    BY <1>t, <2>1, <2>3, <2>4 DEF Ascending
  <2> QED
    BY <1>6, <2>1, <2>2, <2>5
<1>9. ASSUME Break PROVE Ascending'
  <2>1. session' = 0 /\ UNCHANGED <<acked, highest, crashes>>
    BY <1>9 DEF Break
  <2> QED
    BY <1>t, <2>1 DEF Ascending
<1>10. ASSUME Crash PROVE Ascending'
  <2>1. session' = 0 /\ crashes' = crashes + 1 /\ crashes \in Nat
    BY <1>10, <1>t DEF Crash, Types
  <2> QED
    BY <2>1 DEF Ascending
<1>11. ASSUME NEW k \in Conns, HandleQueueAck(k) \/ RemoveRoute(k)
       PROVE  UNCHANGED <<replay, down, session, acked, highest, crashes>>
  BY <1>11 DEF HandleQueueAck, RemoveRoute, client, ghosts
<1> QED
  BY <1>t, <1>1, <1>2, <1>3, <1>4, <1>5, <1>7, <1>8, <1>9, <1>10, <1>11, StepCases DEF sockets

\* What an uncrashed client acknowledged is not replayed to it.
LEMMA SuffixStep == Inv /\ [Next]_vars => ReplayIsSuffix'
<1> SUFFICES ASSUME Inv, [Next]_vars PROVE ReplayIsSuffix'
  OBVIOUS
<1>t. Types /\ Connected /\ Ascending /\ ReplayIsSuffix
  BY DEF Inv
<1>1. ASSUME UNCHANGED <<replayed, crashes>> PROVE ReplayIsSuffix'
  BY <1>1, <1>t DEF ReplayIsSuffix
<1>2. ASSUME NEW k \in Conns, WriteReplay(k) PROVE ReplayIsSuffix'
  <2>1. UNCHANGED crashes
    BY <1>2, ReplayFacts
  <2>2. CASE UNCHANGED replayed
    BY <1>1, <2>1, <2>2
  <2>3. ASSUME NEW f \in replay[k], f \in DownFrames, f = HelloAck \/ f.kind \in Queued,
               crashes = 0, link[k] = "up", 0 < f.pos, f.pos <= highest
        PROVE  FALSE
    <3>1. session = k /\ session # 0 /\ highest = acked
      BY <1>t, <2>3, DeliveryAssumption DEF Connected, Ascending, Conns
    <3>2. f.kind \in Queued /\ f.pos \in Nat /\ acked \in Nat
      BY <1>t, <2>3, DownFacts DEF Types
    <3>3. acked < f.pos
      BY <1>t, <2>3, <3>1, <3>2 DEF Ascending
    <3> QED
      BY <2>3, <3>1, <3>2, <3>3
  <2> QED
    BY <1>t, <1>2, <2>1, <2>2, <2>3, ReplayFacts DEF ReplayIsSuffix
<1>3. ASSUME Crash PROVE ReplayIsSuffix'
  <2>1. crashes' = crashes + 1 /\ crashes \in Nat
    BY <1>3, <1>t DEF Crash, Types
  <2> QED
    BY <2>1 DEF ReplayIsSuffix
<1>4. ASSUME NEW m \in Messages,
             \/ Refuse(m) \/ Dispatch(m, TRUE) \/ Dispatch(m, FALSE) \/ Unroutable(m)
             \/ \E k \in Conns : WriteLive(m, k)
      PROVE  UNCHANGED <<replayed, crashes>>
  BY <1>4 DEF Refuse, Dispatch, Unroutable, WriteLive
<1>5. ASSUME NEW k \in Conns,
             AddRoute(k) \/ HandleHello(k) \/ HandleQueueAck(k) \/ RemoveRoute(k) \/ ConnectionLost(k)
      PROVE  UNCHANGED <<replayed, crashes>>
  BY <1>5 DEF AddRoute, HandleHello, HandleQueueAck, RemoveRoute, ConnectionLost, ghosts
<1>6. ASSUME Dial \/ Lapse \/ Announce \/ Handshake \/ OnEnvelope \/ Keep \/ Break
      PROVE  UNCHANGED <<replayed, crashes>>
  BY <1>6 DEF Dial, Lapse, Announce, Handshake, OnEnvelope, Keep, Break, ghosts
<1>7. ASSUME UNCHANGED vars PROVE UNCHANGED <<replayed, crashes>>
  BY <1>7 DEF vars, ghosts
<1>8. ASSUME NEW r \in inbox, NEW b \in {"unreadable", "garbled"}, Damage(r, b)
      PROVE  UNCHANGED <<replayed, crashes>>
  BY <1>8 DEF Damage, ghosts
<1> QED
  BY <1>1, <1>2, <1>3, <1>4, <1>5, <1>6, <1>7, <1>8 DEF Next

\* A QueueAck deletes rows the client has processed, and no others.
LEMMA ErasedStep == Inv /\ [Next]_vars => ErasedIsProcessed'
<1> SUFFICES ASSUME Inv, [Next]_vars PROVE ErasedIsProcessed'
  OBVIOUS
<1>p. Processed \subseteq Processed' /\ erased \subseteq Processed
  BY ProcessedStays DEF Inv, ErasedIsProcessed
<1>1. ASSUME UNCHANGED erased PROVE ErasedIsProcessed'
  BY <1>1, <1>p DEF ErasedIsProcessed
<1>2. ASSUME NEW k \in Conns, HandleQueueAck(k) PROVE ErasedIsProcessed'
  <2>1. UNCHANGED erased \/ erased' = erased \cup {r.msg : r \in inbox \ inbox'}
    BY <1>2 DEF HandleQueueAck
  <2>2. inbox' \subseteq inbox /\ \A r, s \in inbox : r.pos = s.pos => r = s
    BY <1>2 DEF HandleQueueAck, Inv, RowsArePlaced
  <2>3. \A r \in inbox : r \in inbox' \/ r.msg \in Processed
    BY <2>2, InboxStep
  <2> QED
    BY <1>p, <2>1, <2>3 DEF ErasedIsProcessed
<1>3. ASSUME NEW m \in Messages,
             \/ Refuse(m) \/ Dispatch(m, TRUE) \/ Dispatch(m, FALSE) \/ Unroutable(m)
             \/ \E k \in Conns : WriteLive(m, k)
      PROVE  UNCHANGED erased
  BY <1>3 DEF Refuse, Dispatch, Unroutable, WriteLive
<1>4. ASSUME NEW k \in Conns,
             AddRoute(k) \/ HandleHello(k) \/ WriteReplay(k) \/ RemoveRoute(k) \/ ConnectionLost(k)
      PROVE  UNCHANGED erased
  BY <1>4 DEF AddRoute, HandleHello, WriteReplay, RemoveRoute, ConnectionLost, ghosts
<1>5. ASSUME Dial \/ Lapse \/ Announce \/ Handshake \/ OnEnvelope \/ Keep \/ Break \/ Crash
      PROVE  UNCHANGED erased
  BY <1>5 DEF Dial, Lapse, Announce, Handshake, OnEnvelope, Keep, Break, Crash, ghosts
<1>6. ASSUME UNCHANGED vars PROVE UNCHANGED erased
  BY <1>6 DEF vars, ghosts
<1>7. ASSUME NEW r \in inbox, NEW b \in {"unreadable", "garbled"}, Damage(r, b)
      PROVE  UNCHANGED erased
  BY <1>7 DEF Damage, ghosts
<1> QED
  BY <1>1, <1>2, <1>3, <1>4, <1>5, <1>6, <1>7 DEF Next

-----------------------------------------------------------------------------
(* Nothing is lost without a cause *)

\* Messages that are somewhere, were refused, or have a cause.
Accounted == {m \in Messages : Present(m) \/ m \in refused \/ cause[m] # {}}

\* A message on its way is accounted for ...
LEMMA OnItsWay ==
  ASSUME Types', NEW k \in Conns, NEW i \in 1 .. Len(down'[k]), down'[k][i].msg \in Messages
  PROVE  down'[k][i].msg \in Accounted'
<1>1. DOMAIN down'[k] = 1 .. Len(down'[k])
  BY ElementFacts DEF Types
<1>2. down'[k][i] \in ToSet(down'[k])
  BY <1>1 DEF ToSet
<1> QED
  BY <1>2 DEF Accounted, Present

\* ... and so is one in the inbox or with the client, whatever happens next.
LEMMA HeldStays ==
  ASSUME Inv, [Next]_vars, NEW m \in Messages,
         \/ m \in Processed \/ m \in shown \cup kept \cup {todo}
         \/ \E r \in inbox : r.msg = m
         \/ cause[m] # {}
  PROVE  m \in Accounted'
<1>1. ASSUME m \in Processed PROVE m \in Accounted'
  <2>1. m \in Processed'
    BY <1>1, ProcessedStays
  <2> QED
    BY <2>1 DEF Processed, Settled, Accounted, Present
<1>2. ASSUME m \in shown \cup kept \cup {todo} PROVE m \in Processed
  BY <1>2 DEF Inv, ShownIsKept, Processed, Settled
<1>3. ASSUME NEW r \in inbox, r.msg = m PROVE m \in Accounted'
  <2>1. m \in Processed \/ \E s \in inbox' : s.msg = m
    BY <1>3, InboxStep
  <2> QED
    BY <1>1, <1>3, <2>1 DEF Accounted, Present
<1>4. ASSUME cause[m] # {} PROVE m \in Accounted'
  <2>1. cause[m] \subseteq cause'[m]
    BY CausesStay DEF Inv
  <2> QED
    BY <1>4, <2>1 DEF Accounted
<1> QED
  BY <1>1, <1>2, <1>3, <1>4

\* A message written live stays on its way until the client takes it, or it has
\* a cause.
LEMMA LiveStays ==
  ASSUME Inv, [Next]_vars, NEW k \in Conns, NEW i \in 1 .. Len(down[k]), down[k][i].kind = "live"
  PROVE  down[k][i].msg \in Accounted'
<1> DEFINE m == down[k][i].msg
<1>t. Types /\ Types'
  BY TypesStep DEF Inv
<1>e. Len(down[k]) \in Nat /\ down[k][i] \in DownFrames
  BY <1>t, ElementFacts DEF Types
<1>m. m \in Messages
  BY <1>e, DownFacts
<1>1. ASSUME i \in 1 .. Len(down'[k]), down'[k][i] = down[k][i] PROVE m \in Accounted'
  BY <1>t, <1>m, <1>1, OnItsWay
<1>2. ASSUME NEW j \in Conns, NEW f \in DownFrames, Write(j, f) PROVE m \in Accounted'
  <2>1. i \in 1 .. Len(down'[k]) /\ down'[k][i] = down[k][i]
    BY <1>t, <1>e, <1>2, PutFacts
  <2> QED
    BY <1>1, <2>1
<1>3. ASSUME NEW n \in Messages, NEW j \in Conns, WriteLive(n, j) PROVE m \in Accounted'
  BY <1>2, <1>3, DownFacts DEF WriteLive
<1>4. ASSUME NEW j \in Conns, WriteReplay(j) PROVE m \in Accounted'
  <2>1. UNCHANGED down \/ \E f \in replay[j] : Write(j, f)
    BY <1>4 DEF WriteReplay
  <2>2. \A f \in replay[j] : f \in DownFrames
    BY <1>t DEF Types
  <2> QED
    BY <1>1, <1>2, <2>1, <2>2
<1>5. ASSUME Handshake \/ OnEnvelope PROVE m \in Accounted'
  <2>1. session # 0 /\ down[session] # <<>> /\ down' = [down EXCEPT ![session] = Tail(@)]
    BY <1>5 DEF Handshake, OnEnvelope
  <2>2. CASE k # session
    BY <1>1, <1>t, <2>1, <2>2, TakeFacts
  <2>3. CASE k = session /\ i # 1
    <3>1. i - 1 \in 1 .. Len(down'[k]) /\ down'[k][i - 1] = down[k][i]
      BY <1>t, <1>e, <2>1, <2>3, TakeFacts
    <3> QED
      BY <1>t, <1>m, <3>1, OnItsWay
  <2>4. CASE k = session /\ i = 1
    <3>1. Head(down[session]) = down[k][i]
      BY <1>t, <2>1, <2>4, TakeFacts
    <3>2. CASE Handshake
      <4>1. Blame({m}, "before the ack")
        BY <3>1, <3>2 DEF Handshake
      <4>2. cause'[m] # {}
        BY <1>m, <4>1 DEF Blame
      <4> QED
        BY <1>m, <4>2 DEF Accounted
    <3>3. CASE OnEnvelope
      <4>1. m \in shown'
        BY <3>1, <3>3 DEF OnEnvelope
      <4> QED
        BY <1>m, <4>1 DEF Accounted, Present
    <3> QED
      BY <1>5, <3>2, <3>3
  <2> QED
    BY <2>2, <2>3, <2>4
<1>6. ASSUME Break \/ Crash PROVE m \in Accounted'
  <2>1. \/ UNCHANGED down
        \/ session # 0 /\ Sever(session) /\ \E ms, why : LiveOn(session) \subseteq ms /\ Blame(ms, why)
    BY <1>6 DEF Break, Crash
  <2>2. CASE UNCHANGED down
    BY <1>1, <2>2
  <2>3. ASSUME session # 0, Sever(session), NEW ms, NEW why, LiveOn(session) \subseteq ms, Blame(ms, why)
        PROVE  m \in Accounted'
    <3>1. CASE k # session
      <4>1. down'[k] = down[k]
        BY <1>t, <2>3, <3>1 DEF Sever, Types
      <4> QED
        BY <1>1, <4>1
    <3>2. CASE k = session
      <4>1. DOMAIN down[k] = 1 .. Len(down[k])
        BY <1>t, ElementFacts DEF Types
      <4>2. m \in LiveOn(session)
        BY <3>2, <4>1 DEF LiveOn, ToSet
      <4>3. cause'[m] # {}
        BY <1>m, <2>3, <4>2 DEF Blame
      <4> QED
        BY <1>m, <4>3 DEF Accounted
    <3> QED
      BY <3>1, <3>2
  <2> QED
    BY <2>1, <2>2, <2>3
<1>7. ASSUME NEW j \in Conns, HandleHello(j) \/ HandleQueueAck(j) \/ RemoveRoute(j) PROVE UNCHANGED down
  BY <1>7 DEF HandleHello, HandleQueueAck, RemoveRoute
<1>8. ASSUME Dial PROVE UNCHANGED down
  BY <1>8 DEF Dial
<1>9. ASSUME UNCHANGED down PROVE m \in Accounted'
  BY <1>1, <1>9
<1> QED
  BY <1>t, <1>3, <1>4, <1>5, <1>6, <1>7, <1>8, <1>9, StepCases DEF sockets

\* What is accounted for stays so.
LEMMA AccountedStays == Inv /\ [Next]_vars => Accounted \subseteq Accounted'
<1> SUFFICES ASSUME Inv, [Next]_vars, NEW m \in Accounted PROVE m \in Accounted'
  OBVIOUS
<1>m. m \in Messages
  BY DEF Accounted
<1>t. Types
  BY DEF Inv
<1>1. CASE m \in shown \cup kept \cup {todo} \/ (\E r \in inbox : r.msg = m) \/ cause[m] # {}
  BY <1>m, <1>1, HeldStays
<1>2. CASE m \in refused
  <2>1. refused \subseteq refused'
    <3>1. ASSUME NEW n \in Messages,
                 \/ Refuse(n) \/ Dispatch(n, TRUE) \/ Dispatch(n, FALSE) \/ Unroutable(n)
                 \/ \E k \in Conns : WriteLive(n, k)
          PROVE  refused \subseteq refused'
      BY <3>1 DEF Refuse, Dispatch, Unroutable, WriteLive
    <3>2. ASSUME NEW k \in Conns,
                 \/ AddRoute(k) \/ HandleHello(k) \/ WriteReplay(k) \/ HandleQueueAck(k)
                 \/ RemoveRoute(k) \/ ConnectionLost(k)
          PROVE  refused \subseteq refused'
      BY <3>2 DEF AddRoute, HandleHello, WriteReplay, HandleQueueAck, RemoveRoute, ConnectionLost, ghosts
    <3>3. ASSUME Dial \/ Lapse \/ Announce \/ Handshake \/ OnEnvelope \/ Keep \/ Break \/ Crash
          PROVE  refused \subseteq refused'
      BY <3>3 DEF Dial, Lapse, Announce, Handshake, OnEnvelope, Keep, Break, Crash, ghosts
    <3>4. ASSUME UNCHANGED vars PROVE refused \subseteq refused'
      BY <3>4 DEF vars, ghosts
    <3>5. ASSUME NEW r \in inbox, NEW b \in {"unreadable", "garbled"}, Damage(r, b)
          PROVE  refused \subseteq refused'
      BY <3>5 DEF Damage, ghosts
    <3> QED
      BY <3>1, <3>2, <3>3, <3>4, <3>5 DEF Next
  <2> QED
    BY <1>m, <1>2, <2>1 DEF Accounted
<1>3. ASSUME NEW k \in Conns, NEW f \in ToSet(down[k]), f.msg = m PROVE m \in Accounted'
  <2>1. PICK i \in 1 .. Len(down[k]) : down[k][i] = f
    BY <1>t, ElementFacts DEF ToSet, Types
  <2>2. f \in GenuineFrames /\ f \in DownFrames
    BY <2>1 DEF Inv, FramesAreGenuine, GenuineFrames
  <2>3. CASE f.kind = "live"
    BY <1>3, <2>1, <2>3, LiveStays
  <2>4. CASE f.kind \in Queued
    BY <1>m, <1>3, <2>2, <2>4, HeldStays DEF GenuineFrames
  <2>5. f.kind # "ack"
    BY <1>m, <1>3, <2>2, DownFacts, DeliveryAssumption
  <2> QED
    BY <2>2, <2>3, <2>4, <2>5, DownFacts DEF Queued
<1> QED
  BY <1>1, <1>2, <1>3 DEF Accounted, Present

\* A dispatch ends with the message refused, on its way, held, or a cause.
LEMMA DoneIsAccounted ==
  ASSUME Inv, [Next]_vars, NEW m \in Messages, stage'[m] = "done"
  PROVE  stage[m] = "done" \/ m \in Accounted'
<1>t. Types /\ Types'
  BY TypesStep DEF Inv
<1>1. ASSUME NEW n \in Messages, Refuse(n) PROVE stage'[m] = stage[m] \/ m \in Accounted'
  BY <1>t, <1>1 DEF Refuse, Types, Accounted
<1>2. ASSUME NEW n \in Messages, NEW b \in BOOLEAN, Dispatch(n, b)
      PROVE  stage'[m] = stage[m] \/ m \in Accounted'
  <2>1. CASE m # n
    BY <1>t, <1>2, <2>1 DEF Dispatch, Types
  <2>2. CASE m = n
    <3>1. b /\ routes = {}
      BY <1>t, <1>2, <2>2 DEF Dispatch, Types
    <3>2. Blame({m}, "empty room")
      BY <1>2, <2>2, <3>1 DEF Dispatch
    <3>3. cause'[m] # {}
      BY <3>2 DEF Blame
    <3> QED
      BY <3>3 DEF Accounted
  <2> QED
    BY <2>1, <2>2
<1>3. ASSUME NEW n \in Messages, Unroutable(n) PROVE stage'[m] = stage[m] \/ m \in Accounted'
  <2>1. CASE m # n
    BY <1>t, <1>3, <2>1 DEF Unroutable, Types
  <2>2. CASE m = n
    <3>1. m \in refused' \/ Row(next, m) \in inbox' \/ Blame({m}, "hold failed")
      BY <1>3, <2>2 DEF Unroutable
    <3>2. Row(next, m).msg = m
      BY DEF Row
    <3>3. Blame({m}, "hold failed") => cause'[m] # {}
      BY DEF Blame
    <3> QED
      BY <3>1, <3>2, <3>3 DEF Accounted, Present
  <2> QED
    BY <2>1, <2>2
<1>4. ASSUME NEW n \in Messages, NEW k \in Conns, WriteLive(n, k)
      PROVE  stage'[m] = stage[m] \/ m \in Accounted'
  <2>1. CASE m # n
    BY <1>t, <1>4, <2>1 DEF WriteLive, Types
  <2>2. CASE m = n /\ link[k] # "up"
    <3>1. Blame({m}, "dead socket")
      BY <1>4, <2>2 DEF WriteLive
    <3>2. cause'[m] # {}
      BY <3>1 DEF Blame
    <3> QED
      BY <3>2 DEF Accounted
  <2>3. CASE m = n /\ link[k] = "up"
    <3>1. Live(m) \in DownFrames /\ Live(m).msg = m /\ Write(k, Live(m))
      BY <1>4, <2>3, DownFacts DEF WriteLive
    <3>2. /\ Len(down[k]) + 1 \in 1 .. Len(down'[k])
          /\ down'[k][Len(down[k]) + 1] = Live(m)
      BY <1>t, <2>3, <3>1, PutFacts
    <3> QED
      BY <1>t, <3>1, <3>2, OnItsWay
  <2> QED
    BY <2>1, <2>2, <2>3
<1>5. ASSUME NEW k \in Conns,
             \/ AddRoute(k) \/ HandleHello(k) \/ WriteReplay(k) \/ HandleQueueAck(k)
             \/ RemoveRoute(k) \/ ConnectionLost(k)
      PROVE  UNCHANGED stage
  BY <1>5 DEF AddRoute, HandleHello, WriteReplay, HandleQueueAck, RemoveRoute, ConnectionLost
<1>6. ASSUME Dial \/ Lapse \/ Announce \/ Handshake \/ OnEnvelope \/ Keep \/ Break \/ Crash
      PROVE  UNCHANGED stage
  BY <1>6 DEF Dial, Lapse, Announce, Handshake, OnEnvelope, Keep, Break, Crash, coordinator
<1>7. ASSUME UNCHANGED vars PROVE UNCHANGED stage
  BY <1>7 DEF vars, coordinator
<1>8. ASSUME NEW r \in inbox, NEW b \in {"unreadable", "garbled"}, Damage(r, b) PROVE UNCHANGED stage
  BY <1>8 DEF Damage
<1> QED
  BY <1>1, <1>2, <1>3, <1>4, <1>5, <1>6, <1>7, <1>8 DEF Next

\* A loss has a cause.
LEMMA LossStep == Inv /\ [Next]_vars => LossHasCause'
<1> SUFFICES ASSUME Inv, [Next]_vars, NEW m \in Messages, stage'[m] = "done"
             PROVE  m \in Accounted'
  BY DEF LossHasCause, Accounted
<1>1. ASSUME stage[m] = "done" PROVE m \in Accounted
  BY <1>1 DEF Inv, LossHasCause, Accounted
<1> QED
  BY <1>1, DoneIsAccounted, AccountedStays

-----------------------------------------------------------------------------
(* Theorems *)

LEMMA InvInit == Init => Inv
<1> SUFFICES ASSUME Init PROVE Inv
  OBVIOUS
<1>0. /\ \A k \in Conns : Len(up[k]) = 0 /\ Len(down[k]) = 0
      /\ \A k \in Conns : replay[k] = {} /\ link[k] = "none" /\ handler[k] = "none"
      /\ \A k \in Conns : up[k] = <<>> /\ down[k] = <<>>
      /\ session = 0 /\ acked = 0 /\ highest = 0 /\ next = 1 /\ inbox = {} /\ conns = 0
  BY DEF Init
<1>z. 0 \notin Conns
  BY DeliveryAssumption DEF Conns
<1>1. Types
  <2>1. greeted \in BOOLEAN /\ online \in BOOLEAN
    BY Zenon DEF Init
  <2>2. up \in [Conns -> Seq(UpFrames)] /\ down \in [Conns -> Seq(DownFrames)]
    BY EmptySeq DEF Init
  <2>3. conns \in 0 .. MaxConns /\ session \in 0 .. MaxConns
    BY <1>0, DeliveryAssumption
  <2> QED
    BY <2>1, <2>2, <2>3 DEF Init, Types, Stages, Phases
<1>2. Bounded
  <2>1. IsFiniteSet({}) /\ Cardinality({}) = 0
    BY FS_EmptySet
  <2> QED
    BY <1>0, <2>1, DeliveryAssumption DEF Bounded
<1>3. RowsArePlaced
  BY <1>0 DEF RowsArePlaced
<1>4. Connected
  BY <1>0, <1>z DEF Connected, Init
<1>5. ShownIsKept /\ ErasedIsProcessed
  BY DEF Init, ShownIsKept, ErasedIsProcessed
<1>6. GivenIsSafe
  BY <1>0 DEF GivenIsSafe, SafePositions
<1>7. FramesAreGenuine /\ HelloFirst /\ AckFirst /\ NothingOvertakes /\ Ascending
  BY <1>0 DEF FramesAreGenuine, HelloFirst, AckFirst, NothingOvertakes, Ascending
<1>8. ReplayIsSuffix /\ LossHasCause
  BY DEF Init, ReplayIsSuffix, LossHasCause
<1> QED
  BY <1>1, <1>2, <1>3, <1>4, <1>5, <1>6, <1>7, <1>8 DEF Inv

\* The invariant holds of every behaviour.
THEOREM InvHolds == Spec => []Inv
<1>1. Inv /\ [Next]_vars => Inv'
  BY TypesStep, BoundedStep, RowsStep, ConnectedStep, ShownStep, GivenStep, FramesStep, HelloStep,
     AckStep, OvertakesStep, AscendingStep, SuffixStep, ErasedStep, LossStep DEF Inv
<1> QED
  BY <1>1, InvInit, PTL DEF Spec

\* ReplayIsExact: whatever connections overlap, break and come back, a session
\* is replayed the suffix behind the position its client gave, after the
\* HelloAck (handleHello).
THEOREM ReplayIsExactHolds == Spec => []ReplayIsExact
<1>1. Inv => ReplayIsExact
  <2> SUFFICES ASSUME Inv PROVE ReplayIsExact
    OBVIOUS
  <2>t. Types
    BY DEF Inv
  <2>1. TypeOK
    <3>1. acked \in 0 .. next - 1
      BY DEF Inv, Types, GivenIsSafe, SafePositions
    <3> QED
      BY <2>t, <3>1 DEF Inv, Bounded, Types, TypeOK
  <2>2. ReplayFollowsAck
    <3> SUFFICES ASSUME session # 0, ~greeted,
                        NEW i \in DOMAIN down[session], NEW j \in DOMAIN down[session],
                        down[session][i].kind = "ack", down[session][j].kind \in Queued
                 PROVE  i < j
      BY DEF ReplayFollowsAck, Queued
    <3>1. DOMAIN down[session] = 1 .. Len(down[session]) /\ Len(down[session]) \in Nat
      BY <2>t, SessionFacts, ElementFacts
    <3>2. PICK a \in 1 .. j - 1 : down[session][a].kind = "ack"
      BY <3>1 DEF Inv, AckFirst
    <3>3. a = i
      BY <3>1, <3>2 DEF Inv, AckFirst
    <3> QED
      BY <3>1, <3>2, <3>3
  <2> QED
    BY <2>1, <2>2 DEF Inv, ReplayIsExact
<1> QED
  BY <1>1, InvHolds, PTL

\* AckCoversProcessed: no acknowledgement, however late or from however old a
\* connection its handler reads it, deletes a row the client has not processed
\* (handleQueueAck).
THEOREM AckCoversProcessedHolds == Spec => []AckCoversProcessed
<1>1. Inv => AckCoversProcessed
  BY DEF Inv, ErasedIsProcessed, Processed, AckCoversProcessed
<1> QED
  BY <1>1, InvHolds, PTL

\* LossHasCause: a message whose dispatch is over is somewhere, was refused, or
\* a copy of it was lost in one of the ways named (handleDirect,
\* deliverUnroutable, handleHello, OnEnvelope).
THEOREM LossHasCauseHolds == Spec => []LossHasCause
<1>1. Inv => LossHasCause
  BY DEF Inv
<1> QED
  BY <1>1, InvHolds, PTL

\* VerdictAfterRoute: a connection that ends takes the device offline only after
\* its route is gone (serveConn's deferred removeRoute, then ConnectionLost).
THEOREM VerdictAfterRouteHolds == Spec => VerdictAfterRoute
<1> DEFINE Verdict == \A k \in Conns : (online /\ ~online' /\ handler'[k] # handler[k]) => k \notin routes'
<1>1. Inv /\ [Next]_vars => Verdict
  <2> SUFFICES ASSUME Inv, [Next]_vars, NEW k \in Conns, online, ~online', handler'[k] # handler[k]
               PROVE  k \notin routes'
    OBVIOUS
  <2>t. Types /\ Connected
    BY DEF Inv
  <2>1. ASSUME NEW j \in Conns, ConnectionLost(j) PROVE k \notin routes'
    <3>1. handler[j] = "leaving" /\ handler' = [handler EXCEPT ![j] = "gone"] /\ UNCHANGED routes
      BY <2>1 DEF ConnectionLost
    <3>2. k = j
      BY <2>t, <3>1 DEF Types
    <3> QED
      BY <2>t, <3>1, <3>2 DEF Connected
  <2>2. ASSUME NEW m \in Messages,
               \/ Refuse(m) \/ Dispatch(m, TRUE) \/ Dispatch(m, FALSE) \/ Unroutable(m)
               \/ \E j \in Conns : WriteLive(m, j)
        PROVE  UNCHANGED handler
    BY <2>2 DEF Refuse, Dispatch, Unroutable, WriteLive
  <2>3. ASSUME NEW j \in Conns,
               AddRoute(j) \/ HandleHello(j) \/ WriteReplay(j) \/ HandleQueueAck(j) \/ RemoveRoute(j)
        PROVE  UNCHANGED online
    BY <2>3 DEF AddRoute, HandleHello, WriteReplay, HandleQueueAck, RemoveRoute
  <2>4. ASSUME Lapse \/ Announce \/ Handshake \/ OnEnvelope \/ Keep \/ Break \/ Crash
        PROVE  UNCHANGED handler
    BY <2>4 DEF Lapse, Announce, Handshake, OnEnvelope, Keep, Break, Crash, coordinator
  <2>5. ~Dial
    BY Zenon DEF Dial
  <2>6. ~ UNCHANGED vars
    BY DEF vars, coordinator
  <2>7. ASSUME NEW r \in inbox, NEW b \in {"unreadable", "garbled"}, Damage(r, b) PROVE UNCHANGED handler
    BY <2>7 DEF Damage
  <2> QED
    BY <2>1, <2>2, <2>3, <2>4, <2>5, <2>6, <2>7 DEF Next
<1> QED
  BY <1>1, InvHolds, PTL DEF Spec, VerdictAfterRoute

=============================================================================
