---------------------------- MODULE ControlClient ----------------------------
(***************************************************************************)
(* internal/control: the device's connection to its coordinator.           *)
(*                                                                         *)
(* One supervisor goroutine dials, shakes hands, serves a session until it *)
(* dies and backs off.  A served session has a read loop and a watchdog    *)
(* with two goroutines of its own: the silence deadline and the heartbeat. *)
(* All of them drive one Machine, whose Transition panics on an edge that  *)
(* its table does not have.  Stop runs on the caller's goroutine, and in   *)
(* cmd/walkie the Machine is closed before it.                             *)
(*                                                                         *)
(* Time is abstract: a timer that is armed may fire at any moment.  Frames *)
(* are not told apart, except for the HelloAck that ends a handshake.      *)
(***************************************************************************)
EXTENDS Integers, FiniteSets

CONSTANTS
  MaxSessions,  \* bound: dial attempts, which number the sessions
  CloseFirst    \* TRUE when the owner calls Machine.Close before Stop

ASSUME ClientAssumption ==
  /\ MaxSessions \in Nat \ {0}
  /\ CloseFirst \in BOOLEAN

Sessions == 1 .. MaxSessions

VARIABLES
  state,      \* Machine.cur
  closed,     \* Machine.closed
  panicked,   \* an illegal transition has crashed the process
  owed,       \* changes not yet read from the client's subscription
  outClosed,  \* the pump has closed the subscription's channel
  sup,        \* where the supervisor (run, handshake, serve) is
  stop,       \* where the caller of Stop is
  cur,        \* the dial attempt in progress, or the last one
  sess,       \* c.sess, 0 for nil
  inflight,   \* c.inflight, 0 for nil
  reply,      \* TRUE when a HelloAck waits in the handshake's replies channel
  conn,       \* conn[i]: the transport of session i
  stopped,    \* stopped[i]: Watchdog.stopped of session i
  reader,     \* reader[i]: the read loop
  dog,        \* dog[i]: watchDead of the current generation
  beat        \* beat[i]: the heartbeat loop

machine == <<state, owed, panicked>>
client == <<sup, cur, sess, inflight, reply>>
session == <<conn, stopped, reader, dog, beat>>
shutdown == <<closed, outClosed, stop>>
vars == <<machine, client, session, shutdown>>

-----------------------------------------------------------------------------
(* The machine *)

legalTransitions ==
  [disconnected |-> {"connecting"},
   connecting   |-> {"handshaking", "disconnected"},
   handshaking  |-> {"online", "disconnected"},
   online       |-> {"degraded", "disconnected"},
   degraded     |-> {"disconnected"}]

States == DOMAIN legalTransitions

\* Machine.Transition: refused once closed, a no-op on the same state, and
\* otherwise a legal edge or a panic.
Transition(to) ==
  \/ /\ closed \/ state = to
     /\ UNCHANGED machine
  \/ /\ ~closed
     /\ to \in legalTransitions[state]
     /\ state' = to
     /\ owed' = owed + 1
     /\ UNCHANGED panicked
  \/ /\ ~closed
     /\ to \notin legalTransitions[state] \cup {state}
     /\ panicked' = TRUE
     /\ UNCHANGED <<state, owed>>

Alive == ~panicked

\* Machine.Close, which no transition gets past.
MachineClose ==
  /\ Alive /\ CloseFirst
  /\ ~closed
  /\ closed' = TRUE
  /\ UNCHANGED <<machine, client, session, outClosed, stop>>

\* The pump has flushed what is owed into the channel and closes it.
PumpEnds ==
  /\ Alive /\ closed
  /\ ~outClosed
  /\ outClosed' = TRUE
  /\ UNCHANGED <<machine, client, session, closed, stop>>

-----------------------------------------------------------------------------
(* Stop *)

quit == stop # "idle"                          \* c.quit is closed
cancelled == stop \notin {"idle", "cancel"}    \* ctx.Err() # nil

CloseConn(i) == conn' = [conn EXCEPT ![i] = "closed"]

StopQuit ==
  /\ Alive /\ stop = "idle"
  /\ CloseFirst => closed
  /\ stop' = "cancel"
  /\ UNCHANGED <<machine, client, session, closed, outClosed>>

StopCancel ==
  /\ Alive /\ stop = "cancel"
  /\ stop' = "snapshot"
  /\ UNCHANGED <<machine, client, session, closed, outClosed>>

\* Close the connections found under c.mu: the installed and the inflight one.
\* Variant StopSnapshotInflight: the installed one is forgotten.
StopSnapshotInflight ==
  /\ Alive /\ stop = "snapshot"
  /\ conn' = [i \in Sessions |-> IF i = inflight THEN "closed" ELSE conn[i]]
  /\ stop' = "joining"
  /\ UNCHANGED <<machine, client, stopped, reader, dog, beat, closed, outClosed>>
StopSnapshot ==
  /\ Alive /\ stop = "snapshot"
  /\ conn' = [i \in Sessions |-> IF i \in {sess, inflight} THEN "closed" ELSE conn[i]]
  /\ stop' = "joining"
  /\ UNCHANGED <<machine, client, stopped, reader, dog, beat, closed, outClosed>>

StopReturn ==
  /\ Alive /\ stop = "joining"
  /\ sup = "done"
  /\ stop' = "returned"
  /\ UNCHANGED <<machine, client, session, closed, outClosed>>

-----------------------------------------------------------------------------
(* The supervisor *)

\* The attempt is over: leave when stopped, else record it and back off.
GiveUp ==
  \/ /\ cancelled
     /\ sup' = "done"
     /\ UNCHANGED machine
  \/ /\ ~cancelled
     /\ Transition("disconnected")
     /\ sup' = "backoff"

Dial ==
  /\ Alive /\ sup = "top"
  /\ \/ /\ cancelled \/ closed
        /\ sup' = "done"
        /\ UNCHANGED <<machine, cur>>
     \/ /\ ~cancelled
        /\ ~closed
        /\ Transition("connecting")
        /\ sup' = "dialing"
        /\ cur' = cur + 1
  /\ UNCHANGED <<sess, inflight, reply, session, shutdown>>

DialFails ==
  /\ Alive /\ sup = "dialing"
  /\ GiveUp
  /\ UNCHANGED <<cur, sess, inflight, reply, session, shutdown>>

\* The dial returns a session, cancelled or not.
\* Variant DialedLeaks: the refused session is not closed.
DialedLeaks ==
  /\ Alive /\ sup = "dialing"
  /\ Transition("handshaking")
  /\ sup' = IF closed THEN "done" ELSE "dialed"
  /\ conn' = [conn EXCEPT ![cur] = "open"]
  /\ UNCHANGED <<cur, sess, inflight, reply, stopped, reader, dog, beat, shutdown>>
Dialed ==
  /\ Alive /\ sup = "dialing"
  /\ Transition("handshaking")
  /\ sup' = IF closed THEN "done" ELSE "dialed"
  /\ conn' = [conn EXCEPT ![cur] = IF closed THEN "closed" ELSE "open"]
  /\ UNCHANGED <<cur, sess, inflight, reply, stopped, reader, dog, beat, shutdown>>

SetInflight ==
  /\ Alive /\ sup = "dialed"
  /\ inflight' = cur
  /\ sup' = "handshake"
  /\ UNCHANGED <<machine, cur, sess, reply, session, shutdown>>

\* The Hello is answered; the helper goroutine holds the reply.
HelloAckArrives ==
  /\ Alive /\ sup = "handshake"
  /\ conn[cur] = "open"
  /\ ~reply
  /\ reply' = TRUE
  /\ UNCHANGED <<machine, sup, cur, sess, inflight, session, shutdown>>

\* A timeout, a refusal, a dead transport, or c.quit: the last is always
\* possible once closed, whatever else the select could take.
HandshakeFails ==
  /\ Alive /\ sup = "handshake"
  /\ CloseConn(cur)
  /\ inflight' = 0
  /\ reply' = FALSE
  /\ GiveUp
  /\ UNCHANGED <<cur, sess, stopped, reader, dog, beat, shutdown>>

\* The select takes the reply, even when c.quit is closed too.
HandshakeOK ==
  /\ Alive /\ sup = "handshake"
  /\ reply
  /\ reply' = FALSE
  /\ sup' = "acked"
  /\ UNCHANGED <<machine, cur, sess, inflight, session, shutdown>>

InstallSession ==
  /\ Alive /\ sup = "acked"
  /\ sess' = cur
  /\ inflight' = 0
  /\ sup' = "installed"
  /\ UNCHANGED <<machine, cur, reply, session, shutdown>>

GoOnline ==
  /\ Alive /\ sup = "installed"
  /\ Transition("online")
  /\ \/ closed /\ CloseConn(cur) /\ sup' = "done"
     \/ ~closed /\ sup' = "drain" /\ UNCHANGED conn
  /\ UNCHANGED <<cur, sess, inflight, reply, stopped, reader, dog, beat, shutdown>>

\* serve's drain: take what the pump has delivered.  A closed channel is
\* always ready, and then the loop only spins.
DrainTake ==
  /\ Alive /\ sup = "drain"
  /\ \/ owed > 0 /\ owed' = owed - 1
     \/ owed = 0 /\ outClosed /\ UNCHANGED owed
  /\ UNCHANGED <<state, panicked, client, session, shutdown>>

\* The drain's default case; the watchdog and the read loop start.  Changes
\* the pump has not delivered yet are still owed.
ServeStart ==
  /\ Alive /\ sup = "drain"
  /\ ~outClosed
  /\ sup' = "serving"
  /\ reader' = [reader EXCEPT ![cur] = "recv"]
  /\ dog' = [dog EXCEPT ![cur] = "watch"]
  /\ beat' = [beat EXCEPT ![cur] = "beat"]
  /\ UNCHANGED <<machine, cur, sess, inflight, reply, conn, stopped, shutdown>>

\* A change (or the closed channel) is a hint; the machine's state decides.
\* Variant ServeHintIdle: the hint is read and nothing is torn down.
ServeHintIdle ==
  /\ Alive /\ sup = "serving"
  /\ \/ owed > 0 /\ owed' = owed - 1
     \/ owed = 0 /\ outClosed /\ UNCHANGED owed
  /\ UNCHANGED <<state, panicked, client, session, shutdown>>
ServeHint ==
  /\ Alive /\ sup = "serving"
  /\ \/ owed > 0 /\ owed' = owed - 1
     \/ owed = 0 /\ outClosed /\ UNCHANGED owed
  /\ \/ /\ state \in {"degraded", "disconnected"}
        /\ stopped' = [stopped EXCEPT ![cur] = TRUE]
        /\ CloseConn(cur)
     \/ /\ state \notin {"degraded", "disconnected"}
        /\ UNCHANGED <<stopped, conn>>
  /\ UNCHANGED <<state, panicked, client, reader, dog, beat, shutdown>>

\* sessDone is closed: tear down, detach the session, back off or leave.
ServeDone ==
  /\ Alive /\ sup = "serving"
  /\ reader[cur] = "done"
  /\ stopped' = [stopped EXCEPT ![cur] = TRUE]
  /\ CloseConn(cur)
  /\ sess' = 0
  /\ sup' = IF cancelled THEN "done" ELSE "backoff"
  /\ UNCHANGED <<machine, cur, inflight, reply, reader, dog, beat, shutdown>>

BackoffOver ==
  /\ Alive /\ sup = "backoff"
  /\ cur < MaxSessions
  /\ sup' = "top"
  /\ UNCHANGED <<machine, cur, sess, inflight, reply, session, shutdown>>

BackoffQuit ==
  /\ Alive /\ sup = "backoff"
  /\ quit
  /\ sup' = "done"
  /\ UNCHANGED <<machine, cur, sess, inflight, reply, session, shutdown>>

-----------------------------------------------------------------------------
(* The network, external to the client *)

\* The transport fails: a write or a read reports it.
ConnBreaks(i) ==
  /\ Alive /\ conn[i] \in {"open", "silent"}
  /\ conn' = [conn EXCEPT ![i] = "broken"]
  /\ UNCHANGED <<machine, client, stopped, reader, dog, beat, shutdown>>

\* The peer is gone and the socket stays open: writes succeed, reads block.
ConnFallsSilent(i) ==
  /\ Alive /\ conn[i] = "open"
  /\ conn' = [conn EXCEPT ![i] = "silent"]
  /\ UNCHANGED <<machine, client, stopped, reader, dog, beat, shutdown>>

Unusable(i) == conn[i] \in {"broken", "closed"}

-----------------------------------------------------------------------------
(* The read loop of session i *)

\* A frame: Watchdog.Activity supersedes a deadline, fired or not.
ReaderFrame(i) ==
  /\ Alive /\ reader[i] = "recv"
  /\ conn[i] = "open"
  /\ dog' = [dog EXCEPT ![i] = IF ~stopped[i] /\ @ = "fired" THEN "watch" ELSE @]
  /\ UNCHANGED <<machine, client, conn, stopped, reader, beat, shutdown>>

\* A read error: SendFailed claims the verdict, or leaves it to its owner.
\* Variant ReaderErrorUnclaimed: the check of w.stopped is missing.
\* Variant ReaderErrorParks: the losing reader does not close sessDone.
ReaderErrorUnclaimed(i) ==
  /\ Alive /\ reader[i] = "recv"
  /\ Unusable(i)
  /\ stopped' = [stopped EXCEPT ![i] = TRUE]
  /\ reader' = [reader EXCEPT ![i] = "verdict"]
  /\ UNCHANGED <<machine, client, conn, dog, beat, shutdown>>
ReaderErrorParks(i) ==
  /\ Alive /\ reader[i] = "recv"
  /\ Unusable(i)
  /\ stopped' = [stopped EXCEPT ![i] = TRUE]
  /\ reader' = [reader EXCEPT ![i] = IF stopped[i] THEN "off" ELSE "verdict"]
  /\ UNCHANGED <<machine, client, conn, dog, beat, shutdown>>
ReaderError(i) ==
  /\ Alive /\ reader[i] = "recv"
  /\ Unusable(i)
  /\ stopped' = [stopped EXCEPT ![i] = TRUE]
  /\ reader' = [reader EXCEPT ![i] = IF stopped[i] THEN "done" ELSE "verdict"]
  /\ UNCHANGED <<machine, client, conn, dog, beat, shutdown>>

ReaderVerdict(i) ==
  /\ Alive /\ reader[i] = "verdict"
  /\ Transition("disconnected")
  /\ reader' = [reader EXCEPT ![i] = "done"]
  /\ UNCHANGED <<client, conn, stopped, dog, beat, shutdown>>

-----------------------------------------------------------------------------
(* The silence deadline of session i (watchDead) *)

DogFires(i) ==
  /\ Alive /\ dog[i] = "watch"
  /\ ~stopped[i]
  /\ dog' = [dog EXCEPT ![i] = "fired"]
  /\ UNCHANGED <<machine, client, conn, stopped, reader, beat, shutdown>>

\* Under w.mu: claim the verdict when nobody has and the machine is online.
\* Variant DogClaimsBlindly: the check of w.stopped is missing.
DogClaimsBlindly(i) ==
  /\ Alive /\ dog[i] = "fired"
  /\ dog' = [dog EXCEPT ![i] = IF state = "online" THEN "degrade" ELSE "gone"]
  /\ stopped' = [stopped EXCEPT ![i] = TRUE]
  /\ UNCHANGED <<machine, client, conn, reader, beat, shutdown>>
DogClaims(i) ==
  /\ Alive /\ dog[i] = "fired"
  /\ ~stopped[i]
  /\ dog' = [dog EXCEPT ![i] = IF state = "online" THEN "degrade" ELSE "gone"]
  /\ stopped' = [stopped EXCEPT ![i] = TRUE]
  /\ UNCHANGED <<machine, client, conn, reader, beat, shutdown>>

\* The watchdog was stopped, or another verdict owns this death.
DogRetires(i) ==
  /\ Alive /\ dog[i] \in {"watch", "fired"}
  /\ stopped[i]
  /\ dog' = [dog EXCEPT ![i] = "gone"]
  /\ UNCHANGED <<machine, client, conn, stopped, reader, beat, shutdown>>

DogDegrades(i) ==
  /\ Alive /\ dog[i] = "degrade"
  /\ Transition("degraded")
  /\ dog' = [dog EXCEPT ![i] = IF closed THEN "gone" ELSE "disconnect"]
  /\ UNCHANGED <<client, conn, stopped, reader, beat, shutdown>>

DogDisconnects(i) ==
  /\ Alive /\ dog[i] = "disconnect"
  /\ Transition("disconnected")
  /\ dog' = [dog EXCEPT ![i] = "gone"]
  /\ UNCHANGED <<client, conn, stopped, reader, beat, shutdown>>

-----------------------------------------------------------------------------
(* The heartbeat of session i (beatLoop); c.send writes to c.sess *)

BeatFails(i) ==
  /\ Alive /\ beat[i] = "beat"
  /\ sess = 0 \/ \E live \in Sessions : live = sess /\ Unusable(live)
  /\ stopped' = [stopped EXCEPT ![i] = TRUE]
  /\ beat' = [beat EXCEPT ![i] = IF stopped[i] THEN "gone" ELSE "verdict"]
  /\ UNCHANGED <<machine, client, conn, reader, dog, shutdown>>

BeatVerdict(i) ==
  /\ Alive /\ beat[i] = "verdict"
  /\ Transition("disconnected")
  /\ beat' = [beat EXCEPT ![i] = "gone"]
  /\ UNCHANGED <<client, conn, stopped, reader, dog, shutdown>>

BeatRetires(i) ==
  /\ Alive /\ beat[i] = "beat"
  /\ stopped[i]
  /\ beat' = [beat EXCEPT ![i] = "gone"]
  /\ UNCHANGED <<machine, client, conn, stopped, reader, dog, shutdown>>

-----------------------------------------------------------------------------
(* The specification *)

\* Start has launched the supervisor.
Init ==
  /\ state = "disconnected"
  /\ closed = FALSE
  /\ panicked = FALSE
  /\ owed = 0
  /\ outClosed = FALSE
  /\ sup = "top"
  /\ stop = "idle"
  /\ cur = 0
  /\ sess = 0
  /\ inflight = 0
  /\ reply = FALSE
  /\ conn = [i \in Sessions |-> "none"]
  /\ stopped = [i \in Sessions |-> FALSE]
  /\ reader = [i \in Sessions |-> "off"]
  /\ dog = [i \in Sessions |-> "off"]
  /\ beat = [i \in Sessions |-> "off"]

SupStep ==
  \/ Dial \/ DialFails \/ Dialed \/ SetInflight
  \/ HandshakeFails \/ HandshakeOK \/ InstallSession \/ GoOnline
  \/ DrainTake \/ ServeStart \/ ServeHint \/ ServeDone
  \/ BackoffOver \/ BackoffQuit

StopStep == StopQuit \/ StopCancel \/ StopSnapshot \/ StopReturn

ReaderEnds(i) == ReaderError(i) \/ ReaderVerdict(i)

DogStep(i) == DogClaims(i) \/ DogRetires(i) \/ DogDegrades(i) \/ DogDisconnects(i)

BeatEnds(i) == BeatFails(i) \/ BeatVerdict(i) \/ BeatRetires(i)

Network == HelloAckArrives \/ \E i \in Sessions : ConnBreaks(i) \/ ConnFallsSilent(i)

SessionStep(i) == ReaderFrame(i) \/ ReaderEnds(i) \/ DogFires(i) \/ DogStep(i) \/ BeatEnds(i)

\* Nothing runs after a panic; a client that has been stopped may rest.
Ended ==
  /\ panicked \/ stop = "returned"
  /\ UNCHANGED vars

Next ==
  \/ SupStep
  \/ StopStep
  \/ MachineClose
  \/ PumpEnds
  \/ Network
  \/ \E i \in Sessions : SessionStep(i)
  \/ Ended

Spec == Init /\ [][Next]_vars

\* The Go scheduler runs a ready goroutine eventually, and an armed deadline
\* fires.  Nothing makes a frame arrive, the network fail or the owner begin
\* to shut down; once the owner has closed the machine it calls Stop, its next
\* defer, and once called, Stop proceeds.
Fairness ==
  /\ WF_vars(SupStep)
  /\ WF_vars(closed /\ StopQuit)
  /\ WF_vars(StopCancel \/ StopSnapshot \/ StopReturn)
  /\ WF_vars(PumpEnds)
  /\ \A i \in Sessions :
       /\ WF_vars(ReaderEnds(i))
       /\ WF_vars(DogFires(i))
       /\ WF_vars(DogStep(i))
       /\ WF_vars(BeatEnds(i))

FairSpec == Spec /\ Fairness

-----------------------------------------------------------------------------
(* Properties *)

\* Every variable stays in its range, and no dial attempt is numbered past the
\* bound.
TypeOK ==
  /\ state \in States
  /\ closed \in BOOLEAN
  /\ panicked \in BOOLEAN
  /\ owed \in Nat
  /\ outClosed \in BOOLEAN
  /\ sup \in {"top", "dialing", "dialed", "handshake", "acked", "installed",
              "drain", "serving", "backoff", "done"}
  /\ stop \in {"idle", "cancel", "snapshot", "joining", "returned"}
  /\ cur \in {0} \cup Sessions
  /\ sess \in {0} \cup Sessions
  /\ inflight \in {0} \cup Sessions
  /\ reply \in BOOLEAN
  /\ conn \in [Sessions -> {"none", "open", "silent", "broken", "closed"}]
  /\ stopped \in [Sessions -> BOOLEAN]
  /\ reader \in [Sessions -> {"off", "recv", "verdict", "done"}]
  /\ dog \in [Sessions -> {"off", "watch", "fired", "degrade", "disconnect", "gone"}]
  /\ beat \in [Sessions -> {"off", "beat", "verdict", "gone"}]

\* Watchdog.SendFailed and watchDead: a silence deadline, a read error and a
\* failed heartbeat that observe the same death are competing verdicts, and one
\* of them at most is ever on its way to the machine.
OneVerdict ==
  \A i \in Sessions :
    LET deadline == dog[i] \in {"degrade", "disconnect"}
    IN  /\ ~(reader[i] = "verdict" /\ deadline)
        /\ ~(reader[i] = "verdict" /\ beat[i] = "verdict")
        /\ ~(beat[i] = "verdict" /\ deadline)

\* run, handshake, serve and Stop between them close every transport they ever
\* got: one that is not closed belongs to the attempt in progress, so neither a
\* redial nor the end of the supervisor leaves a socket behind.
NoConnectionLeaks ==
  \A i \in Sessions :
    conn[i] \in {"open", "silent", "broken"} =>
      /\ i = cur
      /\ sup \in {"dialed", "handshake", "acked", "installed", "drain", "serving"}

\* A verdict that is on its way finds the machine where its own session left
\* it, so a watchdog never drives the machine of a later session: watchDead and
\* SendFailed take legal edges only, whatever the order of the goroutines.
VerdictsStayLegal ==
  \A i \in Sessions :
    \/ panicked
    \/ closed
    \/ /\ dog[i] = "degrade" => i = cur /\ state = "online"
       /\ dog[i] = "disconnect" => i = cur /\ state = "degraded"
       /\ reader[i] = "verdict" \/ beat[i] = "verdict" => i = cur /\ state = "online"

\* The one edge that can be illegal is the supervisor's own dial: no other
\* caller of Transition panics.
OnlyDialPanics == [][panicked' /\ ~panicked => sup = "top"]_vars

\* The illegal-edge panic never turns a race between verdicts into a crash
\* (the comment on SendFailed, and serve's promise that it returns "with the
\* machine already on disconnected").
NoIllegalTransition == ~panicked

\* serve's drain on the channel that the closed machine's pump has closed: it
\* is always ready and the loop never leaves.  The one way for the client to
\* stick that the properties below have to name; DrainEnds says it is none.
SpinsInDrain == sup = "drain" /\ outClosed

\* A session whose transport broke or whose peer fell silent is left: the
\* supervisor tears it down and goes on to back off, or stops.
DeadSessionLeft ==
  \A i \in Sessions :
    conn[i] \in {"silent", "broken"} ~>
      \/ panicked
      \/ SpinsInDrain
      \/ conn[i] = "closed" /\ sup \in {"top", "backoff", "done"}

\* serve is the actuator of the machine's verdicts: a session that is served
\* while the machine says degraded or disconnected does not stay served.
CondemnedTornDown ==
  (sup = "serving" /\ state \in {"degraded", "disconnected"}) ~>
    (panicked \/ sup # "serving")

\* A session that broke, fell silent or was condemned by the machine comes
\* to its end.
SessionsEnd == DeadSessionLeft /\ CondemnedTornDown

\* In the order of cmd/walkie's defers, the machine first, the shutdown ends:
\* wherever Stop meets the supervisor (dialing, holding a connection nobody else
\* names yet, shaking hands, serving, backing off) it returns, unless serve was
\* just then draining.
ClosedMachineStops ==
  closed ~> (panicked \/ SpinsInDrain \/ stop = "returned")

\* "Stop retires the client: the supervisor exits".
StopRetires == quit ~> (panicked \/ sup = "done")

\* serve's drain of old changes comes to an end.
DrainEnds == (sup = "drain") ~> (panicked \/ sup # "drain")
=============================================================================
