------------------------------- MODULE Cadence ------------------------------
(***************************************************************************)
(* The heartbeat between a client and its coordinator, in time: the beat   *)
(* loop and the silence deadline of internal/control's Watchdog, the       *)
(* coordinator's answer, and the lease of internal/coordinator/presence.   *)
(* ControlClient and PresenceTracker have the same parts without time.     *)
(*                                                                         *)
(* A timer fires when its time comes; the goroutine that waits for it runs *)
(* up to Lag later.  Frames keep their order and take up to Latency each   *)
(* way, except while the link is stalled, when they take as long as that   *)
(* lasts.  The connection starts at time 0.                                *)
(***************************************************************************)
EXTENDS Integers, Sequences

CONSTANTS
  HeartbeatPeriod,   \* Config.HeartbeatPeriod
  DeadPeerInterval,  \* Config.DeadPeerInterval
  TTL,               \* the coordinator's WALKIE_PRESENCE_TTL
  Lag,               \* longest time a goroutine waits to be scheduled
  Latency,           \* longest time a frame takes on a link that works
  MaxNow             \* bound: the time the model runs to

\* Config.validate, as far as the watchdog's intervals go.
Valid ==
  /\ HeartbeatPeriod > 0
  /\ DeadPeerInterval > HeartbeatPeriod

\* What the constants have to satisfy; every instance assumes it.
CadenceAssumption ==
  /\ {HeartbeatPeriod, DeadPeerInterval, TTL, Lag, Latency, MaxNow} \subseteq Nat
  /\ Valid

VARIABLES
  now,
  next,       \* Watchdog.nextBeat, and the time hbTimer fires
  sendBy,     \* the beat loop is between arming and sending, and sends by then
  beats,      \* heartbeats sent
  up, down,   \* send times of the heartbeats and of the answers on their way
  gen,        \* Watchdog.gen
  heard,      \* the time of the last inbound frame, which armed the deadline
  committed,  \* generations whose deadline fired and whose watcher has not run
  verdict,    \* "alive", or "dead" once the watchdog has claimed it
  seen,       \* the coordinator's last observation of the device
  online,     \* the coordinator's verdict
  link,       \* "good", "stalled", or "resumed" after a stall
  stalledAt   \* the time of the stall

client == <<next, sendBy, beats, gen, heard, committed, verdict>>
server == <<seen, online>>
wire == <<up, down, link, stalledAt>>
vars == <<now, client, server, wire>>

NoSend == -1
Sending == sendBy # NoSend
Deadline == heard + DeadPeerInterval

-----------------------------------------------------------------------------
(* The watchdog *)

\* The next beat is one period from now.
NextSlotFromNow == now + HeartbeatPeriod

\* One slot more than those that have passed is skipped.
NextSlotSkipsOne == next + HeartbeatPeriod * ((now - next) \div HeartbeatPeriod + 2)

\* The next slot of start + k * period that lies after now.
NextSlot == next + HeartbeatPeriod * ((now - next) \div HeartbeatPeriod + 1)

\* The loop wakes and arms the next slot before it sends.
BeatArm ==
  /\ verdict = "alive" /\ ~Sending /\ next <= now
  /\ sendBy' = next + Lag
  /\ next' = NextSlot
  /\ UNCHANGED <<now, beats, gen, heard, committed, verdict, server, wire>>

\* A fresh deadline with a fresh generation.
armDeadlineLocked ==
  /\ gen' = gen + 1
  /\ heard' = now

\* The watchdog takes its own heartbeat for a sign of life.
BeatSendArms ==
  /\ verdict = "alive" /\ Sending
  /\ up' = Append(up, now)
  /\ beats' = beats + 1
  /\ sendBy' = NoSend
  /\ armDeadlineLocked
  /\ UNCHANGED <<now, next, committed, verdict, server, down, link, stalledAt>>

BeatSend ==
  /\ verdict = "alive" /\ Sending
  /\ up' = Append(up, now)
  /\ beats' = beats + 1
  /\ sendBy' = NoSend
  /\ UNCHANGED <<now, next, gen, heard, committed, verdict, server, down, link, stalledAt>>

\* The silence deadline fires; its watcher runs a moment later.
DeadlineFires ==
  /\ verdict = "alive" /\ Deadline <= now /\ gen \notin committed
  /\ committed' = committed \cup {gen}
  /\ UNCHANGED <<now, next, sendBy, beats, gen, heard, verdict, server, wire>>

\* watchDead that does not compare its generation.
WatchDeadUnchecked(g) ==
  /\ g \in committed
  /\ committed' = committed \ {g}
  /\ verdict' = "dead"
  /\ UNCHANGED <<now, next, sendBy, beats, gen, heard, server, wire>>

\* watchDead: a fire that newer activity has overtaken expires nothing.
WatchDead(g) ==
  /\ g \in committed
  /\ committed' = committed \ {g}
  /\ verdict' = IF g = gen THEN "dead" ELSE verdict
  /\ UNCHANGED <<now, next, sendBy, beats, gen, heard, server, wire>>

\* The read loop receives an answer: Activity, unless the watchdog is retired.
PongArrives ==
  /\ link # "stalled" /\ down # <<>>
  /\ down' = Tail(down)
  /\ IF verdict = "alive" THEN armDeadlineLocked ELSE UNCHANGED <<gen, heard>>
  /\ UNCHANGED <<now, next, sendBy, beats, committed, verdict, server, up, link, stalledAt>>

-----------------------------------------------------------------------------
(* The coordinator and the link *)

\* dispatch: the device is alive, and the heartbeat is answered.
BeatArrives ==
  /\ link # "stalled" /\ up # <<>>
  /\ up' = Tail(up)
  /\ down' = Append(down, now)
  /\ seen' = now /\ online' = TRUE
  /\ UNCHANGED <<now, client, link, stalledAt>>

Expire ==
  /\ online /\ seen + TTL <= now
  /\ online' = FALSE
  /\ UNCHANGED <<now, client, seen, wire>>

Stall ==
  /\ link = "good"
  /\ link' = "stalled" /\ stalledAt' = now
  /\ UNCHANGED <<now, client, server, up, down>>

Resume ==
  /\ link = "stalled"
  /\ link' = "resumed"
  /\ UNCHANGED <<now, client, server, up, down, stalledAt>>

-----------------------------------------------------------------------------
OnTime(feed) == feed # <<>> /\ link # "stalled" => now < Head(feed) + Latency

\* Time passes when nothing has to happen first.
Tick ==
  /\ now < MaxNow
  /\ verdict = "alive" =>
       /\ Sending => now < sendBy
       /\ ~Sending => now < next + Lag
       /\ Deadline <= now => gen \in committed /\ now < Deadline + Lag
  /\ OnTime(up) /\ OnTime(down)
  /\ online => now < seen + TTL + Lag
  /\ now' = now + 1
  /\ UNCHANGED <<client, server, wire>>

Init ==
  /\ now = 0 /\ next = HeartbeatPeriod /\ sendBy = NoSend /\ beats = 0
  /\ up = <<>> /\ down = <<>>
  /\ gen = 1 /\ heard = 0 /\ committed = {} /\ verdict = "alive"
  /\ seen = 0 /\ online = TRUE
  /\ link = "good" /\ stalledAt = 0

Next ==
  \/ BeatArm \/ BeatSend \/ DeadlineFires \/ \E g \in committed : WatchDead(g)
  \/ PongArrives \/ BeatArrives \/ Expire
  \/ Stall \/ Resume \/ Tick

Spec == Init /\ [][Next]_vars

-----------------------------------------------------------------------------
(* Properties *)

TypeOK ==
  /\ now \in 0 .. MaxNow
  /\ next \in 1 .. (MaxNow + HeartbeatPeriod)
  /\ sendBy \in {NoSend} \cup 0 .. (MaxNow + Lag)
  /\ beats \in 0 .. MaxNow
  /\ up \in Seq(0 .. now) /\ down \in Seq(0 .. now)
  /\ heard \in 0 .. now /\ seen \in 0 .. now
  /\ committed \subseteq 1 .. gen
  /\ verdict \in {"alive", "dead"} /\ online \in BOOLEAN
  /\ link \in {"good", "stalled", "resumed"} /\ stalledAt \in 0 .. now

\* The intervals leave room for the schedule and for the link.
Provisioned ==
  /\ DeadPeerInterval > HeartbeatPeriod + Lag + 2 * Latency
  /\ TTL > HeartbeatPeriod + Lag + Latency

\* On a link that works neither side ever gives the other up, even when nothing
\* but heartbeats is on it.
NoFalseAlarm ==
  Provisioned /\ link = "good" => verdict = "alive" /\ online

\* The watchdog declares the peer dead only after a whole interval of silence,
\* whatever deadlines of earlier frames fired in the meantime.
VerdictIsTrue ==
  [][verdict' # verdict => heard + DeadPeerInterval <= now]_vars

\* Every period has its beat: a slow loop delays beats and loses none, and
\* never sends one ahead of its slot.
CadenceIsExact ==
  Lag < HeartbeatPeriod /\ verdict = "alive" =>
    /\ beats <= now \div HeartbeatPeriod
    /\ ~Sending /\ next > now => beats = next \div HeartbeatPeriod - 1

\* A peer that falls silent is noticed within the interval, and a device that
\* does within the TTL.
SilenceIsNoticed ==
  link = "stalled" =>
    /\ now > stalledAt + DeadPeerInterval + Lag => verdict = "dead"
    /\ now > stalledAt + TTL + Lag => ~online

\* Watchdog and lease are right: no alarm while the link works and
\* goroutines are late by Lag at most, none late when it does not.
AlarmsAreRight ==
  /\ []TypeOK
  /\ []NoFalseAlarm
  /\ []SilenceIsNoticed
  /\ []CadenceIsExact
  /\ VerdictIsTrue
=============================================================================
