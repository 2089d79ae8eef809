--------------------------- MODULE PresenceTracker ---------------------------
(***************************************************************************)
(* internal/coordinator/presence: who is online, as the coordinator sees   *)
(* it.                                                                     *)
(*                                                                         *)
(* Every observation of a device rotates its liveness lease: a fresh timer *)
(* with a fresh watcher goroutine, told apart by a generation.  A watcher  *)
(* whose timer has fired still has to take the mutex, and anything can     *)
(* happen to the device before it does.  Connections of one device overlap *)
(* while it reconnects, so they are counted.                               *)
(*                                                                         *)
(* Every method runs under t.mu and is one step.  Only last-seen times and *)
(* status labels are on disk; time 0 stands for the zero time.Time.        *)
(***************************************************************************)
EXTENDS Integers

CONSTANTS
  Devices,
  Labels,       \* status texts
  NoLabel,      \* the empty text
  TTL,          \* t.ttl
  MaxConns,     \* bound: simultaneous connections of a device
  MaxGen,       \* bound: observations of a device by one process
  MaxTime,      \* bound: the clock stops here, and no lease reaches beyond
  MaxFaults,    \* bound: writes that fail
  MaxRestarts   \* bound: ends of the process

ASSUME TrackerAssumption ==
  /\ NoLabel \in Labels
  /\ TTL \in Nat /\ TTL > 0
  /\ MaxConns \in Nat
  /\ MaxGen \in Nat
  /\ MaxTime \in Nat
  /\ MaxFaults \in Nat
  /\ MaxRestarts \in Nat

VARIABLES
  phase,      \* of the process: "up", "closed" (Tracker.Close has run), "down"
  now,        \* t.clk
  sockets,    \* sockets[d]: connection handlers of d that have not exited
  conns,      \* deviceState.conns
  online,     \* liveness.online
  lastSeen,   \* liveness.lastSeen
  gen,        \* liveness.gen
  lease,      \* when liveness.timer fires, 0 for nil or fired
  fires,      \* fires[d]: generations of d whose watcher is past its timer
  label,      \* statusLabel.text
  diskSeen,   \* table presence_liveness, 0 for no row
  diskLabel,  \* table presence_status, NoLabel for no row
  faults,
  restarts

memory == <<conns, online, lastSeen, gen, lease>>
disk == <<diskSeen, diskLabel>>
vars == <<phase, now, sockets, memory, fires, label, disk, faults, restarts>>

-----------------------------------------------------------------------------
(* Helpers that run under t.mu *)

\* saveLiveness: a failed write is logged and forgotten.
SaveLiveness(d, seen) ==
  \/ /\ diskSeen' = [diskSeen EXCEPT ![d] = seen]
     /\ UNCHANGED faults
  \/ /\ faults < MaxFaults
     /\ faults' = faults + 1
     /\ UNCHANGED diskSeen

\* markAliveLocked: record the observation and rotate the lease.
\* Variant MarkAliveKeepsLease: an old lease is left to run.
MarkAliveKeepsLease(d) ==
  /\ gen[d] < MaxGen
  /\ now + TTL <= MaxTime
  /\ lastSeen' = [lastSeen EXCEPT ![d] = now]
  /\ gen' = [gen EXCEPT ![d] = @ + 1]
  /\ lease' = [lease EXCEPT ![d] = IF @ = 0 THEN now + TTL ELSE @]
  /\ online' = [online EXCEPT ![d] = TRUE]
  /\ SaveLiveness(d, now)
MarkAlive(d) ==
  /\ gen[d] < MaxGen
  /\ now + TTL <= MaxTime
  /\ lastSeen' = [lastSeen EXCEPT ![d] = now]
  /\ gen' = [gen EXCEPT ![d] = @ + 1]
  /\ lease' = [lease EXCEPT ![d] = now + TTL]
  /\ online' = [online EXCEPT ![d] = TRUE]
  /\ SaveLiveness(d, now)

\* markOfflineLocked: end the online period, last seen at the given time.
\* Variant MarkOfflineAtGrant: last seen when the lease was granted.
MarkOfflineAtGrant(d, seen) ==
  /\ online' = [online EXCEPT ![d] = FALSE]
  /\ lastSeen' = [lastSeen EXCEPT ![d] = lease[d] - TTL]
  /\ lease' = [lease EXCEPT ![d] = 0]
  /\ SaveLiveness(d, lease[d] - TTL)
  /\ UNCHANGED gen
MarkOffline(d, seen) ==
  /\ online' = [online EXCEPT ![d] = FALSE]
  /\ lastSeen' = [lastSeen EXCEPT ![d] = seen]
  /\ lease' = [lease EXCEPT ![d] = 0]
  /\ SaveLiveness(d, seen)
  /\ UNCHANGED gen

-----------------------------------------------------------------------------
(* Connection handlers *)

ConnectionEstablished(d) ==
  /\ phase = "up"
  /\ sockets[d] < MaxConns
  /\ sockets' = [sockets EXCEPT ![d] = @ + 1]
  /\ conns' = [conns EXCEPT ![d] = @ + 1]
  /\ MarkAlive(d)
  /\ UNCHANGED <<phase, now, fires, label, diskLabel, restarts>>

\* A heartbeat read by a connection handler.
ObserveHeartbeat(d) ==
  /\ phase = "up"
  /\ sockets[d] > 0
  /\ MarkAlive(d)
  /\ UNCHANGED <<phase, now, sockets, conns, fires, label, diskLabel, restarts>>

\* A handler exits: the last connection takes the device offline, unless its
\* lease has lapsed before.  A closed tracker ignores the call.
\* Variant LostCheckedFirst: the count is read before it is decremented.
LostCheckedFirst(d) ==
  /\ sockets[d] > 0
  /\ sockets' = [sockets EXCEPT ![d] = @ - 1]
  /\ \/ /\ phase = "closed" \/ conns[d] = 0
        /\ UNCHANGED <<memory, diskSeen, faults>>
     \/ /\ phase = "up" /\ conns[d] > 0
        /\ conns' = [conns EXCEPT ![d] = @ - 1]
        /\ UNCHANGED <<online, lastSeen, gen, lease, diskSeen, faults>>
  /\ UNCHANGED <<phase, now, fires, label, diskLabel, restarts>>
ConnectionLost(d) ==
  /\ sockets[d] > 0
  /\ sockets' = [sockets EXCEPT ![d] = @ - 1]
  /\ \/ /\ phase = "closed" \/ conns[d] = 0
        /\ UNCHANGED <<memory, diskSeen, faults>>
     \/ /\ phase = "up" /\ conns[d] > 0
        /\ conns' = [conns EXCEPT ![d] = @ - 1]
        /\ \/ /\ conns[d] = 1 /\ online[d]
              /\ MarkOffline(d, now)
           \/ /\ conns[d] > 1 \/ ~online[d]
              /\ UNCHANGED <<online, lastSeen, gen, lease, diskSeen, faults>>
  /\ UNCHANGED <<phase, now, fires, label, diskLabel, restarts>>

\* SetStatus persists the label before memory takes it; a failure is the
\* caller's error and changes nothing, like a text that is too long.
\* Variant SetStatusMemoryFirst: memory takes the label whatever the disk says.
SetStatusMemoryFirst(d, text) ==
  /\ phase = "up"
  /\ sockets[d] > 0
  /\ label' = [label EXCEPT ![d] = text]
  /\ \/ diskLabel' = [diskLabel EXCEPT ![d] = text] /\ UNCHANGED faults
     \/ faults < MaxFaults /\ faults' = faults + 1 /\ UNCHANGED diskLabel
  /\ UNCHANGED <<phase, now, sockets, memory, fires, diskSeen, restarts>>
SetStatus(d, text) ==
  /\ phase = "up"
  /\ sockets[d] > 0
  /\ \/ /\ diskLabel' = [diskLabel EXCEPT ![d] = text]
        /\ label' = [label EXCEPT ![d] = text]
        /\ UNCHANGED faults
     \/ /\ faults < MaxFaults
        /\ faults' = faults + 1
        /\ UNCHANGED <<diskLabel, label>>
  /\ UNCHANGED <<phase, now, sockets, memory, fires, diskSeen, restarts>>

-----------------------------------------------------------------------------
(* Lease watchers *)

\* The timer of the current lease fires; its watcher heads for the mutex.
LeaseFires(d) ==
  /\ phase = "up"
  /\ lease[d] # 0
  /\ lease[d] <= now
  /\ lease' = [lease EXCEPT ![d] = 0]
  /\ fires' = [fires EXCEPT ![d] = @ \cup {gen[d]}]
  /\ UNCHANGED <<phase, now, sockets, conns, online, lastSeen, gen, label, disk,
                 faults, restarts>>

\* expire: a fire of the current generation takes the device offline, as last
\* seen when it was last observed.  Any other fire is stale.
\* Variants: the generation is not compared (ExpireAnyFire), or is compared
\* with the one before the observation (ExpireEarlierGen).
ExpireAnyFire(d, g) ==
  /\ g \in fires[d]
  /\ fires' = [fires EXCEPT ![d] = @ \ {g}]
  /\ \/ /\ phase = "up" /\ online[d]
        /\ MarkOffline(d, lastSeen[d])
     \/ /\ phase # "up" \/ ~online[d]
        /\ UNCHANGED <<online, lastSeen, gen, lease, diskSeen, faults>>
  /\ UNCHANGED <<phase, now, sockets, conns, label, diskLabel, restarts>>
ExpireEarlierGen(d, g) ==
  /\ g \in fires[d]
  /\ fires' = [fires EXCEPT ![d] = @ \ {g}]
  /\ \/ /\ phase = "up" /\ online[d] /\ gen[d] = g + 1
        /\ MarkOffline(d, lastSeen[d])
     \/ /\ phase # "up" \/ ~online[d] \/ gen[d] # g + 1
        /\ UNCHANGED <<online, lastSeen, gen, lease, diskSeen, faults>>
  /\ UNCHANGED <<phase, now, sockets, conns, label, diskLabel, restarts>>
Expire(d, g) ==
  /\ g \in fires[d]
  /\ fires' = [fires EXCEPT ![d] = @ \ {g}]
  /\ \/ /\ phase = "up" /\ online[d] /\ gen[d] = g
        /\ MarkOffline(d, lastSeen[d])
     \/ /\ phase # "up" \/ ~online[d] \/ gen[d] # g
        /\ UNCHANGED <<online, lastSeen, gen, lease, diskSeen, faults>>
  /\ UNCHANGED <<phase, now, sockets, conns, label, diskLabel, restarts>>

-----------------------------------------------------------------------------
(* The process and its clock *)

\* Close ends every lease and writes nothing.
Close ==
  /\ phase = "up"
  /\ phase' = "closed"
  /\ lease' = [d \in Devices |-> 0]
  /\ UNCHANGED <<now, sockets, conns, online, lastSeen, gen, fires, label, disk,
                 faults, restarts>>

\* The process ends, in order or by a crash.
Terminate ==
  /\ phase # "down"
  /\ restarts < MaxRestarts
  /\ restarts' = restarts + 1
  /\ phase' = "down"
  /\ sockets' = [d \in Devices |-> 0]
  /\ fires' = [d \in Devices |-> {}]
  /\ UNCHANGED <<now, memory, label, disk, faults>>

\* NewTracker and loadPersisted: everybody is offline.
Start ==
  /\ phase = "down"
  /\ phase' = "up"
  /\ conns' = [d \in Devices |-> 0]
  /\ online' = [d \in Devices |-> FALSE]
  /\ lastSeen' = diskSeen
  /\ gen' = [d \in Devices |-> 0]
  /\ lease' = [d \in Devices |-> 0]
  /\ label' = diskLabel
  /\ UNCHANGED <<now, sockets, fires, disk, faults, restarts>>

Tick ==
  /\ now < MaxTime
  /\ now' = now + 1
  /\ UNCHANGED <<phase, sockets, memory, fires, label, disk, faults, restarts>>

-----------------------------------------------------------------------------
(* The specification *)

Init ==
  /\ phase = "down"
  /\ now = 1
  /\ sockets = [d \in Devices |-> 0]
  /\ conns = [d \in Devices |-> 0]
  /\ online = [d \in Devices |-> FALSE]
  /\ lastSeen = [d \in Devices |-> 0]
  /\ gen = [d \in Devices |-> 0]
  /\ lease = [d \in Devices |-> 0]
  /\ fires = [d \in Devices |-> {}]
  /\ label = [d \in Devices |-> NoLabel]
  /\ diskSeen = [d \in Devices |-> 0]
  /\ diskLabel = [d \in Devices |-> NoLabel]
  /\ faults = 0
  /\ restarts = 0

HandlerStep(d) ==
  \/ ConnectionEstablished(d)
  \/ ObserveHeartbeat(d)
  \/ ConnectionLost(d)
  \/ \E text \in Labels : SetStatus(d, text)

Watcher(d) == LeaseFires(d) \/ \E g \in 1 .. MaxGen : Expire(d, g)

Next ==
  \/ \E d \in Devices : HandlerStep(d) \/ Watcher(d)
  \/ Close \/ Terminate \/ Start \/ Tick

Spec == Init /\ [][Next]_vars

\* A due timer fires, its watcher gets the mutex, and time passes.  Nothing
\* makes a device connect, send or leave.
Fairness ==
  /\ WF_vars(Tick)
  /\ \A d \in Devices : WF_vars(Watcher(d))

FairSpec == Spec /\ Fairness

-----------------------------------------------------------------------------
(* Properties *)

\* Every variable stays in its range; the connection count never goes below
\* zero.
TypeOK ==
  /\ phase \in {"up", "closed", "down"}
  /\ now \in Nat
  /\ sockets \in [Devices -> Nat]
  /\ conns \in [Devices -> Nat]
  /\ online \in [Devices -> BOOLEAN]
  /\ lastSeen \in [Devices -> Nat]
  /\ gen \in [Devices -> Nat]
  /\ lease \in [Devices -> Nat]
  /\ fires \in [Devices -> SUBSET Nat]
  /\ label \in [Devices -> Labels]
  /\ diskSeen \in [Devices -> Nat]
  /\ diskLabel \in [Devices -> Labels]
  /\ faults \in Nat
  /\ restarts \in Nat

\* A half-open socket cannot masquerade as a live device: whoever is online
\* holds a lease of its latest observation, armed or fired and on its way.
OnlineIsLeased ==
  phase = "up" =>
    \A d \in Devices : online[d] =>
      \/ lease[d] = lastSeen[d] + TTL
      \/ lease[d] = 0 /\ gen[d] \in fires[d]

\* No ghosts: a device that is online has a connection handler running,
\* whatever the order in which overlapping connections came and went.
OnlineIsConnected ==
  phase = "up" => \A d \in Devices : online[d] => sockets[d] > 0

\* No flicker: a device goes offline because its last connection ended or
\* because a whole TTL has passed since it was last observed, never by a
\* stale fire or by the loss of an old connection.
OfflineIsJustified ==
  [][\A d \in Devices :
       phase = "up" /\ phase' = "up" /\ online[d] /\ ~online'[d] =>
         sockets'[d] = 0 \/ now >= lastSeen[d] + TTL]_vars

\* A status that was accepted survives the process: memory never shows a label
\* the disk does not hold, even when writes fail.
LabelIsPersisted == phase = "up" => label = diskLabel

\* What the tracker says is so: a device shown online is connected and
\* leased, and its label is the one on disk.
Truthful == TypeOK /\ OnlineIsLeased /\ OnlineIsConnected /\ LabelIsPersisted

\* A device that falls silent is noticed without a word from anybody: once it
\* is no longer observed by a process that stays up, it ends offline for good,
\* even if its connection never closes.
SilenceNoticed ==
  \A d \in Devices, g \in 0 .. MaxGen :
    <>[](phase = "up" /\ gen[d] = g) => <>[](~online[d])
=============================================================================
