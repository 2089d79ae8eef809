----------------------- MODULE MCCoordinatorProgress ------------------------
(*****************************************************************************)
(* What must eventually happen on the coordinator, on small instances: the   *)
(* shutdown of the server (its constants are those of the configuration, and *)
(* its drain is checked here too), the offline queue, the presence tracker,  *)
(* delivery, and the key directory. The modules share no variable, so each   *)
(* behaviour runs one of them, which part selects, and leaves the others at  *)
(* rest. Each property assumes the fairness of its own part.                 *)
(*****************************************************************************)
EXTENDS ServerDrain

VARIABLES
  part,  \* the part that runs in this behaviour
  inbox, next, acked, pinned, queueNow, phase, bootAt, timer, wake, pc, snap,
  due, storing, faults, crashes,
  presencePhase, presenceNow, sockets, presenceConns, online, lastSeen, gen,
  lease, fires, label, diskSeen, diskLabel, presenceFaults, restarts,
  stage, targets, routes, deliveryInbox, deliveryNext, deliveryPinned, known,
  deliveryOnline, deliveryHandler, replay, up, down, link, deliveryConns,
  session, greeted, deliveryAcked, shown, kept, todo, deliveryCrashes,
  deliveryFaults, refused, highest, replayed, erased, ghosted, cause,
  file, key, fresh, pins, disk, route, keysHandler, env, keysTargets, last,
  told, announced, keysFaults, losses, keysCrashes, drops

queueVars ==
  <<inbox, next, acked, pinned, queueNow, phase, bootAt, timer, wake, pc,
    snap, due, storing, faults, crashes>>
presenceVars ==
  <<presencePhase, presenceNow, sockets, presenceConns, online, lastSeen, gen,
    lease, fires, label, diskSeen, diskLabel, presenceFaults, restarts>>
deliveryVars ==
  <<stage, targets, routes, deliveryInbox, deliveryNext, deliveryPinned,
    known, deliveryOnline, deliveryHandler, replay, up, down, link,
    deliveryConns, session, greeted, deliveryAcked, shown, kept, todo,
    deliveryCrashes, deliveryFaults, refused, highest, replayed, erased,
    ghosted, cause>>
keysVars ==
  <<file, key, fresh, pins, disk, route, keysHandler, env, keysTargets, last,
    told, announced, keysFaults, losses, keysCrashes, drops>>

Queue == INSTANCE OfflineQueue WITH
  Recipients <- {"r1"}, Handlers <- {"h1"}, TTL <- 1, MaxSize <- 2,
  HalfRange <- 3, MaxPosition <- 2, MaxTime <- 2, MaxFaults <- 0,
  MaxCrashes <- 0, now <- queueNow

Pres == INSTANCE PresenceTracker WITH
  Devices <- {"d1", "d2"}, Labels <- {"none"}, NoLabel <- "none", TTL <- 2,
  MaxConns <- 1, MaxGen <- 2, MaxTime <- 5, MaxFaults <- 0, MaxRestarts <- 0,
  phase <- presencePhase, now <- presenceNow, conns <- presenceConns,
  faults <- presenceFaults

Deliv == INSTANCE Delivery WITH
  Messages <- {"m1", "m2"}, NoMessage <- "none", MaxSize <- 2, MaxConns <- 1,
  MaxCrashes <- 0, MaxFaults <- 1, inbox <- deliveryInbox,
  next <- deliveryNext, pinned <- deliveryPinned, online <- deliveryOnline,
  handler <- deliveryHandler, conns <- deliveryConns, acked <- deliveryAcked,
  crashes <- deliveryCrashes, faults <- deliveryFaults

Dir == INSTANCE KeyDirectory WITH
  Devices <- {"a", "b"}, Confirm <- TRUE, MaxKeys <- 2, MaxAnnounce <- 3,
  MaxFaults <- 1, MaxLosses <- 1, MaxCrashes <- 0, MaxDrops <- 1,
  handler <- keysHandler, targets <- keysTargets, faults <- keysFaults,
  crashes <- keysCrashes

ASSUME
  /\ Dir!DirectoryAssumption

MCInit ==
  /\ part \in {"drain", "queue", "presence", "delivery", "keys"}
  /\ Init /\ Queue!Init /\ Pres!Init /\ Deliv!Init /\ Dir!Init
  /\ part # "delivery" => ~deliveryPinned /\ ~known

DrainStep ==
  /\ part = "drain" /\ Next
  /\ UNCHANGED <<part, queueVars, presenceVars, deliveryVars, keysVars>>

QueueStep ==
  /\ part = "queue" /\ Queue!Next
  /\ UNCHANGED <<part, vars, presenceVars, deliveryVars, keysVars>>

PresenceStep ==
  /\ part = "presence" /\ Pres!Next
  /\ UNCHANGED <<part, vars, queueVars, deliveryVars, keysVars>>

DeliveryStep ==
  /\ part = "delivery" /\ Deliv!Next
  /\ UNCHANGED <<part, vars, queueVars, presenceVars, keysVars>>

KeysStep ==
  /\ part = "keys" /\ Dir!Next
  /\ UNCHANGED <<part, vars, queueVars, presenceVars, deliveryVars>>

MCNext == DrainStep \/ QueueStep \/ PresenceStep \/ DeliveryStep \/ KeysStep

mcVars == <<part, vars, queueVars, presenceVars, deliveryVars, keysVars>>

MCSpec == MCInit /\ [][MCNext]_mcVars

-----------------------------------------------------------------------------
\* TTL removal happens even when no traffic touches the queue: an expired
\* message is removed, unless the process stops.
ExpiryHappens == Queue!Fairness => Queue!ExpiryHappens

\* A device that falls silent is noticed without a word from anybody: once
\* it is no longer observed by a process that stays up, it ends offline for
\* good, even if its connection never closes.
SilenceNoticed == Pres!Fairness => Pres!SilenceNoticed

\* The suffix handleHello took is settled by the client, in the history unless
\* a box does not open or the append fails, or else its connection dies.
SuffixArrives == Deliv!Fairness => Deliv!SuffixArrives

\* Every connection that stays is told of every pin, its own included.
PinIsTold == Dir!Fairness => Dir!PinIsTold
=============================================================================
