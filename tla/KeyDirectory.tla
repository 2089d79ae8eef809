---------------------------- MODULE KeyDirectory ----------------------------
(***************************************************************************)
(* Who holds which key: the identity file of every device                  *)
(* (internal/crypto/keys.go), the coordinator's trust-on-first-use pins    *)
(* (internal/crypto/keystore.go) and the directory it sends to every       *)
(* connection (internal/coordinator/keys.go).                              *)
(*                                                                         *)
(* A device has one connection, whose handler dispatches one frame at a    *)
(* time; handlers of different devices run concurrently.  Authorize holds  *)
(* ks.mu from the look-up to the rename, so it is one step.  A key is a    *)
(* number, fresh for every GenerateIdentity.                               *)
(***************************************************************************)
EXTENDS Naturals, FiniteSets

CONSTANTS
  Devices,
  Confirm,     \* WireKeys was given a confirmation gate; the coordinator gives none
  MaxKeys,     \* bound: keys generated
  MaxAnnounce, \* bound: announcements sent
  MaxFaults,   \* bound: saves that fail
  MaxLosses,   \* bound: identity files lost by their owners
  MaxCrashes,  \* bound: ends of the coordinator
  MaxDrops     \* bound: connections that end

\* What the constants have to satisfy; every instance assumes it.
DirectoryAssumption ==
  /\ Confirm \in BOOLEAN
  /\ MaxKeys \in Nat /\ MaxAnnounce \in Nat /\ MaxFaults \in Nat /\ MaxLosses \in Nat
  /\ MaxCrashes \in Nat /\ MaxDrops \in Nat

NoKey == 0
Keys == 1 .. MaxKeys

VARIABLES
  file,      \* file[d]: the identity file of d
  key,       \* key[d]: the key d's process runs with
  fresh,     \* keys generated so far
  pins,      \* Keystore.peers
  disk,      \* the keystore file
  route,     \* devices with a routable connection
  handler,   \* handler[d]: what the handler of d's connection is doing
  env,       \* env[d]: the directory that handler has rendered
  targets,   \* targets[d]: connections it is still to be written to
  last,      \* last[d]: the directory d received last
  told,      \* told[d]: pins d has seen in some directory of this connection
  announced, faults, losses, crashes, drops

identity == <<file, key, fresh>>
keystore == <<pins, disk>>
conns == <<route, handler, env, targets>>
received == <<last, told>>
bounds == <<announced, faults, losses, crashes, drops>>
vars == <<identity, keystore, conns, received, bounds>>

NoPins == [d \in Devices |-> NoKey]
PinsOf(table) == {<<d, table[d]>> : d \in {x \in Devices : table[x] # NoKey}}

-----------------------------------------------------------------------------
(* The device *)

\* LoadOrCreateIdentity that runs with a new key before the file is in place.
RunUnsaved(d) ==
  /\ key[d] = NoKey
  /\ fresh < MaxKeys /\ fresh' = fresh + 1 /\ key' = [key EXCEPT ![d] = fresh']
  /\ UNCHANGED <<file, keystore, conns, received, bounds>>

\* LoadOrCreateIdentity: load the file, or write and rename a new one before
\* its key is used.  A crash before the rename leaves no file and no key.
Run(d) ==
  /\ key[d] = NoKey
  /\ \/ /\ file[d] # NoKey
        /\ key' = [key EXCEPT ![d] = file[d]]
        /\ UNCHANGED <<file, fresh>>
     \/ /\ file[d] = NoKey /\ fresh < MaxKeys
        /\ fresh' = fresh + 1
        /\ file' = [file EXCEPT ![d] = fresh']
        /\ key' = [key EXCEPT ![d] = fresh']
  /\ UNCHANGED <<keystore, conns, received, bounds>>

\* The handler's side of the connection ends.
Hangup(d) ==
  /\ route' = route \ {d}
  /\ handler' = [handler EXCEPT ![d] = "none"]
  /\ targets' = [c \in Devices |-> IF c = d THEN {} ELSE targets[c] \ {d}]
  /\ last' = [last EXCEPT ![d] = NoPins]
  /\ told' = [told EXCEPT ![d] = {}]
  /\ UNCHANGED env

\* The process of d ends, and its owner may lose the file.
Exit(d) ==
  /\ key[d] # NoKey /\ drops < MaxDrops
  /\ drops' = drops + 1
  /\ key' = [key EXCEPT ![d] = NoKey]
  /\ Hangup(d)
  /\ UNCHANGED <<file, fresh, keystore, announced, faults, losses, crashes>>

LoseFile(d) ==
  /\ key[d] = NoKey /\ file[d] # NoKey /\ losses < MaxLosses
  /\ losses' = losses + 1
  /\ file' = [file EXCEPT ![d] = NoKey]
  /\ UNCHANGED <<key, fresh, keystore, conns, received, announced, faults, crashes, drops>>

-----------------------------------------------------------------------------
(* The coordinator *)

\* d connects, is routed and says hello.
Connect(d) ==
  /\ key[d] # NoKey /\ handler[d] = "none"
  /\ route' = route \cup {d}
  /\ handler' = [handler EXCEPT ![d] = "hello"]
  /\ UNCHANGED <<identity, keystore, env, targets, received, bounds>>

\* directoryEnvelope at the end of handleHello; it is for d only.
RenderHello(d) ==
  /\ handler[d] = "hello"
  /\ env' = [env EXCEPT ![d] = pins]
  /\ targets' = [targets EXCEPT ![d] = {d}]
  /\ handler' = [handler EXCEPT ![d] = "writing"]
  /\ UNCHANGED <<identity, keystore, route, received, bounds>>

\* What Authorize may make of the pins of d: same key, first key, confirmed
\* change, refused change, failed save.
AuthorizeReplaces(d, k) ==
  /\ pins' = [pins EXCEPT ![d] = k] /\ disk' = pins'
  /\ handler' = [handler EXCEPT ![d] = "broadcast"]
  /\ UNCHANGED faults
AuthorizeKeepsUnsaved(d, k) ==
  /\ pins' = [pins EXCEPT ![d] = k]
  /\ \/ disk' = pins' /\ handler' = [handler EXCEPT ![d] = "broadcast"] /\ UNCHANGED faults
     \/ /\ faults < MaxFaults /\ faults' = faults + 1
        /\ handler' = [handler EXCEPT ![d] = "idle"] /\ UNCHANGED disk
Authorize(d, k) ==
  \/ /\ pins[d] = k
     /\ handler' = [handler EXCEPT ![d] = "broadcast"]
     /\ UNCHANGED <<keystore, faults>>
  \/ /\ pins[d] # k
     /\ pins[d] = NoKey \/ Confirm
     /\ pins' = [pins EXCEPT ![d] = k]
     /\ disk' = pins'
     /\ handler' = [handler EXCEPT ![d] = "broadcast"]
     /\ UNCHANGED faults
  \/ /\ pins[d] \notin {NoKey, k}
     /\ handler' = [handler EXCEPT ![d] = "idle"]
     /\ UNCHANGED <<keystore, faults>>
  \/ /\ pins[d] # k /\ (pins[d] = NoKey \/ Confirm)
     /\ faults < MaxFaults
     /\ faults' = faults + 1
     /\ handler' = [handler EXCEPT ![d] = "idle"]
     /\ UNCHANGED keystore

\* handleKeyAnnounce: the client announces on every online transition.
HandleKeyAnnounce(d) ==
  /\ handler[d] = "idle" /\ announced < MaxAnnounce
  /\ announced' = announced + 1
  /\ Authorize(d, key[d])
  /\ UNCHANGED <<identity, route, env, targets, received, losses, crashes, drops>>

\* broadcastDirectory: render the table ...
RenderBroadcast(d) ==
  /\ handler[d] = "broadcast"
  /\ env' = [env EXCEPT ![d] = pins]
  /\ handler' = [handler EXCEPT ![d] = "target"]
  /\ UNCHANGED <<identity, keystore, route, targets, received, bounds>>

RouteTargetsExcept(d) ==
  /\ handler[d] = "target"
  /\ targets' = [targets EXCEPT ![d] = route \ {d}]
  /\ handler' = [handler EXCEPT ![d] = "writing"]
  /\ UNCHANGED <<identity, keystore, route, env, received, bounds>>

\* ... look up every connection ...
RouteTargetsAll(d) ==
  /\ handler[d] = "target"
  /\ targets' = [targets EXCEPT ![d] = route]
  /\ handler' = [handler EXCEPT ![d] = "writing"]
  /\ UNCHANGED <<identity, keystore, route, env, received, bounds>>

\* ... and write it to each, in no particular order.
WriteDirectory(d, c) ==
  /\ handler[d] = "writing" /\ c \in targets[d]
  /\ targets' = [targets EXCEPT ![d] = @ \ {c}]
  /\ last' = [last EXCEPT ![c] = env[d]]
  /\ told' = [told EXCEPT ![c] = @ \cup PinsOf(env[d])]
  /\ UNCHANGED <<identity, keystore, route, handler, env, bounds>>

DoneWriting(d) ==
  /\ handler[d] = "writing" /\ targets[d] = {}
  /\ handler' = [handler EXCEPT ![d] = "idle"]
  /\ UNCHANGED <<identity, keystore, route, env, targets, received, bounds>>

\* The coordinator ends and opens its keystore again.
Restart ==
  /\ crashes < MaxCrashes
  /\ crashes' = crashes + 1
  /\ pins' = disk
  /\ route' = {} /\ handler' = [d \in Devices |-> "none"]
  /\ targets' = [d \in Devices |-> {}]
  /\ last' = [d \in Devices |-> NoPins] /\ told' = [d \in Devices |-> {}]
  /\ UNCHANGED <<identity, disk, env, announced, faults, losses, drops>>

Init ==
  /\ file = NoPins /\ key = NoPins /\ fresh = 0
  /\ pins = NoPins /\ disk = NoPins
  /\ route = {} /\ handler = [d \in Devices |-> "none"]
  /\ env = [d \in Devices |-> NoPins] /\ targets = [d \in Devices |-> {}]
  /\ last = env /\ told = [d \in Devices |-> {}]
  /\ announced = 0 /\ faults = 0 /\ losses = 0 /\ crashes = 0 /\ drops = 0

Next ==
  \/ \E d \in Devices :
       \/ Run(d) \/ Exit(d) \/ LoseFile(d)
       \/ Connect(d) \/ RenderHello(d) \/ HandleKeyAnnounce(d)
       \/ RenderBroadcast(d) \/ RouteTargetsAll(d) \/ DoneWriting(d)
       \/ \E c \in Devices : WriteDirectory(d, c)
  \/ Restart

Spec == Init /\ [][Next]_vars

\* The handlers run.
Fairness ==
  /\ \A d \in Devices :
       /\ WF_vars(RenderHello(d)) /\ WF_vars(RenderBroadcast(d)) /\ WF_vars(RouteTargetsAll(d))
       /\ WF_vars(DoneWriting(d))
       /\ \A c \in Devices : WF_vars(WriteDirectory(d, c))

FairSpec == Spec /\ Fairness

-----------------------------------------------------------------------------
(* Properties *)

Tables == [Devices -> 0 .. MaxKeys]
TypeOK ==
  /\ file \in Tables /\ key \in Tables /\ pins \in Tables /\ disk \in Tables
  /\ fresh \in 0 .. MaxKeys
  /\ route \subseteq Devices
  /\ handler \in [Devices -> {"none", "hello", "idle", "broadcast", "target", "writing"}]
  /\ env \in [Devices -> Tables] /\ last \in [Devices -> Tables]
  /\ targets \in [Devices -> SUBSET Devices]

\* A process runs with the key of its file, and without a lost file the pin of
\* a device is the key it can open its queued mail with, across crashes of
\* either side.
PinMatchesFile ==
  \A d \in Devices :
    /\ key[d] # NoKey => key[d] = file[d]
    /\ pins[d] # NoKey /\ losses = 0 => pins[d] = file[d]

\* No pin is in memory that a restart would forget: a failed save is undone.
NoUnpersistedPin == pins = disk

\* Without a confirmation gate a pin, once made, is never replaced: not by
\* another key, not by a failed save, not by a restart.
PinIsSticky == [][~Confirm => \A d \in Devices : pins[d] # NoKey => pins'[d] = pins[d]]_vars

\* Pins endure: memory and file agree whatever save fails and whenever the
\* coordinator restarts, and a pin changes by confirmation only.
PinsEndure ==
  []TypeOK /\ []PinMatchesFile /\ []NoUnpersistedPin /\ PinIsSticky

\* Every connection that stays is told of every pin, its own included.
PinIsTold ==
  \A d, c \in Devices : \A k \in Keys :
    (pins[d] = k /\ handler[d] = "broadcast" /\ c \in route)
      ~> (<<d, k>> \in told[c] \/ handler[c] = "none" \/ handler[d] = "none")

\* "Every connection sees the same table" (broadcastDirectory): when every
\* handler is done the directories the connections hold are the pins.
DirectoriesConverge ==
  (\A d \in Devices : handler[d] \in {"none", "idle"}) => \A c \in route : last[c] = pins

\* "An unchanged key lands on the idempotent no-op path ... no directory spam"
\* (handleKeyAnnounce).
QuietWhenUnchanged ==
  [][\A d \in Devices : handler[d] = "idle" /\ handler'[d] = "broadcast" => pins' # pins]_vars
=============================================================================
