-------------------------- MODULE Coordinator_proofs --------------------------
(***************************************************************************)
(* Proofs about the coordinator's parts: PresenceTracker, for any devices, *)
(* labels, TTL and bounds; KeyDirectory, for any devices and bounds, with  *)
(* and without a confirmation gate; Roster, for any devices, labels,       *)
(* buffers and bounds.                                                     *)
(*                                                                         *)
(* That nobody is taken offline by a stale fire needs two facts the code   *)
(* relies on without stating them: a fire never carries a generation that  *)
(* is yet to come (FiresArePast), and the fire of the latest observation   *)
(* of an online device is due (FiresAreDue).  That nobody is online        *)
(* without a connection needs the count to be exact (Counted).             *)
(*                                                                         *)
(* That the client's roster is the tracker's once all is quiet needs to be *)
(* told while nothing is: the newest thing about a device anywhere between *)
(* tracker and view says what the tracker's line says (Pumped), and no     *)
(* copy was seen later than the line (SeenIsPast), which is why an update  *)
(* without a time leaves the right one.                                    *)
(***************************************************************************)
EXTENDS MCCoordinator, Sequences, TLAPS

-----------------------------------------------------------------------------
(* The inductive invariant *)

\* The count agrees with the handlers while the tracker listens to them, and a
\* dead process has neither handlers nor watchers.
Counted ==
  /\ phase = "up" => conns = sockets
  /\ phase = "down" => fires = [d \in Devices |-> {}] /\ sockets = [d \in Devices |-> 0]

\* A fire belongs to an observation that has been made.
FiresArePast == \A d \in Devices : \A g \in fires[d] : g <= gen[d]

\* A fire of the latest observation of an online device is due.
FiresAreDue ==
  phase = "up" =>
    \A d \in Devices :
      online[d] /\ gen[d] \in fires[d] => lastSeen[d] + TTL <= now

Inv ==
  /\ TypeOK
  /\ Counted
  /\ FiresArePast
  /\ FiresAreDue
  /\ OnlineIsLeased
  /\ OnlineIsConnected
  /\ LabelIsPersisted

\* The initial state: nobody is known and no process runs.
LEMMA InvInit == Init => Inv
  BY TrackerAssumption
  DEF Init, Inv, TypeOK, Counted, FiresArePast, FiresAreDue, OnlineIsLeased,
      OnlineIsConnected, LabelIsPersisted

\* Every method, every watcher and the life of the process preserve the types.
LEMMA TypeStep == TypeOK /\ [Next]_vars => TypeOK'
<1> SUFFICES ASSUME TypeOK, [Next]_vars PROVE TypeOK'
  OBVIOUS
<1> USE TrackerAssumption DEF TypeOK
<1>1. ASSUME NEW d \in Devices, ConnectionEstablished(d) PROVE TypeOK'
  BY <1>1 DEF ConnectionEstablished, MarkAlive, SaveLiveness, memory, disk
<1>2. ASSUME NEW d \in Devices, ObserveHeartbeat(d) PROVE TypeOK'
  BY <1>2 DEF ObserveHeartbeat, MarkAlive, SaveLiveness, memory, disk
<1>3. ASSUME NEW d \in Devices, ConnectionLost(d) PROVE TypeOK'
  <2>1. sockets' \in [Devices -> Nat] /\ conns' \in [Devices -> Nat]
    BY <1>3 DEF ConnectionLost, memory
  <2>2. CASE phase = "up" /\ conns[d] = 1 /\ online[d]
    <3>1. MarkOffline(d, now)
      BY <1>3, <2>2 DEF ConnectionLost
    <3> QED
      BY <1>3, <2>1, <3>1 DEF ConnectionLost, MarkOffline, SaveLiveness
  <2>3. CASE ~(phase = "up" /\ conns[d] = 1 /\ online[d])
    <3>1. UNCHANGED <<online, lastSeen, gen, lease, diskSeen, faults>>
      BY <1>3, <2>3 DEF ConnectionLost, memory
    <3> QED
      BY <1>3, <2>1, <3>1 DEF ConnectionLost
  <2> QED
    BY <2>2, <2>3
<1>4. ASSUME NEW d \in Devices, NEW text \in Labels, SetStatus(d, text) PROVE TypeOK'
  BY <1>4 DEF SetStatus, memory, disk
<1>5. ASSUME NEW d \in Devices, LeaseFires(d) PROVE TypeOK'
  BY <1>5 DEF LeaseFires, memory, disk
<1>6. ASSUME NEW d \in Devices, NEW g \in 1 .. MaxGen, Expire(d, g) PROVE TypeOK'
  <2>1. fires' \in [Devices -> SUBSET Nat]
    BY <1>6 DEF Expire
  <2>2. CASE MarkOffline(d, lastSeen[d])
    BY <1>6, <2>1, <2>2 DEF Expire, MarkOffline, SaveLiveness
  <2>3. CASE UNCHANGED <<online, lastSeen, gen, lease, diskSeen, faults>>
    BY <1>6, <2>1, <2>3 DEF Expire
  <2> QED
    BY <1>6, <2>2, <2>3 DEF Expire
<1>7. CASE Close
  BY <1>7 DEF Close, memory, disk
<1>8. CASE Terminate
  BY <1>8 DEF Terminate, memory, disk
<1>9. CASE Start
  BY <1>9 DEF Start, memory, disk
<1>10. CASE Tick
  BY <1>10 DEF Tick, memory, disk
<1>11. CASE UNCHANGED vars
  BY <1>11 DEF vars, memory, disk
<1> QED
  BY <1>1, <1>2, <1>3, <1>4, <1>5, <1>6, <1>7, <1>8, <1>9, <1>10, <1>11
  DEF Next, HandlerStep, Watcher

\* What an observation leaves behind: a lease of its own and no fire that
\* could be taken for it.
LEMMA ObservationIsLeased ==
  ASSUME Inv, TypeOK', NEW d \in Devices, MarkAlive(d), phase = "up",
         phase' = "up", now' = now, fires' = fires
  PROVE  /\ FiresArePast'
         /\ FiresAreDue'
         /\ OnlineIsLeased'
<1> USE TrackerAssumption
<1>1. /\ gen' = [gen EXCEPT ![d] = @ + 1]
      /\ lastSeen' = [lastSeen EXCEPT ![d] = now]
      /\ lease' = [lease EXCEPT ![d] = now + TTL]
      /\ online' = [online EXCEPT ![d] = TRUE]
  BY DEF MarkAlive
<1>2. FiresArePast'
  BY <1>1 DEF Inv, TypeOK, FiresArePast
<1>3. FiresAreDue'
  BY <1>1 DEF Inv, TypeOK, FiresArePast, FiresAreDue
<1>4. OnlineIsLeased'
  BY <1>1 DEF Inv, TypeOK, OnlineIsLeased
<1> QED
  BY <1>2, <1>3, <1>4

\* Going offline ends the lease and leaves every other device alone.
LEMMA OfflineIsClean ==
  ASSUME Inv, TypeOK', NEW d \in Devices, NEW seen, MarkOffline(d, seen),
         phase = "up", phase' = "up", now' = now,
         fires' = fires \/ \E g : fires' = [fires EXCEPT ![d] = @ \ {g}]
  PROVE  /\ FiresArePast'
         /\ FiresAreDue'
         /\ OnlineIsLeased'
<1> USE TrackerAssumption
<1>1. /\ gen' = gen
      /\ lastSeen' = [lastSeen EXCEPT ![d] = seen]
      /\ lease' = [lease EXCEPT ![d] = 0]
      /\ online' = [online EXCEPT ![d] = FALSE]
  BY DEF MarkOffline
<1>2. FiresArePast'
  BY <1>1 DEF Inv, TypeOK, FiresArePast
<1>3. FiresAreDue'
  BY <1>1 DEF Inv, TypeOK, FiresAreDue
<1>4. OnlineIsLeased'
  BY <1>1 DEF Inv, TypeOK, OnlineIsLeased
<1> QED
  BY <1>2, <1>3, <1>4

\* Every step preserves the invariant: the heart is that an observation makes
\* all earlier fires stale and that the count is exact.
LEMMA InvStep == Inv /\ [Next]_vars => Inv'
<1> SUFFICES ASSUME Inv, [Next]_vars PROVE Inv'
  OBVIOUS
<1>0. TypeOK /\ TypeOK'
  BY TypeStep DEF Inv
<1> USE TrackerAssumption
<1>1. ASSUME NEW d \in Devices, ConnectionEstablished(d) PROVE Inv'
  <2>1. FiresArePast' /\ FiresAreDue' /\ OnlineIsLeased'
    BY <1>0, <1>1, ObservationIsLeased DEF ConnectionEstablished
  <2>2. Counted' /\ OnlineIsConnected' /\ LabelIsPersisted'
    BY <1>0, <1>1
    DEF Inv, TypeOK, Counted, OnlineIsConnected, LabelIsPersisted,
        ConnectionEstablished, MarkAlive
  <2> QED
    BY <1>0, <2>1, <2>2 DEF Inv
<1>2. ASSUME NEW d \in Devices, ObserveHeartbeat(d) PROVE Inv'
  <2>1. FiresArePast' /\ FiresAreDue' /\ OnlineIsLeased'
    BY <1>0, <1>2, ObservationIsLeased DEF ObserveHeartbeat
  <2>2. Counted' /\ OnlineIsConnected' /\ LabelIsPersisted'
    BY <1>0, <1>2
    DEF Inv, TypeOK, Counted, OnlineIsConnected, LabelIsPersisted,
        ObserveHeartbeat, MarkAlive
  <2> QED
    BY <1>0, <2>1, <2>2 DEF Inv
<1>3. ASSUME NEW d \in Devices, ConnectionLost(d) PROVE Inv'
  <2>1. phase' = phase /\ now' = now /\ fires' = fires /\ label' = label
        /\ diskLabel' = diskLabel /\ sockets' = [sockets EXCEPT ![d] = @ - 1]
        /\ sockets[d] > 0
    BY <1>3 DEF ConnectionLost
  <2>2. CASE phase = "closed"
    BY <1>0, <1>3, <2>2
    DEF Inv, TypeOK, Counted, FiresArePast, FiresAreDue, OnlineIsLeased,
        OnlineIsConnected, LabelIsPersisted, ConnectionLost, memory
  <2>3. CASE phase = "up" /\ conns[d] = 1 /\ online[d]
    <3>1. MarkOffline(d, now) /\ conns' = [conns EXCEPT ![d] = @ - 1]
      BY <1>0, <1>3, <2>3 DEF ConnectionLost, TypeOK
    <3>2. FiresArePast' /\ FiresAreDue' /\ OnlineIsLeased'
      BY <1>0, <2>1, <2>3, <3>1, OfflineIsClean
    <3>3. Counted' /\ OnlineIsConnected' /\ LabelIsPersisted'
      BY <1>0, <2>1, <2>3, <3>1
      DEF Inv, TypeOK, Counted, OnlineIsConnected, LabelIsPersisted, MarkOffline
    <3> QED
      BY <1>0, <3>2, <3>3 DEF Inv
  <2>4. CASE phase = "up" /\ (conns[d] > 1 \/ ~online[d])
    <3>1. conns[d] = sockets[d]
      BY <2>4 DEF Inv, Counted
    <3>2. conns' = [conns EXCEPT ![d] = @ - 1]
          /\ UNCHANGED <<online, lastSeen, gen, lease>>
      BY <1>0, <1>3, <2>1, <2>4, <3>1 DEF ConnectionLost, TypeOK
    <3> QED
      BY <1>0, <2>1, <2>4, <3>1, <3>2
      DEF Inv, TypeOK, Counted, FiresArePast, FiresAreDue, OnlineIsLeased,
          OnlineIsConnected, LabelIsPersisted
  <2>5. conns[d] \in Nat /\ (phase = "up" => conns[d] = sockets[d])
    BY <1>0 DEF Inv, TypeOK, Counted
  <2>6. phase = "up" \/ phase = "closed"
    BY <1>0, <1>3, <2>1 DEF Inv, TypeOK, Counted
  <2> QED
    BY <2>1, <2>2, <2>3, <2>4, <2>5, <2>6
<1>4. ASSUME NEW d \in Devices, NEW text \in Labels, SetStatus(d, text) PROVE Inv'
  BY <1>0, <1>4
  DEF Inv, TypeOK, Counted, FiresArePast, FiresAreDue, OnlineIsLeased,
      OnlineIsConnected, LabelIsPersisted, SetStatus, memory
<1>5. ASSUME NEW d \in Devices, LeaseFires(d) PROVE Inv'
  <2>1. FiresArePast'
    BY <1>0, <1>5 DEF Inv, TypeOK, FiresArePast, LeaseFires
  <2>2. FiresAreDue'
    BY <1>0, <1>5 DEF Inv, TypeOK, FiresAreDue, OnlineIsLeased, LeaseFires
  <2>3. OnlineIsLeased'
    BY <1>0, <1>5 DEF Inv, TypeOK, OnlineIsLeased, LeaseFires
  <2>4. Counted' /\ OnlineIsConnected' /\ LabelIsPersisted'
    BY <1>0, <1>5
    DEF Inv, TypeOK, Counted, OnlineIsConnected, LabelIsPersisted, LeaseFires, disk
  <2> QED
    BY <1>0, <2>1, <2>2, <2>3, <2>4 DEF Inv
<1>6. ASSUME NEW d \in Devices, NEW g \in 1 .. MaxGen, Expire(d, g) PROVE Inv'
  <2>1. fires' = [fires EXCEPT ![d] = @ \ {g}] /\ phase' = phase /\ now' = now
        /\ sockets' = sockets /\ conns' = conns /\ label' = label
        /\ diskLabel' = diskLabel
    BY <1>6 DEF Expire
  <2>2. CASE phase = "up" /\ online[d] /\ gen[d] = g
    <3>1. MarkOffline(d, lastSeen[d])
      BY <1>6, <2>2 DEF Expire
    <3>2. FiresArePast' /\ FiresAreDue' /\ OnlineIsLeased'
      BY <1>0, <2>1, <2>2, <3>1, OfflineIsClean
    <3>3. Counted' /\ OnlineIsConnected' /\ LabelIsPersisted'
      BY <1>0, <2>1, <2>2, <3>1
      DEF Inv, TypeOK, Counted, OnlineIsConnected, LabelIsPersisted, MarkOffline
    <3> QED
      BY <1>0, <3>2, <3>3 DEF Inv
  <2>3. CASE ~(phase = "up" /\ online[d] /\ gen[d] = g)
    <3>1. UNCHANGED <<online, lastSeen, gen, lease>>
      BY <1>6, <2>3 DEF Expire
    <3> QED
      <4>1. Counted' /\ OnlineIsConnected' /\ LabelIsPersisted'
        <5>1. phase # "down"
          BY <1>0, <1>6 DEF Inv, TypeOK, Counted, Expire
        <5> QED
          BY <2>1, <3>1, <5>1
          DEF Inv, Counted, OnlineIsConnected, LabelIsPersisted
      <4>2. FiresArePast' /\ FiresAreDue'
        BY <1>0, <2>1, <3>1 DEF Inv, TypeOK, FiresArePast, FiresAreDue
      <4>3. OnlineIsLeased'
        BY <1>0, <2>1, <2>3, <3>1 DEF Inv, TypeOK, OnlineIsLeased
      <4> QED
        BY <1>0, <4>1, <4>2, <4>3 DEF Inv
  <2> QED
    BY <2>2, <2>3
<1>7. CASE Close
  BY <1>0, <1>7
  DEF Inv, Counted, FiresArePast, FiresAreDue, OnlineIsLeased,
      OnlineIsConnected, LabelIsPersisted, Close
<1>8. CASE Terminate
  BY <1>0, <1>8
  DEF Inv, Counted, FiresArePast, FiresAreDue, OnlineIsLeased,
      OnlineIsConnected, LabelIsPersisted, Terminate
<1>9. CASE Start
  BY <1>0, <1>9
  DEF Inv, TypeOK, Counted, FiresArePast, FiresAreDue, OnlineIsLeased,
      OnlineIsConnected, LabelIsPersisted, Start, disk
<1>10. CASE Tick
  BY <1>0, <1>10
  DEF Inv, TypeOK, Counted, FiresArePast, FiresAreDue, OnlineIsLeased,
      OnlineIsConnected, LabelIsPersisted, Tick, memory, disk
<1>11. CASE UNCHANGED vars
  BY <1>0, <1>11
  DEF Inv, Counted, FiresArePast, FiresAreDue, OnlineIsLeased,
      OnlineIsConnected, LabelIsPersisted, vars, memory, disk
<1> QED
  BY <1>1, <1>2, <1>3, <1>4, <1>5, <1>6, <1>7, <1>8, <1>9, <1>10, <1>11
  DEF Next, HandlerStep, Watcher

\* The invariant holds in every reachable state.
THEOREM Invariance == Spec => []Inv
<1> QED
  BY InvInit, InvStep, PTL DEF Spec

-----------------------------------------------------------------------------
(* The results *)

\* Every variable keeps its type, whatever fails and restarts.
THEOREM TrackerTypeCorrect == Spec => []TypeOK
<1>1. Inv => TypeOK
  BY DEF Inv
<1> QED
  BY <1>1, Invariance, PTL

\* Whoever is online holds a lease of its latest observation, for any TTL and
\* any number of overlapping connections.
THEOREM OnlineHoldsLease == Spec => []OnlineIsLeased
<1>1. Inv => OnlineIsLeased
  BY DEF Inv
<1> QED
  BY <1>1, Invariance, PTL

\* Nobody is online without a connection handler.
THEOREM NoGhosts == Spec => []OnlineIsConnected
<1>1. Inv => OnlineIsConnected
  BY DEF Inv
<1> QED
  BY <1>1, Invariance, PTL

\* The label in memory is the label on disk, although writes fail.
THEOREM LabelsPersist == Spec => []LabelIsPersisted
<1>1. Inv => LabelIsPersisted
  BY DEF Inv
<1> QED
  BY <1>1, Invariance, PTL

\* What the tracker says is so in every state: whoever it shows online is
\* connected and leased, and every label it shows is on disk, for any TTL, any
\* devices and any failing writes.
THEOREM TrackerIsTruthful == Spec => []Truthful
<1>1. Inv => Truthful
  BY DEF Inv, Truthful
<1> QED
  BY <1>1, Invariance, PTL

\* A device goes offline only when its last connection ended or a whole TTL has
\* passed: a stale fire and the loss of an old connection take nobody down.
THEOREM NoFlicker == Spec => OfflineIsJustified
<1> DEFINE Justified ==
      \A d \in Devices :
        phase = "up" /\ phase' = "up" /\ online[d] /\ ~online'[d] =>
          sockets'[d] = 0 \/ now >= lastSeen[d] + TTL
<1>1. Inv /\ Inv' /\ [Next]_vars => [Justified]_vars
  <2> SUFFICES ASSUME Inv, [Next]_vars, NEW e \in Devices, phase = "up",
                      phase' = "up", online[e], ~online'[e]
               PROVE  sockets'[e] = 0 \/ now >= lastSeen[e] + TTL
    OBVIOUS
  <2> USE TrackerAssumption
  <2>0. TypeOK
    BY DEF Inv
  <2>1. ASSUME NEW d \in Devices, ConnectionEstablished(d) \/ ObserveHeartbeat(d)
        PROVE  FALSE
    BY <2>0, <2>1 DEF TypeOK, ConnectionEstablished, ObserveHeartbeat, MarkAlive
  <2>2. ASSUME NEW d \in Devices, ConnectionLost(d)
        PROVE  sockets'[e] = 0
    BY <2>0, <2>2 DEF Inv, Counted, TypeOK, ConnectionLost, MarkOffline, memory
  <2>3. ASSUME NEW d \in Devices, NEW g \in 1 .. MaxGen, Expire(d, g)
        PROVE  now >= lastSeen[e] + TTL
    BY <2>0, <2>3 DEF Inv, FiresAreDue, TypeOK, Expire, MarkOffline
  <2>4. ASSUME NEW d \in Devices, \E text \in Labels : SetStatus(d, text) PROVE FALSE
    BY <2>4 DEF SetStatus, memory
  <2>5. ASSUME NEW d \in Devices, LeaseFires(d) PROVE FALSE
    BY <2>5 DEF LeaseFires
  <2>6. CASE Close \/ Terminate \/ Start \/ Tick \/ UNCHANGED vars
    BY <2>6 DEF Close, Terminate, Start, Tick, vars, memory
  <2> QED
    BY <2>1, <2>2, <2>3, <2>4, <2>5, <2>6 DEF Next, HandlerStep, Watcher
<1> QED
  BY <1>1, Invariance, PTL DEF Spec, OfflineIsJustified

-----------------------------------------------------------------------------
(* KeyDirectory: the inductive invariant *)

\* What PinsEndure says of states is inductive once a lost file is counted.
DirInv ==
  /\ Dir!TypeOK /\ losses \in Nat
  /\ Dir!PinMatchesFile /\ Dir!NoUnpersistedPin

\* A step that leaves keys, files and pins alone keeps their agreement.
LEMMA PinsAtRest ==
  ASSUME DirInv, UNCHANGED <<file, key, pins, keysDisk, losses>>
  PROVE  /\ losses' \in Nat /\ Dir!PinMatchesFile' /\ Dir!NoUnpersistedPin'
         /\ \A d \in KeyDevices : pins'[d] = pins[d]
  BY DEF DirInv, Dir!PinMatchesFile, Dir!NoUnpersistedPin

-----------------------------------------------------------------------------
(* KeyDirectory: every step keeps it, and makes or keeps pins *)

\* The pins that a step may not change.
Sticks == ~Confirm => \A d \in KeyDevices : pins[d] # Dir!NoKey => pins'[d] = pins[d]

LEMMA ConnectKeeps == ASSUME DirInv, NEW d \in KeyDevices, Dir!Connect(d) PROVE DirInv' /\ Sticks
<1>1. UNCHANGED <<file, key, pins, keysDisk, losses>>
  BY DEF Dir!Connect, Dir!identity, Dir!keystore, Dir!conns, Dir!received, Dir!bounds
<1>2. Dir!TypeOK'
  BY DEF DirInv, Dir!TypeOK, Dir!Connect, Dir!identity, Dir!keystore, Dir!conns, Dir!received, Dir!bounds
<1> QED
  BY <1>1, <1>2, PinsAtRest DEF DirInv, Sticks

LEMMA RenderHelloKeeps == ASSUME DirInv, NEW d \in KeyDevices, Dir!RenderHello(d) PROVE DirInv' /\ Sticks
<1>1. UNCHANGED <<file, key, pins, keysDisk, losses>>
  BY DEF Dir!RenderHello, Dir!identity, Dir!keystore, Dir!conns, Dir!received, Dir!bounds
<1>2. Dir!TypeOK'
  BY DEF DirInv, Dir!TypeOK, Dir!RenderHello, Dir!identity, Dir!keystore, Dir!conns, Dir!received, Dir!bounds
<1> QED
  BY <1>1, <1>2, PinsAtRest DEF DirInv, Sticks

LEMMA RenderBroadcastKeeps == ASSUME DirInv, NEW d \in KeyDevices, Dir!RenderBroadcast(d) PROVE DirInv' /\ Sticks
<1>1. UNCHANGED <<file, key, pins, keysDisk, losses>>
  BY DEF Dir!RenderBroadcast, Dir!identity, Dir!keystore, Dir!conns, Dir!received, Dir!bounds
<1>2. Dir!TypeOK'
  BY DEF DirInv, Dir!TypeOK, Dir!RenderBroadcast, Dir!identity, Dir!keystore, Dir!conns, Dir!received, Dir!bounds
<1> QED
  BY <1>1, <1>2, PinsAtRest DEF DirInv, Sticks

LEMMA RouteTargetsAllKeeps == ASSUME DirInv, NEW d \in KeyDevices, Dir!RouteTargetsAll(d) PROVE DirInv' /\ Sticks
<1>1. UNCHANGED <<file, key, pins, keysDisk, losses>>
  BY DEF Dir!RouteTargetsAll, Dir!identity, Dir!keystore, Dir!conns, Dir!received, Dir!bounds
<1>2. Dir!TypeOK'
  BY DEF DirInv, Dir!TypeOK, Dir!RouteTargetsAll, Dir!identity, Dir!keystore, Dir!conns, Dir!received, Dir!bounds
<1> QED
  BY <1>1, <1>2, PinsAtRest DEF DirInv, Sticks

LEMMA DoneWritingKeeps == ASSUME DirInv, NEW d \in KeyDevices, Dir!DoneWriting(d) PROVE DirInv' /\ Sticks
<1>1. UNCHANGED <<file, key, pins, keysDisk, losses>>
  BY DEF Dir!DoneWriting, Dir!identity, Dir!keystore, Dir!conns, Dir!received, Dir!bounds
<1>2. Dir!TypeOK'
  BY DEF DirInv, Dir!TypeOK, Dir!DoneWriting, Dir!identity, Dir!keystore, Dir!conns, Dir!received, Dir!bounds
<1> QED
  BY <1>1, <1>2, PinsAtRest DEF DirInv, Sticks

LEMMA WriteDirectoryKeeps ==
  ASSUME DirInv, NEW d \in KeyDevices, NEW c \in KeyDevices, Dir!WriteDirectory(d, c)
  PROVE  DirInv' /\ Sticks
<1>1. UNCHANGED <<file, key, pins, keysDisk, losses>>
  BY DEF Dir!WriteDirectory, Dir!identity, Dir!keystore, Dir!conns, Dir!received, Dir!bounds
<1>2. Dir!TypeOK'
  BY DEF DirInv, Dir!TypeOK, Dir!WriteDirectory, Dir!identity, Dir!keystore, Dir!conns, Dir!received, Dir!bounds
<1> QED
  BY <1>1, <1>2, PinsAtRest DEF DirInv, Sticks

\* The key is used once its file is in place.
LEMMA RunKeeps == ASSUME DirInv, NEW d \in KeyDevices, Dir!Run(d) PROVE DirInv' /\ Sticks
<1>1. UNCHANGED <<pins, keysDisk, losses, route, handler, env, targets, last>>
  BY DEF Dir!Run, Dir!identity, Dir!keystore, Dir!conns, Dir!received, Dir!bounds
<1>2. Dir!TypeOK'
  <2>1. /\ MaxKeys \in Nat /\ fresh \in 0 .. MaxKeys /\ file[d] \in 0 .. MaxKeys
        /\ file \in Dir!Tables /\ key \in Dir!Tables
    BY CoordinatorAssumption DEF DirInv, Dir!TypeOK, Dir!Tables, Dir!DirectoryAssumption
  <2>2. fresh' \in 0 .. MaxKeys
    BY <2>1 DEF Dir!Run
  <2>3. file' \in Dir!Tables
    BY <2>1, <2>2 DEF Dir!Run, Dir!Tables
  <2>4. key' \in Dir!Tables
    BY <2>1, <2>2 DEF Dir!Run, Dir!Tables
  <2> QED
    BY <1>1, <2>2, <2>3, <2>4 DEF DirInv, Dir!TypeOK
<1>3. Dir!PinMatchesFile'
  BY <1>1, CoordinatorAssumption
    DEF DirInv, Dir!PinMatchesFile, Dir!TypeOK, Dir!Tables, Dir!Run, Dir!NoKey, Dir!DirectoryAssumption
<1> QED
  BY <1>1, <1>2, <1>3 DEF DirInv, Sticks, Dir!NoUnpersistedPin

LEMMA ExitKeeps == ASSUME DirInv, NEW d \in KeyDevices, Dir!Exit(d) PROVE DirInv' /\ Sticks
<1>1. /\ UNCHANGED <<file, fresh, pins, keysDisk, losses, env>>
      /\ key' = [key EXCEPT ![d] = Dir!NoKey]
  BY DEF Dir!Exit, Dir!Hangup, Dir!identity, Dir!keystore, Dir!conns, Dir!received, Dir!bounds
<1>2. Dir!TypeOK'
  BY <1>1, CoordinatorAssumption
    DEF DirInv, Dir!TypeOK, Dir!Tables, Dir!Exit, Dir!Hangup, Dir!NoKey, Dir!NoPins, Dir!DirectoryAssumption
<1>3. Dir!PinMatchesFile'
  BY <1>1 DEF DirInv, Dir!PinMatchesFile, Dir!TypeOK, Dir!Tables, Dir!NoKey
<1> QED
  BY <1>1, <1>2, <1>3 DEF DirInv, Sticks, Dir!NoUnpersistedPin

LEMMA LoseFileKeeps == ASSUME DirInv, NEW d \in KeyDevices, Dir!LoseFile(d) PROVE DirInv' /\ Sticks
<1>1. /\ UNCHANGED <<key, fresh, pins, keysDisk, route, handler, env, targets, last>>
      /\ key[d] = Dir!NoKey /\ file' = [file EXCEPT ![d] = Dir!NoKey] /\ losses' = losses + 1
  BY DEF Dir!LoseFile, Dir!identity, Dir!keystore, Dir!conns, Dir!received, Dir!bounds
<1>2. Dir!TypeOK'
  BY <1>1, CoordinatorAssumption DEF DirInv, Dir!TypeOK, Dir!Tables, Dir!NoKey, Dir!DirectoryAssumption
<1>3. losses' \in Nat /\ Dir!PinMatchesFile'
  BY <1>1 DEF DirInv, Dir!PinMatchesFile, Dir!TypeOK, Dir!Tables, Dir!NoKey
<1> QED
  BY <1>1, <1>2, <1>3 DEF DirInv, Sticks, Dir!NoUnpersistedPin

\* Authorize pins the key the device runs with, in memory and in the file at
\* once, and replaces a pin only behind the gate.
LEMMA HandleKeyAnnounceKeeps ==
  ASSUME DirInv, NEW d \in KeyDevices, Dir!HandleKeyAnnounce(d)
  PROVE  DirInv' /\ Sticks
<1>1. UNCHANGED <<file, key, fresh, losses, route, env, targets, last>>
  BY DEF Dir!HandleKeyAnnounce, Dir!identity, Dir!keystore, Dir!conns, Dir!received, Dir!bounds
<1>2. \/ pins' = pins /\ keysDisk' = keysDisk
      \/ /\ pins[d] # key[d] /\ (pins[d] = Dir!NoKey \/ Confirm)
         /\ pins' = [pins EXCEPT ![d] = key[d]] /\ keysDisk' = pins'
  BY DEF Dir!HandleKeyAnnounce, Dir!Authorize, Dir!keystore
<1>3. \E s \in {"broadcast", "idle"} : handler' = [handler EXCEPT ![d] = s]
  BY DEF Dir!HandleKeyAnnounce, Dir!Authorize
<1>4. Dir!TypeOK'
  <2>1. pins' \in Dir!Tables /\ keysDisk' \in Dir!Tables
    BY <1>2 DEF DirInv, Dir!TypeOK, Dir!Tables
  <2> QED
    BY <1>1, <1>3, <2>1 DEF DirInv, Dir!TypeOK
<1>5. Dir!PinMatchesFile'
  BY <1>1, <1>2 DEF DirInv, Dir!TypeOK, Dir!Tables, Dir!PinMatchesFile
<1>6. Dir!NoUnpersistedPin'
  BY <1>2 DEF DirInv, Dir!NoUnpersistedPin
<1>7. Sticks
  BY <1>2 DEF DirInv, Dir!TypeOK, Dir!Tables, Sticks
<1> QED
  BY <1>1, <1>4, <1>5, <1>6, <1>7 DEF DirInv

\* What a restart reads back is what was in memory.
LEMMA RestartKeeps == ASSUME DirInv, Dir!Restart PROVE DirInv' /\ Sticks
<1>1. /\ UNCHANGED <<file, key, fresh, keysDisk, env, losses>> /\ pins' = pins
      /\ route' = {} /\ handler' = [d \in KeyDevices |-> "none"]
      /\ targets' = [d \in KeyDevices |-> {}] /\ last' = [d \in KeyDevices |-> Dir!NoPins]
  BY DEF Dir!Restart, Dir!identity, DirInv, Dir!NoUnpersistedPin
<1>2. Dir!TypeOK'
  BY <1>1, CoordinatorAssumption
    DEF DirInv, Dir!TypeOK, Dir!Tables, Dir!NoPins, Dir!NoKey, Dir!DirectoryAssumption
<1> QED
  BY <1>1, <1>2, PinsAtRest DEF DirInv, Sticks

-----------------------------------------------------------------------------
(* KeyDirectory: the theorem *)

LEMMA DirInit == Dir!Init => DirInv
  BY CoordinatorAssumption
    DEF Dir!Init, DirInv, Dir!TypeOK, Dir!Tables, Dir!NoPins, Dir!NoKey, Dir!PinMatchesFile,
      Dir!NoUnpersistedPin, Dir!DirectoryAssumption

LEMMA DirStep == ASSUME DirInv, [Dir!Next]_(Dir!vars) PROVE DirInv' /\ Sticks
<1>1. CASE UNCHANGED Dir!vars
  BY <1>1 DEF Dir!vars, Dir!identity, Dir!keystore, Dir!conns, Dir!received, Dir!bounds, DirInv, Dir!TypeOK, Dir!PinMatchesFile, Dir!NoUnpersistedPin, Sticks
<1>2. CASE Dir!Restart
  BY <1>2, RestartKeeps
<1>3. ASSUME NEW d \in KeyDevices,
             \/ Dir!Run(d) \/ Dir!Exit(d) \/ Dir!LoseFile(d)
             \/ Dir!Connect(d) \/ Dir!RenderHello(d) \/ Dir!HandleKeyAnnounce(d)
             \/ Dir!RenderBroadcast(d) \/ Dir!RouteTargetsAll(d) \/ Dir!DoneWriting(d)
             \/ \E c \in KeyDevices : Dir!WriteDirectory(d, c)
      PROVE  DirInv' /\ Sticks
  BY <1>3, RunKeeps, ExitKeeps, LoseFileKeeps, ConnectKeeps, RenderHelloKeeps,
    HandleKeyAnnounceKeeps, RenderBroadcastKeeps, RouteTargetsAllKeeps, DoneWritingKeeps,
    WriteDirectoryKeeps
<1> QED
  BY <1>1, <1>2, <1>3 DEF Dir!Next

\* Pins endure, whatever the devices and the bounds: a process runs with the key
\* of its file, memory and keystore file agree whichever save fails and whenever
\* the coordinator restarts, no lost file means that the pin is the key of the
\* device, and without a confirmation gate no step changes a pin.
THEOREM PinsEndureAlways == Dir!Spec => PinsEndure
<1>1. Dir!Spec => []DirInv
  BY DirInit, DirStep, PTL DEF Dir!Spec
<1>2. DirInv => Dir!TypeOK /\ Dir!PinMatchesFile /\ Dir!NoUnpersistedPin
  BY DEF DirInv
<1>3. DirInv /\ [Dir!Next]_(Dir!vars) =>
        [~Confirm => \A d \in KeyDevices : pins[d] # Dir!NoKey => pins'[d] = pins[d]]_(Dir!vars)
  BY DirStep DEF Sticks
<1> QED
  BY <1>1, <1>2, <1>3, PTL DEF Dir!Spec, PinsEndure, Dir!PinsEndure, Dir!PinIsSticky

-----------------------------------------------------------------------------
(* Roster: the inductive invariant *)

Lines == [online : BOOLEAN, seen : 0 .. RosterMaxTime, status : Labels]
Changes == [device : RosterDevices, entry : Lines]
Updates == [device : RosterDevices, state : {"online", "offline"},
            seen : 0 .. RosterMaxTime, status : Labels]

\* What travels is well formed.
PumpTyped ==
  /\ Pump!TypeOK
  /\ chan \in Seq(Changes) /\ held \in Seq(Changes) /\ notes \in Seq(Changes)
  /\ wire \in Seq(Updates) /\ rest \subseteq Changes
  /\ missed \in [RosterDevices -> {"no", "dropped", "beaten"}]
  /\ unshown \in [RosterDevices -> {"no", "dropped", "restated"}]

\* Where the handler is decides what it has.
PhaseKnown ==
  /\ rosterPhase # "roster" => rest = {}
  /\ rosterPhase \in {"snapshot", "roster", "serving"} => listed
  /\ rosterPhase = "snapshot" => late = {}
  /\ rosterPhase \in {"none", "subscribe"} => ~listed /\ chan = <<>> /\ held = <<>>
  /\ \A d \in RosterDevices \ known : ~line[d].online

\* No copy of a line is seen later than the line.
SeenIsPast ==
  /\ \A d \in RosterDevices : line[d].seen <= rosterNow /\ view[d].seen <= line[d].seen
  /\ \A i \in 1 .. Len(chan) : chan[i].entry.seen <= line[chan[i].device].seen
  /\ \A i \in 1 .. Len(held) : held[i].entry.seen <= line[held[i].device].seen
  /\ \A c \in rest : c.entry.seen <= line[c.device].seen
  /\ \A i \in 1 .. Len(wire) : wire[i].seen <= line[wire[i].device].seen

\* The last item about d in a queue, as a set of at most one.
Newest(s, d) ==
  {s[i] : i \in {k \in 1 .. Len(s) :
                   s[k].device = d /\ \A j \in 1 .. Len(s) : j > k => s[j].device # d}}
Mentions(s, d) == \E i \in 1 .. Len(s) : s[i].device = d
Holds(d) == held # <<>> /\ held[1].device = d
Listed(d) == \E c \in rest : c.device = d

\* An entry, or an update, says what a line says.
Same(e, l) == e.online = l.online /\ e.status = l.status /\ (~l.online => e.seen = l.seen)
Says(u, l) == (u.state = "online" <=> l.online) /\ u.status = l.status /\ (~l.online => u.seen = l.seen)

\* The newest change of d on its way to the socket is the line of d.
ChangeIsLine(d) ==
  /\ \A c \in Newest(chan, d) : Same(c.entry, line[d])
  /\ ~Mentions(chan, d) /\ Holds(d) => Same(held[1].entry, line[d])

\* When no change of d is on its way, the newest of the roster line still to be
\* written, the updates still to be read and the view is the line of d.
ViewIsLine(d) ==
  ~Mentions(chan, d) /\ ~Holds(d) =>
    /\ \A c \in rest : c.device = d => Same(c.entry, line[d])
    /\ ~Listed(d) =>
         /\ \A u \in Newest(wire, d) : Says(u, line[d])
         /\ ~Mentions(wire, d) => Same(view[d], line[d])

Pumped ==
  \A d \in RosterDevices \ {Self} : missed[d] = "no" =>
    /\ rosterPhase \in {"snapshot", "roster", "serving"} => ChangeIsLine(d)
    /\ rosterPhase \in {"roster", "serving"} /\ link /\ d \in known /\ d \notin late => ViewIsLine(d)

\* The newest note of d is what the view has, or the subscriber has seen it.
Told ==
  \A d \in RosterDevices : unshown[d] = "no" =>
    /\ \A n \in Newest(notes, d) : n.entry = view[d]
    /\ ~Mentions(notes, d) => shown[d] = view[d]

PumpInv == PumpTyped /\ PhaseKnown /\ SeenIsPast /\ Pumped /\ Told /\ Pump!NoSendOnClosed

-----------------------------------------------------------------------------
(* Queues *)

\* A new item is the newest of its device and changes nothing for the others.
LEMMA NewestOfAppend ==
  ASSUME NEW T, NEW s \in Seq(T), NEW e \in T, NEW d
  PROVE  /\ Newest(Append(s, e), d) = IF e.device = d THEN {e} ELSE Newest(s, d)
         /\ Mentions(Append(s, e), d) <=> (e.device = d \/ Mentions(s, d))
<1> DEFINE n == Len(s)
           t == Append(s, e)
<1>1. /\ n \in Nat /\ Len(t) = n + 1 /\ t[n + 1] = e
      /\ \A i \in 1 .. n : t[i] = s[i]
  OBVIOUS
<1> HIDE DEF n, t
<1>2. Mentions(t, d) <=> (e.device = d \/ Mentions(s, d))
  <2>1. ASSUME Mentions(t, d) PROVE e.device = d \/ Mentions(s, d)
    BY <1>1, <2>1 DEF Mentions, n
  <2>2. ASSUME e.device = d PROVE Mentions(t, d)
    BY <1>1, <2>2 DEF Mentions
  <2>3. ASSUME Mentions(s, d) PROVE Mentions(t, d)
    BY <1>1, <2>3 DEF Mentions, n
  <2> QED
    BY <2>1, <2>2, <2>3
<1>3. CASE e.device = d
  <2>1. ASSUME NEW c \in Newest(t, d) PROVE c = e
    <3>1. PICK i \in 1 .. n + 1 :
            /\ c = t[i]
            /\ \A j \in 1 .. n + 1 : j > i => t[j].device # d
      BY <1>1 DEF Newest
    <3>2. i = n + 1
      BY <1>1, <1>3, <3>1
    <3> QED
      BY <1>1, <3>1, <3>2
  <2>2. e \in Newest(t, d)
    <3>1. n + 1 \in 1 .. Len(t) /\ \A j \in 1 .. Len(t) : j > n + 1 => t[j].device # d
      BY <1>1
    <3> QED
      BY <1>1, <1>3, <3>1 DEF Newest
  <2> QED
    BY <1>2, <1>3, <2>1, <2>2 DEF t
<1>4. CASE e.device # d
  <2>1. ASSUME NEW c \in Newest(t, d) PROVE c \in Newest(s, d)
    <3>1. PICK i \in 1 .. n + 1 :
            /\ c = t[i] /\ t[i].device = d
            /\ \A j \in 1 .. n + 1 : j > i => t[j].device # d
      BY <1>1 DEF Newest
    <3>2. i \in 1 .. n
      BY <1>1, <1>4, <3>1
    <3>3. c = s[i] /\ s[i].device = d /\ \A j \in 1 .. n : j > i => s[j].device # d
      BY <1>1, <3>1, <3>2
    <3> QED
      BY <3>2, <3>3 DEF Newest, n
  <2>2. ASSUME NEW c \in Newest(s, d) PROVE c \in Newest(t, d)
    <3>1. PICK i \in 1 .. n :
            /\ c = s[i] /\ s[i].device = d
            /\ \A j \in 1 .. n : j > i => s[j].device # d
      BY DEF Newest, n
    <3>2. i \in 1 .. Len(t) /\ c = t[i] /\ t[i].device = d
      BY <1>1, <3>1
    <3>3. \A j \in 1 .. Len(t) : j > i => t[j].device # d
      <4> SUFFICES ASSUME NEW j \in 1 .. n + 1, j > i PROVE t[j].device # d
        BY <1>1
      <4>1. CASE j = n + 1
        BY <1>1, <1>4, <4>1
      <4>2. CASE j \in 1 .. n
        BY <1>1, <3>1, <4>2
      <4> QED
        BY <1>1, <4>1, <4>2
    <3> QED
      BY <3>2, <3>3 DEF Newest
  <2>3. Newest(t, d) = Newest(s, d)
    BY <2>1, <2>2
  <2> QED
    BY <1>2, <1>4, <2>3 DEF t
<1> QED
  BY <1>3, <1>4

\* What is taken from a queue was the newest item of its device if no other
\* mentions the device; whatever the rest mentions is as it was.
LEMMA NewestOfTail ==
  ASSUME NEW T, NEW s \in Seq(T), s # <<>>, NEW d
  PROVE  /\ Newest(Tail(s), d) \subseteq Newest(s, d)
         /\ Mentions(Tail(s), d) => Mentions(s, d)
         /\ ~Mentions(Tail(s), d) /\ Head(s).device = d => Head(s) \in Newest(s, d)
         /\ ~Mentions(Tail(s), d) /\ Head(s).device # d => ~Mentions(s, d)
<1> DEFINE n == Len(s)
           t == Tail(s)
<1>1. /\ n \in Nat /\ n > 0 /\ Len(t) = n - 1 /\ Head(s) = s[1]
      /\ \A i \in 1 .. n - 1 : t[i] = s[i + 1]
  OBVIOUS
<1> HIDE DEF n, t
<1>2. ASSUME NEW j \in 2 .. n PROVE j - 1 \in 1 .. n - 1 /\ t[j - 1] = s[j]
  <2>1. j - 1 \in 1 .. n - 1 /\ (j - 1) + 1 = j
    BY <1>1
  <2> QED
    BY <1>1, <2>1
<1>3. ASSUME NEW c \in Newest(t, d) PROVE c \in Newest(s, d)
  <2>1. PICK i \in 1 .. n - 1 :
          /\ c = t[i] /\ t[i].device = d
          /\ \A j \in 1 .. n - 1 : j > i => t[j].device # d
    BY <1>1 DEF Newest
  <2>2. i + 1 \in 1 .. n /\ c = s[i + 1] /\ s[i + 1].device = d
    BY <1>1, <2>1
  <2>3. \A j \in 1 .. n : j > i + 1 => s[j].device # d
    <3> SUFFICES ASSUME NEW j \in 1 .. n, j > i + 1 PROVE s[j].device # d
      OBVIOUS
    <3>1. j \in 2 .. n /\ j - 1 > i
      BY <1>1, <2>1
    <3> QED
      BY <1>2, <2>1, <3>1
  <2> QED
    BY <2>2, <2>3 DEF Newest, n
<1>4. Mentions(t, d) => Mentions(s, d)
  <2> SUFFICES ASSUME NEW i \in 1 .. n - 1, t[i].device = d PROVE Mentions(s, d)
    BY <1>1 DEF Mentions
  <2>1. i + 1 \in 1 .. n /\ s[i + 1].device = d
    BY <1>1
  <2> QED
    BY <2>1 DEF Mentions, n
<1>5. ASSUME ~Mentions(t, d) PROVE \A j \in 2 .. n : s[j].device # d
  BY <1>1, <1>2, <1>5 DEF Mentions
<1>6. ~Mentions(t, d) /\ Head(s).device = d => Head(s) \in Newest(s, d)
  <2> SUFFICES ASSUME ~Mentions(t, d), s[1].device = d PROVE s[1] \in Newest(s, d)
    BY <1>1
  <2>1. 1 \in 1 .. n /\ \A j \in 1 .. n : j > 1 => s[j].device # d
    BY <1>1, <1>5
  <2> QED
    BY <2>1 DEF Newest, n
<1>7. ~Mentions(t, d) /\ Head(s).device # d => ~Mentions(s, d)
  <2> SUFFICES ASSUME ~Mentions(t, d), s[1].device # d, NEW j \in 1 .. n, s[j].device = d PROVE FALSE
    BY <1>1 DEF Mentions, n
  <2>1. j = 1 \/ j \in 2 .. n
    BY <1>1
  <2> QED
    BY <1>5, <2>1
<1> QED
  BY <1>3, <1>4, <1>6, <1>7 DEF t

LEMMA NothingMentioned == ASSUME NEW d PROVE Newest(<<>>, d) = {} /\ ~Mentions(<<>>, d)
  BY DEF Newest, Mentions

-----------------------------------------------------------------------------
(* Roster: the tracker's steps *)

LEMMA RosterConstants ==
  /\ Self \in RosterDevices /\ NoLabel \in Labels
  /\ Buffer \in Nat /\ Buffer > 0 /\ ViewBuffer \in Nat /\ ViewBuffer > 0
  /\ RosterMaxTime \in Nat /\ RosterMaxTime > 0 /\ MaxMoves \in Nat
  BY CoordinatorAssumption DEF Pump!RosterAssumption

LEMMA LineTypes ==
  ASSUME PumpTyped
  PROVE  /\ line \in [RosterDevices -> Lines] /\ view \in [RosterDevices -> Lines]
         /\ shown \in [RosterDevices -> Lines]
         /\ rosterNow \in Nat
  BY RosterConstants DEF PumpTyped, Pump!TypeOK, Lines

\* A change of x is in the channel, or x is marked; nothing happens to others.
LEMMA Notified ==
  ASSUME PumpTyped, NEW x \in RosterDevices, NEW e \in Lines, Pump!NotifyLocked(x, e)
  PROVE  /\ chan' \in Seq(Changes) /\ Len(chan') <= Buffer
         /\ missed' \in [RosterDevices -> {"no", "dropped", "beaten"}]
         /\ \/ chan' = Append(chan, [device |-> x, entry |-> e])
            \/ chan' = chan /\ (listed => missed'[x] = "dropped")
         /\ ~listed => chan' = chan
         /\ \A d \in RosterDevices \ {x} : missed'[d] = missed[d]
<1> DEFINE c == [device |-> x, entry |-> e]
<1>1. c \in Changes /\ chan \in Seq(Changes) /\ Len(chan) <= Buffer
  BY DEF Changes, PumpTyped, Pump!TypeOK
<1>2. missed \in [RosterDevices -> {"no", "dropped", "beaten"}]
  BY DEF PumpTyped
<1>3. \/ chan' = chan /\ missed' = missed /\ ~listed
      \/ Len(chan) < Buffer /\ chan' = Append(chan, c) /\ missed' = [missed EXCEPT ![x] = "no"]
      \/ chan' = chan /\ missed' = [missed EXCEPT ![x] = "dropped"]
  BY DEF Pump!NotifyLocked
<1> HIDE DEF c
<1>4. chan' \in Seq(Changes) /\ Len(chan') <= Buffer
  BY <1>1, <1>3, RosterConstants
<1>5. missed' \in [RosterDevices -> {"no", "dropped", "beaten"}]
  <2>1. \/ missed' = missed
        \/ missed' = [missed EXCEPT ![x] = "no"] \/ missed' = [missed EXCEPT ![x] = "dropped"]
    BY <1>3
  <2> QED
    BY <1>2, <2>1
<1>6. /\ \/ chan' = Append(chan, c)
         \/ chan' = chan /\ (listed => missed'[x] = "dropped")
      /\ ~listed => chan' = chan
      /\ \A d \in RosterDevices \ {x} : missed'[d] = missed[d]
  <2>1. ~listed => chan' = chan
    BY DEF Pump!NotifyLocked
  <2> QED
    BY <1>2, <1>3, <2>1
<1> QED
  BY <1>4, <1>5, <1>6 DEF c

\* The line of x changes, and the change is told: the pump's promises hold for
\* the new line, and those about other devices are as they were.
LEMMA LineChanges ==
  ASSUME PumpInv, NEW x \in RosterDevices, NEW e \in Lines, Pump!NotifyLocked(x, e),
         line' = [line EXCEPT ![x] = e], known' \subseteq known \cup {x},
         UNCHANGED <<listed, rosterPhase, rest, held, link, wire, late, view>>
  PROVE  Pumped'
<1> DEFINE c == [device |-> x, entry |-> e]
<1>1. PumpTyped
  BY DEF PumpInv
<1>2. line \in [RosterDevices -> Lines] /\ chan \in Seq(Changes)
  BY <1>1, LineTypes DEF PumpTyped
<1>3. c \in Changes /\ c.device = x /\ c.entry = e
  BY DEF Changes
<1>4. /\ \/ chan' = Append(chan, c)
         \/ chan' = chan /\ (listed => missed'[x] = "dropped")
      /\ \A d \in RosterDevices \ {x} : missed'[d] = missed[d]
  BY <1>1, Notified
<1> HIDE DEF c
<1> SUFFICES ASSUME NEW d \in RosterDevices \ {Self}, missed'[d] = "no"
             PROVE  /\ rosterPhase \in {"snapshot", "roster", "serving"} => ChangeIsLine(d)'
                    /\ rosterPhase \in {"roster", "serving"} /\ link /\ d \in known' /\ d \notin late
                         => ViewIsLine(d)'
  BY DEF Pumped
<1>5. CASE d = x
  <2>1. CASE chan' = Append(chan, c)
    <3>1. Newest(chan', d) = {c} /\ Mentions(chan', d)
      BY <1>2, <1>3, <1>5, <2>1, NewestOfAppend
    <3>2. line'[d] = e
      BY <1>2, <1>5
    <3>3. ChangeIsLine(d)'
      BY <1>3, <3>1, <3>2 DEF ChangeIsLine, Same
    <3>4. ViewIsLine(d)'
      BY <3>1 DEF ViewIsLine
    <3> QED
      BY <3>3, <3>4
  <2>2. CASE chan' = chan /\ (listed => missed'[x] = "dropped")
    <3>1. ~listed
      BY <1>5, <2>2
    <3> QED
      BY <3>1 DEF PumpInv, PhaseKnown
  <2> QED
    BY <1>4, <2>1, <2>2
<1>6. CASE d # x
  <2>1. missed[d] = "no" /\ line'[d] = line[d] /\ (d \in known' => d \in known)
    BY <1>2, <1>4, <1>6
  <2>2. Newest(chan', d) = Newest(chan, d) /\ (Mentions(chan', d) <=> Mentions(chan, d))
    <3>1. CASE chan' = chan
      BY <3>1
    <3>2. CASE chan' = Append(chan, c)
      BY <1>2, <1>3, <1>6, <3>2, NewestOfAppend
    <3> QED
      BY <1>4, <3>1, <3>2
  <2>3. ChangeIsLine(d) => ChangeIsLine(d)'
    BY <2>1, <2>2 DEF ChangeIsLine, Holds
  <2>4. ViewIsLine(d) => ViewIsLine(d)'
    BY <2>1, <2>2 DEF ViewIsLine, Holds, Listed
  <2> QED
    BY <2>1, <2>3, <2>4 DEF PumpInv, Pumped
<1> QED
  BY <1>5, <1>6

\* A line is only ever seen later, so its copies stay behind it.
LEMMA CopiesStayPast ==
  ASSUME PumpInv, line' \in [RosterDevices -> Lines],
         \A d \in RosterDevices : line'[d].seen >= line[d].seen
  PROVE  /\ \A d \in RosterDevices : view[d].seen <= line'[d].seen
         /\ \A i \in 1 .. Len(chan) : chan[i].entry.seen <= line'[chan[i].device].seen
         /\ \A i \in 1 .. Len(held) : held[i].entry.seen <= line'[held[i].device].seen
         /\ \A c \in rest : c.entry.seen <= line'[c.device].seen
         /\ \A i \in 1 .. Len(wire) : wire[i].seen <= line'[wire[i].device].seen
<1>1. PumpTyped /\ SeenIsPast
  BY DEF PumpInv
<1>2. line \in [RosterDevices -> Lines] /\ view \in [RosterDevices -> Lines]
  BY <1>1, LineTypes
<1>3. \A d \in RosterDevices : line[d].seen \in Nat /\ line'[d].seen \in Nat /\ view[d].seen \in Nat
  BY <1>2, RosterConstants DEF Lines
<1>4. \A c \in Changes : c.entry.seen <= line[c.device].seen => c.entry.seen <= line'[c.device].seen
  BY <1>3, RosterConstants DEF Changes, Lines
<1>5. \A u \in Updates : u.seen <= line[u.device].seen => u.seen <= line'[u.device].seen
  BY <1>3, RosterConstants DEF Updates
<1>6. \A d \in RosterDevices : view[d].seen <= line'[d].seen
  BY <1>1, <1>3 DEF SeenIsPast
<1>7. \A i \in 1 .. Len(chan) : chan[i].entry.seen <= line'[chan[i].device].seen
  <2>1. \A i \in 1 .. Len(chan) : chan[i] \in Changes
    BY <1>1 DEF PumpTyped
  <2> QED
    BY <1>1, <1>4, <2>1 DEF SeenIsPast
<1>8. \A i \in 1 .. Len(held) : held[i].entry.seen <= line'[held[i].device].seen
  <2>1. \A i \in 1 .. Len(held) : held[i] \in Changes
    BY <1>1 DEF PumpTyped
  <2> QED
    BY <1>1, <1>4, <2>1 DEF SeenIsPast
<1>9. \A c \in rest : c.entry.seen <= line'[c.device].seen
  BY <1>1, <1>4 DEF SeenIsPast, PumpTyped
<1>10. \A i \in 1 .. Len(wire) : wire[i].seen <= line'[wire[i].device].seen
  <2>1. \A i \in 1 .. Len(wire) : wire[i] \in Updates
    BY <1>1 DEF PumpTyped
  <2> QED
    BY <1>1, <1>5, <2>1 DEF SeenIsPast
<1> QED
  BY <1>6, <1>7, <1>8, <1>9, <1>10

LEMMA LineTold ==
  ASSUME PumpInv, NEW x \in RosterDevices, NEW e \in Lines, Pump!NotifyLocked(x, e),
         line' = [line EXCEPT ![x] = e], known' = known \cup {x},
         e.seen >= line[x].seen, e.seen <= rosterNow', rosterNow <= rosterNow',
         rosterNow' \in 1 .. RosterMaxTime, labels' \in 0 .. MaxMoves,
         UNCHANGED <<listed, closed, rosterPhase, rosterConns, rest, held, link, wire, late,
                     view, notes, shown, unshown>>
  PROVE  PumpInv'
<1>1. PumpTyped /\ PhaseKnown /\ SeenIsPast /\ Told /\ Pump!NoSendOnClosed
  BY DEF PumpInv
<1>2. /\ line \in [RosterDevices -> Lines] /\ view \in [RosterDevices -> Lines]
      /\ chan \in Seq(Changes) /\ rosterNow \in Nat
  BY <1>1, LineTypes DEF PumpTyped
<1>3. /\ chan' \in Seq(Changes) /\ Len(chan') <= Buffer
      /\ missed' \in [RosterDevices -> {"no", "dropped", "beaten"}]
      /\ \/ chan' = Append(chan, [device |-> x, entry |-> e])
         \/ chan' = chan
      /\ ~listed => chan' = chan
  BY <1>1, Notified
<1>4. PumpTyped'
  <2>1. line' \in [RosterDevices -> Lines]
    BY <1>2
  <2>2. view' \in [RosterDevices -> Lines] /\ shown' \in [RosterDevices -> Lines]
    BY <1>1 DEF PumpTyped, Pump!TypeOK, Lines
  <2>3. /\ known' \subseteq RosterDevices /\ late' \subseteq RosterDevices
        /\ rosterConns' \in 0 .. MaxMoves
        /\ listed' \in BOOLEAN /\ closed' \in BOOLEAN /\ link' \in BOOLEAN
        /\ Len(notes') <= ViewBuffer /\ Len(held') <= 1
        /\ rosterPhase' \in {"none", "subscribe", "snapshot", "roster", "serving", "unsubscribe", "closechan"}
    BY <1>1 DEF PumpTyped, Pump!TypeOK
  <2>4. Pump!TypeOK'
    BY <1>3, <2>1, <2>2, <2>3 DEF Pump!TypeOK, Lines
  <2> QED
    BY <1>1, <1>3, <2>4 DEF PumpTyped
<1>5. PhaseKnown'
  BY <1>1, <1>2, <1>3 DEF PhaseKnown
<1>6. /\ line' \in [RosterDevices -> Lines]
      /\ \A d \in RosterDevices : line'[d].seen >= line[d].seen /\ line'[d].seen <= rosterNow'
  <2>1. ASSUME NEW d \in RosterDevices
        PROVE  line'[d].seen >= line[d].seen /\ line'[d].seen <= rosterNow'
    <3>1. line[d].seen \in Nat /\ line[d].seen <= rosterNow
      BY <1>1, <1>2, RosterConstants DEF Lines, SeenIsPast
    <3>2. CASE d = x
      BY <1>2, <3>2
    <3>3. CASE d # x
      BY <1>2, <3>1, <3>3
    <3> QED
      BY <3>2, <3>3
  <2> QED
    BY <1>2, <2>1
<1>7. SeenIsPast'
  <2>1. \A i \in 1 .. Len(chan') : chan'[i].entry.seen <= line'[chan'[i].device].seen
    <3>1. \A i \in 1 .. Len(chan) : chan[i].entry.seen <= line'[chan[i].device].seen
      BY <1>6, CopiesStayPast
    <3>2. CASE chan' = chan
      BY <3>1, <3>2
    <3>3. CASE chan' = Append(chan, [device |-> x, entry |-> e])
      <4>1. /\ Len(chan') = Len(chan) + 1 /\ Len(chan) \in Nat
            /\ \A i \in 1 .. Len(chan) : chan'[i] = chan[i]
            /\ chan'[Len(chan) + 1] = [device |-> x, entry |-> e]
        BY <1>2, <3>3
      <4>2. e.seen <= line'[x].seen
        BY <1>2, RosterConstants DEF Lines
      <4> QED
        BY <3>1, <4>1, <4>2
    <3> QED
      BY <1>3, <3>2, <3>3
  <2> QED
    BY <1>6, <2>1, CopiesStayPast DEF SeenIsPast
<1>8. Pumped'
  BY LineChanges
<1>9. Told' /\ Pump!NoSendOnClosed'
  BY <1>1 DEF Told, Pump!NoSendOnClosed
<1> QED
  BY <1>4, <1>5, <1>7, <1>8, <1>9 DEF PumpInv

\* A heartbeat of a device that is online tells nobody, and need not.
LEMMA ObserveKeeps == ASSUME PumpInv, NEW x \in RosterDevices, Pump!Observe(x) PROVE PumpInv'
<1> DEFINE e == Pump!Line(TRUE, rosterNow + 1, line[x].status)
<1> USE DEF Pump!handler, Pump!client, Pump!tracker, Pump!sub
<1>1. PumpTyped /\ PhaseKnown /\ SeenIsPast /\ Pumped /\ Told /\ Pump!NoSendOnClosed
  BY DEF PumpInv
<1>2. /\ line \in [RosterDevices -> Lines] /\ view \in [RosterDevices -> Lines]
      /\ rosterNow \in Nat /\ labels \in 0 .. MaxMoves
  BY <1>1, LineTypes DEF PumpTyped, Pump!TypeOK
<1>3. /\ rosterNow < RosterMaxTime /\ rosterNow' = rosterNow + 1
      /\ known' = known \cup {x} /\ line' = [line EXCEPT ![x] = e]
      /\ UNCHANGED <<labels, listed, closed, rosterPhase, rosterConns, rest, held, link, wire, late,
                     view, notes, shown, unshown>>
  BY DEF Pump!Observe
<1>4. e \in Lines /\ e.online = TRUE /\ e.status = line[x].status /\ e.seen = rosterNow + 1
  <2>1. rosterNow + 1 \in 0 .. RosterMaxTime /\ line[x].status \in Labels
    BY <1>2, <1>3, RosterConstants DEF Lines
  <2> QED
    BY <2>1 DEF Lines, Pump!Line
<1> HIDE DEF e
<1>5. e.seen >= line[x].seen /\ e.seen <= rosterNow' /\ line'[x] = e
  <2>1. line[x].seen \in Nat /\ line[x].seen <= rosterNow
    BY <1>1, <1>2, RosterConstants DEF SeenIsPast, Lines
  <2>2. e.seen >= line[x].seen /\ e.seen <= rosterNow'
    BY <1>2, <1>3, <1>4, <2>1
  <2> QED
    BY <1>2, <1>3, <2>2
<1>6. CASE line[x].online
  <2>1. /\ chan' = chan
        /\ missed' = [missed EXCEPT ![x] = IF @ = "no" THEN @ ELSE "beaten"]
    BY <1>6 DEF Pump!Observe
  <2>2. /\ missed' \in [RosterDevices -> {"no", "dropped", "beaten"}]
        /\ \A d \in RosterDevices : missed'[d] = "no" <=> missed[d] = "no"
    BY <1>1, <2>1 DEF PumpTyped
  <2>3. PumpTyped'
    <3>1. line' \in [RosterDevices -> Lines]
      BY <1>2, <1>3, <1>4
    <3>2. rosterNow' \in 1 .. RosterMaxTime /\ known' \subseteq RosterDevices
      BY <1>1, <1>2, <1>3, RosterConstants DEF PumpTyped, Pump!TypeOK
    <3>3. Pump!TypeOK'
      BY <1>1, <1>3, <2>1, <3>1, <3>2 DEF PumpTyped, Pump!TypeOK, Lines
    <3> QED
      BY <1>1, <1>3, <2>1, <2>2, <3>3 DEF PumpTyped
  <2>4. PhaseKnown'
    BY <1>1, <1>2, <1>3, <2>1 DEF PhaseKnown
  <2>5. x \in known
    BY <1>1, <1>6 DEF PhaseKnown
  <2>6. SeenIsPast'
    <3>1. line' \in [RosterDevices -> Lines]
      BY <1>2, <1>3, <1>4
    <3>2. ASSUME NEW d \in RosterDevices
          PROVE  line'[d].seen >= line[d].seen /\ line'[d].seen <= rosterNow'
      <4>1. line[d].seen \in Nat /\ line[d].seen <= rosterNow
        BY <1>1, <1>2, RosterConstants DEF Lines, SeenIsPast
      <4>2. CASE d = x
        BY <1>5, <4>2
      <4>3. CASE d # x
        BY <1>2, <1>3, <4>1, <4>3
      <4> QED
        BY <4>2, <4>3
    <3> QED
      BY <1>3, <2>1, <3>1, <3>2, CopiesStayPast DEF SeenIsPast
  <2>7. ASSUME NEW f PROVE (Same(f, line[x]) => Same(f, line'[x])) /\ (Says(f, line[x]) => Says(f, line'[x]))
    <3>1. line[x].online = TRUE
      BY <1>2, <1>6 DEF Lines
    <3> QED
      BY <1>4, <1>5, <3>1 DEF Same, Says
  <2>8. Pumped'
    <3> SUFFICES ASSUME NEW d \in RosterDevices \ {Self}, missed'[d] = "no"
                 PROVE  /\ rosterPhase \in {"snapshot", "roster", "serving"} => ChangeIsLine(d)'
                        /\ rosterPhase \in {"roster", "serving"} /\ link /\ d \in known' /\ d \notin late
                             => ViewIsLine(d)'
      BY <1>3 DEF Pumped
    <3>1. missed[d] = "no" /\ (d \in known' => d \in known)
      BY <1>3, <2>2, <2>5
    <3>2. ASSUME NEW f
          PROVE  (Same(f, line[d]) => Same(f, line'[d])) /\ (Says(f, line[d]) => Says(f, line'[d]))
      <4>1. CASE d = x
        BY <2>7, <4>1
      <4>2. CASE d # x
        BY <1>2, <1>3, <4>2
      <4> QED
        BY <4>1, <4>2
    <3>3. ChangeIsLine(d) => ChangeIsLine(d)'
      BY <1>3, <2>1, <3>2 DEF ChangeIsLine, Holds
    <3>4. ViewIsLine(d) => ViewIsLine(d)'
      BY <1>3, <2>1, <3>2 DEF ViewIsLine, Holds, Listed
    <3> QED
      BY <1>1, <3>1, <3>3, <3>4 DEF Pumped
  <2>9. Told' /\ Pump!NoSendOnClosed'
    BY <1>1, <1>3 DEF Told, Pump!NoSendOnClosed
  <2> QED
    BY <2>3, <2>4, <2>6, <2>8, <2>9 DEF PumpInv
<1>7. CASE ~line[x].online
  <2>1. Pump!NotifyLocked(x, e)
    BY <1>3, <1>5, <1>7 DEF Pump!Observe
  <2>2. rosterNow' \in 1 .. RosterMaxTime /\ labels' \in 0 .. MaxMoves /\ rosterNow <= rosterNow'
    BY <1>2, <1>3, RosterConstants
  <2> QED
    BY <1>2, <1>3, <1>4, <1>5, <2>1, <2>2, LineTold
<1> QED
  BY <1>6, <1>7

LEMMA VanishKeeps == ASSUME PumpInv, NEW x \in RosterDevices, Pump!Vanish(x) PROVE PumpInv'
<1>1. PumpTyped /\ PhaseKnown /\ SeenIsPast
  BY DEF PumpInv
<1>2. /\ line \in [RosterDevices -> Lines] /\ line[x] \in Lines
      /\ rosterNow \in 1 .. RosterMaxTime /\ labels \in 0 .. MaxMoves
  BY <1>1, LineTypes DEF PumpTyped, Pump!TypeOK
<1>3. PICK seen \in {line[x].seen, rosterNow} :
        /\ line' = [line EXCEPT ![x] = Pump!Line(FALSE, seen, line[x].status)]
        /\ line[x].online /\ Pump!NotifyLocked(x, line'[x])
        /\ UNCHANGED <<known, rosterNow, labels, listed, closed, rosterPhase, rosterConns, rest,
                       held, link, wire, late, view, notes, shown, unshown>>
  BY DEF Pump!Vanish, Pump!handler, Pump!client
<1> DEFINE e == Pump!Line(FALSE, seen, line[x].status)
<1>4. e \in Lines /\ e.seen \in {line[x].seen, rosterNow}
  BY <1>2, <1>3, RosterConstants DEF Lines, Pump!Line
<1> HIDE DEF e
<1>5. line'[x] = e /\ known' = known \cup {x} /\ line' = [line EXCEPT ![x] = e]
  BY <1>1, <1>2, <1>3 DEF PhaseKnown, e
<1>6. e.seen >= line[x].seen /\ e.seen <= rosterNow' /\ rosterNow <= rosterNow'
  BY <1>1, <1>2, <1>3, <1>4, RosterConstants DEF SeenIsPast, Lines
<1>7. Pump!NotifyLocked(x, e)
  BY <1>3, <1>5
<1> QED
  BY <1>2, <1>3, <1>4, <1>5, <1>6, <1>7, LineTold

LEMMA SetStatusKeeps ==
  ASSUME PumpInv, NEW x \in RosterDevices, NEW text \in Labels, Pump!SetStatus(x, text)
  PROVE  PumpInv'
<1> DEFINE e == [line[x] EXCEPT !.status = text]
<1>1. PumpTyped /\ SeenIsPast
  BY DEF PumpInv
<1>2. /\ line \in [RosterDevices -> Lines] /\ line[x] \in Lines
      /\ rosterNow \in 1 .. RosterMaxTime /\ labels \in 0 .. MaxMoves /\ rosterConns \in 0 .. MaxMoves
  BY <1>1, LineTypes DEF PumpTyped, Pump!TypeOK
<1>3. /\ line' = [line EXCEPT ![x] = e] /\ Pump!NotifyLocked(x, line'[x])
      /\ known' = known \cup {x} /\ labels' = labels + 1 /\ labels + rosterConns < MaxMoves
      /\ UNCHANGED <<rosterNow, listed, closed, rosterPhase, rosterConns, rest, held, link, wire, late,
                     view, notes, shown, unshown>>
  BY DEF Pump!SetStatus, Pump!handler, Pump!client
<1>4. e \in Lines /\ e.seen = line[x].seen
  BY <1>2 DEF Lines
<1> HIDE DEF e
<1>5. line'[x] = e /\ labels' \in 0 .. MaxMoves
  BY <1>2, <1>3, RosterConstants
<1>6. e.seen >= line[x].seen /\ e.seen <= rosterNow' /\ rosterNow <= rosterNow'
  BY <1>1, <1>2, <1>3, <1>4, RosterConstants DEF SeenIsPast, Lines
<1>7. Pump!NotifyLocked(x, e)
  BY <1>3, <1>5
<1> QED
  BY <1>2, <1>3, <1>4, <1>5, <1>6, <1>7, LineTold

-----------------------------------------------------------------------------
(* Roster: the handler's steps *)

\* A step outside the phases that pump leaves nothing to keep but types and
\* times.
LEMMA NotPumping ==
  ASSUME rosterPhase' \notin {"snapshot", "roster", "serving"} PROVE Pumped'
  BY DEF Pumped

LEMMA EstablishKeeps == ASSUME PumpInv, Pump!Establish PROVE PumpInv'
<1> DEFINE e == Pump!Line(TRUE, rosterNow, line[Self].status)
<1>1. PumpTyped /\ PhaseKnown /\ SeenIsPast /\ Told /\ Pump!NoSendOnClosed
  BY DEF PumpInv
<1>2. /\ line \in [RosterDevices -> Lines] /\ line[Self] \in Lines
      /\ rosterNow \in 1 .. RosterMaxTime /\ rosterConns \in 0 .. MaxMoves /\ labels \in 0 .. MaxMoves
  BY <1>1, LineTypes, RosterConstants DEF PumpTyped, Pump!TypeOK
<1>3. /\ rosterPhase = "none" /\ labels + rosterConns < MaxMoves /\ rosterConns' = rosterConns + 1
      /\ known' = known \cup {Self} /\ line' = [line EXCEPT ![Self] = e]
      /\ link' = TRUE /\ rosterPhase' = "subscribe"
      /\ UNCHANGED <<rosterNow, labels, listed, closed, missed, chan, rest, held, wire, late,
                     view, notes, shown, unshown>>
  BY DEF Pump!Establish, Pump!sub, Pump!client
<1>4. e \in Lines /\ e.seen = rosterNow
  BY <1>2, RosterConstants DEF Lines, Pump!Line
<1> HIDE DEF e
<1>5. line' \in [RosterDevices -> Lines]
  BY <1>2, <1>3, <1>4
<1>6. PumpTyped'
  <2>1. rosterConns' \in 0 .. MaxMoves /\ known' \subseteq RosterDevices
    BY <1>1, <1>2, <1>3, RosterConstants DEF PumpTyped, Pump!TypeOK
  <2>2. Pump!TypeOK'
    BY <1>1, <1>3, <1>5, <2>1 DEF PumpTyped, Pump!TypeOK, Lines
  <2> QED
    BY <1>1, <1>3, <2>2 DEF PumpTyped
<1>7. PhaseKnown'
  BY <1>1, <1>2, <1>3 DEF PhaseKnown
<1>8. SeenIsPast'
  <2>1. ASSUME NEW d \in RosterDevices
        PROVE  line'[d].seen >= line[d].seen /\ line'[d].seen <= rosterNow'
    <3>1. line[d].seen \in Nat /\ line[d].seen <= rosterNow /\ rosterNow \in Nat
      BY <1>1, <1>2, RosterConstants DEF Lines, SeenIsPast
    <3>2. CASE d = Self
      BY <1>2, <1>3, <1>4, <3>1, <3>2, RosterConstants
    <3>3. CASE d # Self
      BY <1>2, <1>3, <3>1, <3>3
    <3> QED
      BY <3>2, <3>3
  <2> QED
    BY <1>3, <1>5, <2>1, CopiesStayPast DEF SeenIsPast
<1>9. Told' /\ Pump!NoSendOnClosed'
  BY <1>1, <1>3 DEF Told, Pump!NoSendOnClosed
<1> QED
  BY <1>3, <1>6, <1>7, <1>8, <1>9, NotPumping DEF PumpInv

LEMMA SubscribeKeeps == ASSUME PumpInv, Pump!Subscribe PROVE PumpInv'
<1>1. PumpTyped /\ PhaseKnown /\ SeenIsPast /\ Told
  BY DEF PumpInv
<1>2. /\ rosterPhase = "subscribe" /\ listed' = TRUE /\ closed' = FALSE /\ chan' = <<>>
      /\ missed' = [d \in RosterDevices |-> "no"] /\ late' = {} /\ rosterPhase' = "snapshot"
      /\ UNCHANGED <<known, line, rosterNow, labels, rosterConns, rest, held, link, wire,
                     view, notes, shown, unshown>>
  BY DEF Pump!Subscribe, Pump!tracker, Pump!client
<1>3. PumpTyped'
  <2>1. chan' \in Seq(Changes) /\ Len(chan') = 0
    BY <1>2
  <2>2. Pump!TypeOK'
    <3>1. Len(chan') <= Buffer
      BY <2>1, RosterConstants
    <3>2. listed' \in BOOLEAN /\ closed' \in BOOLEAN /\ late' \subseteq RosterDevices
      BY <1>2
    <3> QED
      BY <1>1, <1>2, <3>1, <3>2 DEF PumpTyped, Pump!TypeOK
  <2> QED
    BY <1>1, <1>2, <2>1, <2>2 DEF PumpTyped
<1>4. PhaseKnown' /\ Told' /\ Pump!NoSendOnClosed'
  BY <1>1, <1>2 DEF PhaseKnown, Told, Pump!NoSendOnClosed
<1>5. SeenIsPast'
  BY <1>1, <1>2 DEF SeenIsPast
<1>6. Pumped'
  <2> SUFFICES ASSUME NEW d \in RosterDevices \ {Self} PROVE ChangeIsLine(d)'
    BY <1>2 DEF Pumped
  <2>1. Newest(chan', d) = {} /\ ~Holds(d)'
    BY <1>1, <1>2, NothingMentioned DEF PhaseKnown, Holds
  <2> QED
    BY <2>1 DEF ChangeIsLine
<1> QED
  BY <1>3, <1>4, <1>5, <1>6 DEF PumpInv

\* The roster holds the line of every known device.
LEMMA SnapshotKeeps == ASSUME PumpInv, Pump!Snapshot PROVE PumpInv'
<1>1. PumpTyped /\ PhaseKnown /\ SeenIsPast /\ Pumped /\ Told /\ Pump!NoSendOnClosed
  BY DEF PumpInv
<1>2. line \in [RosterDevices -> Lines] /\ known \subseteq RosterDevices
  BY <1>1, LineTypes DEF PumpTyped, Pump!TypeOK
<1>3. /\ rosterPhase = "snapshot" /\ rosterPhase' = "roster"
      /\ rest' = {[device |-> d, entry |-> line[d]] : d \in known}
      /\ UNCHANGED <<known, line, rosterNow, labels, listed, closed, missed, chan, rosterConns, held,
                     link, wire, late, view, notes, shown, unshown>>
  BY DEF Pump!Snapshot, Pump!tracker, Pump!sub, Pump!client
<1>4. \A c \in rest' : c \in Changes /\ c.entry = line[c.device]
  BY <1>2, <1>3 DEF Changes
<1>5. PumpTyped'
  <2>1. Pump!TypeOK'
    BY <1>1, <1>3 DEF PumpTyped, Pump!TypeOK
  <2> QED
    BY <1>1, <1>3, <1>4, <2>1 DEF PumpTyped
<1>6. PhaseKnown' /\ Told' /\ Pump!NoSendOnClosed'
  BY <1>1, <1>3 DEF PhaseKnown, Told, Pump!NoSendOnClosed
<1>7. SeenIsPast'
  <2>1. \A c \in rest' : c.entry.seen <= line[c.device].seen
    BY <1>2, <1>4, RosterConstants DEF Changes, Lines
  <2> QED
    BY <1>1, <1>3, <2>1 DEF SeenIsPast
<1>8. Pumped'
  <2> SUFFICES ASSUME NEW d \in RosterDevices \ {Self}, missed[d] = "no"
               PROVE  ChangeIsLine(d)' /\ (d \in known => ViewIsLine(d)')
    BY <1>3 DEF Pumped
  <2>1. ChangeIsLine(d)'
    BY <1>1, <1>3 DEF Pumped, ChangeIsLine, Holds
  <2>2. ASSUME d \in known PROVE ViewIsLine(d)'
    <3>1. [device |-> d, entry |-> line[d]] \in rest'
      BY <1>3, <2>2
    <3>2. Listed(d)'
      BY <3>1 DEF Listed
    <3>3. \A c \in rest' : c.device = d => Same(c.entry, line'[d])
      BY <1>3, <1>4 DEF Same
    <3> QED
      BY <3>2, <3>3 DEF ViewIsLine
  <2> QED
    BY <2>1, <2>2
<1> QED
  BY <1>5, <1>6, <1>7, <1>8 DEF PumpInv

-----------------------------------------------------------------------------
(* Roster: writing to the socket *)

\* The conversion to the wire keeps what a line says: the time travels with an
\* offline line only.
LEMMA UpdateSays ==
  ASSUME NEW c \in Changes
  PROVE  /\ Pump!Update(c) \in Updates /\ Pump!Update(c).device = c.device
         /\ Pump!Update(c).seen <= c.entry.seen
         /\ \A l \in Lines : Same(c.entry, l) => Says(Pump!Update(c), l)
<1>1. /\ c.device \in RosterDevices /\ c.entry \in Lines /\ c.entry.online \in BOOLEAN
      /\ c.entry.seen \in 0 .. RosterMaxTime /\ c.entry.status \in Labels
  BY DEF Changes, Lines
<1>2. CASE c.entry.online
  <2>1. Pump!Update(c) = [device |-> c.device, state |-> "online", seen |-> 0, status |-> c.entry.status]
    BY <1>2 DEF Pump!Update
  <2>2. \A l \in Lines : Same(c.entry, l) => Says(Pump!Update(c), l)
    BY <1>1, <1>2, <2>1 DEF Same, Says, Lines
  <2> QED
    BY <1>1, <2>1, <2>2, RosterConstants DEF Updates
<1>3. CASE ~c.entry.online
  <2>1. Pump!Update(c) =
          [device |-> c.device, state |-> "offline", seen |-> c.entry.seen, status |-> c.entry.status]
    BY <1>3 DEF Pump!Update
  <2>2. \A l \in Lines : Same(c.entry, l) => Says(Pump!Update(c), l)
    BY <1>1, <1>3, <2>1 DEF Same, Says, Lines
  <2> QED
    BY <1>1, <2>1, <2>2, RosterConstants DEF Updates
<1> QED
  BY <1>2, <1>3

LEMMA Written ==
  ASSUME PumpInv, NEW c \in Changes, c.entry.seen <= line[c.device].seen, Pump!Write(c)
  PROVE  /\ wire' \in Seq(Updates)
         /\ \A i \in 1 .. Len(wire') : wire'[i].seen <= line[wire'[i].device].seen
         /\ link => \A d \in RosterDevices :
              /\ Newest(wire', d) = IF c.device = d THEN {Pump!Update(c)} ELSE Newest(wire, d)
              /\ Mentions(wire', d) <=> (c.device = d \/ Mentions(wire, d))
<1> DEFINE u == Pump!Update(c)
<1>1. PumpTyped /\ SeenIsPast
  BY DEF PumpInv
<1>2. wire \in Seq(Updates) /\ line \in [RosterDevices -> Lines]
  BY <1>1, LineTypes DEF PumpTyped
<1>3. u \in Updates /\ u.device = c.device /\ u.seen <= c.entry.seen
  BY UpdateSays
<1>4. (link /\ wire' = Append(wire, u)) \/ (~link /\ wire' = wire)
  BY DEF Pump!Write
<1>5. u.seen <= line[u.device].seen
  <2>1. c.entry.seen \in Nat /\ u.seen \in Nat /\ line[c.device].seen \in Nat
    BY <1>2, <1>3, RosterConstants DEF Changes, Lines, Updates
  <2> QED
    BY <1>3, <2>1
<1> HIDE DEF u
<1>6. CASE link /\ wire' = Append(wire, u)
  <2>1. /\ Len(wire') = Len(wire) + 1 /\ Len(wire) \in Nat
        /\ \A i \in 1 .. Len(wire) : wire'[i] = wire[i]
        /\ wire'[Len(wire) + 1] = u
    BY <1>2, <1>3, <1>6
  <2>2. \A i \in 1 .. Len(wire) : wire[i].seen <= line[wire[i].device].seen
    BY <1>1 DEF SeenIsPast
  <2>3. \A i \in 1 .. Len(wire') : wire'[i].seen <= line[wire'[i].device].seen
    BY <1>5, <2>1, <2>2
  <2>4. \A d \in RosterDevices :
          /\ Newest(wire', d) = IF u.device = d THEN {u} ELSE Newest(wire, d)
          /\ Mentions(wire', d) <=> (u.device = d \/ Mentions(wire, d))
    BY <1>2, <1>3, <1>6, NewestOfAppend
  <2>5. wire' \in Seq(Updates)
    BY <1>2, <1>3, <1>6
  <2> QED
    BY <1>3, <2>3, <2>4, <2>5 DEF u
<1>7. CASE ~link /\ wire' = wire
  BY <1>1, <1>2, <1>7 DEF SeenIsPast
<1> QED
  BY <1>4, <1>6, <1>7

\* The handler writes one line of the roster, or is through.
LEMMA WriteLineKeeps == ASSUME PumpInv, Pump!WriteLine PROVE PumpInv'
<1>1. PumpTyped /\ PhaseKnown /\ SeenIsPast /\ Pumped /\ Told /\ Pump!NoSendOnClosed
  BY DEF PumpInv
<1>2. line \in [RosterDevices -> Lines] /\ rest \subseteq Changes
  BY <1>1, LineTypes DEF PumpTyped
<1>3. /\ rosterPhase = "roster"
      /\ UNCHANGED <<known, line, rosterNow, labels, listed, closed, missed, chan, rosterConns, held,
                     link, late, view, notes, shown, unshown>>
  BY DEF Pump!WriteLine, Pump!tracker, Pump!sub, Pump!client
<1>4. CASE rest = {} /\ rosterPhase' = "serving" /\ UNCHANGED <<rest, wire>>
  <2>1. PumpTyped'
    <3>1. Pump!TypeOK'
      BY <1>1, <1>3, <1>4 DEF PumpTyped, Pump!TypeOK
    <3> QED
      BY <1>1, <1>3, <1>4, <3>1 DEF PumpTyped
  <2>2. PhaseKnown' /\ SeenIsPast' /\ Told' /\ Pump!NoSendOnClosed'
    BY <1>1, <1>3, <1>4 DEF PhaseKnown, SeenIsPast, Told, Pump!NoSendOnClosed
  <2>3. Pumped'
    BY <1>1, <1>3, <1>4 DEF Pumped, ChangeIsLine, ViewIsLine, Holds, Listed
  <2> QED
    BY <2>1, <2>2, <2>3 DEF PumpInv
<1>5. CASE \E c \in rest : Pump!Write(c) /\ rest' = rest \ {c} /\ UNCHANGED rosterPhase
  <2>1. PICK c \in rest : Pump!Write(c) /\ rest' = rest \ {c} /\ UNCHANGED rosterPhase
    BY <1>5
  <2>2. c \in Changes /\ c.entry.seen <= line[c.device].seen
    BY <1>1, <1>2 DEF SeenIsPast
  <2>3. /\ wire' \in Seq(Updates)
        /\ \A i \in 1 .. Len(wire') : wire'[i].seen <= line[wire'[i].device].seen
        /\ link => \A d \in RosterDevices :
             /\ Newest(wire', d) = IF c.device = d THEN {Pump!Update(c)} ELSE Newest(wire, d)
             /\ Mentions(wire', d) <=> (c.device = d \/ Mentions(wire, d))
    BY <2>1, <2>2, Written
  <2>4. PumpTyped'
    <3>1. Pump!TypeOK'
      BY <1>1, <1>3, <2>1 DEF PumpTyped, Pump!TypeOK
    <3> QED
      BY <1>1, <1>3, <2>1, <2>3, <3>1 DEF PumpTyped
  <2>5. PhaseKnown' /\ Told' /\ Pump!NoSendOnClosed'
    BY <1>1, <1>3, <2>1 DEF PhaseKnown, Told, Pump!NoSendOnClosed
  <2>6. SeenIsPast'
    BY <1>1, <1>3, <2>1, <2>3 DEF SeenIsPast
  <2>7. Pumped'
    <3> SUFFICES ASSUME NEW d \in RosterDevices \ {Self}, missed[d] = "no"
                 PROVE  /\ ChangeIsLine(d)'
                        /\ link /\ d \in known /\ d \notin late => ViewIsLine(d)'
      BY <1>3, <2>1 DEF Pumped
    <3>1. ChangeIsLine(d)'
      BY <1>1, <1>3 DEF Pumped, ChangeIsLine, Holds
    <3>2. ASSUME link, d \in known, d \notin late, ~Mentions(chan, d), ~Holds(d)
          PROVE  /\ \A b \in rest' : b.device = d => Same(b.entry, line[d])
                 /\ ~Listed(d)' =>
                      /\ \A u \in Newest(wire', d) : Says(u, line[d])
                      /\ ~Mentions(wire', d) => Same(view[d], line[d])
      <4>1. ViewIsLine(d)
        BY <1>1, <1>3, <3>2 DEF Pumped
      <4>2. \A b \in rest : b.device = d => Same(b.entry, line[d])
        BY <3>2, <4>1 DEF ViewIsLine
      <4>3. CASE c.device = d
        <5>1. Says(Pump!Update(c), line[d])
          BY <1>2, <2>2, <4>2, <4>3, UpdateSays
        <5> QED
          BY <2>1, <2>3, <3>2, <4>2, <4>3, <5>1
      <4>4. CASE c.device # d
        <5>1. Listed(d)' <=> Listed(d)
          BY <2>1, <4>4 DEF Listed
        <5>2. Newest(wire', d) = Newest(wire, d) /\ (Mentions(wire', d) <=> Mentions(wire, d))
          BY <2>3, <3>2, <4>4
        <5> QED
          BY <2>1, <3>2, <4>1, <4>2, <5>1, <5>2 DEF ViewIsLine
      <4> QED
        BY <4>3, <4>4
    <3>3. ASSUME link, d \in known, d \notin late PROVE ViewIsLine(d)'
      BY <1>3, <3>2, <3>3 DEF ViewIsLine, Holds
    <3> QED
      BY <3>1, <3>3
  <2> QED
    BY <2>4, <2>5, <2>6, <2>7 DEF PumpInv
<1> QED
  BY <1>4, <1>5 DEF Pump!WriteLine

\* The pump takes a change out of the channel: it was the newest of its device
\* if no other follows it.
LEMMA ReceiveKeeps == ASSUME PumpInv, Pump!Receive PROVE PumpInv'
<1> DEFINE h == Head(chan)
<1>1. PumpTyped /\ PhaseKnown /\ SeenIsPast /\ Pumped /\ Told /\ Pump!NoSendOnClosed
  BY DEF PumpInv
<1>2. chan \in Seq(Changes) /\ chan # <<>> /\ held = <<>>
  BY <1>1 DEF PumpTyped, Pump!Receive
<1>3. /\ held' = IF h.device = Self THEN <<>> ELSE <<h>>
      /\ chan' = Tail(chan)
      /\ UNCHANGED <<known, line, rosterNow, labels, listed, closed, missed, rosterPhase, rosterConns,
                     rest, link, wire, late, view, notes, shown, unshown>>
  BY DEF Pump!Receive, Pump!tracker, Pump!sub, Pump!handler, Pump!client
<1>4. /\ h \in Changes /\ h = chan[1] /\ Len(chan) \in Nat /\ Len(chan) > 0
      /\ chan' \in Seq(Changes) /\ Len(chan') = Len(chan) - 1
      /\ \A i \in 1 .. Len(chan') : chan'[i] = chan[i + 1] /\ i + 1 \in 1 .. Len(chan)
  BY <1>2, <1>3
<1> HIDE DEF h
<1>5. /\ held' \in Seq(Changes) /\ Len(held') <= 1
      /\ \A i \in 1 .. Len(held') : held'[i] = h
      /\ h.device # Self => held' # <<>> /\ held'[1] = h
  BY <1>3, <1>4
<1>6. PumpTyped'
  <2>1. Len(chan') <= Buffer
    BY <1>1, <1>4, RosterConstants DEF PumpTyped, Pump!TypeOK
  <2>2. Pump!TypeOK'
    BY <1>1, <1>3, <1>5, <2>1 DEF PumpTyped, Pump!TypeOK
  <2> QED
    BY <1>1, <1>3, <1>4, <1>5, <2>2 DEF PumpTyped
<1>7. PhaseKnown' /\ Told' /\ Pump!NoSendOnClosed'
  BY <1>1, <1>2, <1>3 DEF PhaseKnown, Told, Pump!NoSendOnClosed
<1>8. SeenIsPast'
  <2>1. \A i \in 1 .. Len(chan) : chan[i].entry.seen <= line[chan[i].device].seen
    BY <1>1 DEF SeenIsPast
  <2>2. h.entry.seen <= line[h.device].seen
    BY <1>4, <2>1
  <2>3. \A i \in 1 .. Len(chan') : chan'[i].entry.seen <= line[chan'[i].device].seen
    BY <1>4, <2>1
  <2>4. \A i \in 1 .. Len(held') : held'[i].entry.seen <= line[held'[i].device].seen
    BY <1>5, <2>2
  <2> QED
    BY <1>1, <1>3, <2>3, <2>4 DEF SeenIsPast
<1>9. Pumped'
  <2> SUFFICES ASSUME NEW d \in RosterDevices \ {Self}, missed[d] = "no"
               PROVE  /\ rosterPhase \in {"snapshot", "roster", "serving"} => ChangeIsLine(d)'
                      /\ rosterPhase \in {"roster", "serving"} /\ link /\ d \in known /\ d \notin late
                           => ViewIsLine(d)'
    BY <1>3 DEF Pumped
  <2>1. /\ Newest(chan', d) \subseteq Newest(chan, d)
        /\ ~Mentions(chan', d) /\ h.device = d => h \in Newest(chan, d)
        /\ ~Mentions(chan', d) /\ h.device # d => ~Mentions(chan, d)
    BY <1>2, <1>3, NewestOfTail DEF h
  <2>2. Holds(d)' <=> h.device = d
    BY <1>3, <1>4, <1>5 DEF Holds
  <2>3. ASSUME ChangeIsLine(d) PROVE ChangeIsLine(d)'
    <3>1. \A c \in Newest(chan', d) : Same(c.entry, line'[d])
      BY <1>3, <2>1, <2>3 DEF ChangeIsLine
    <3>2. ASSUME ~Mentions(chan', d), Holds(d)' PROVE Same(held'[1].entry, line'[d])
      <4>1. h.device = d /\ h \in Newest(chan, d) /\ held'[1] = h
        BY <1>5, <2>1, <2>2, <3>2
      <4> QED
        BY <1>3, <2>3, <4>1 DEF ChangeIsLine
    <3> QED
      BY <3>1, <3>2 DEF ChangeIsLine
  <2>4. ASSUME ViewIsLine(d) PROVE ViewIsLine(d)'
    <3>1. ASSUME ~Mentions(chan', d), ~Holds(d)' PROVE ~Mentions(chan, d) /\ ~Holds(d)
      BY <1>2, <2>1, <2>2, <3>1 DEF Holds
    <3> QED
      BY <1>3, <2>4, <3>1 DEF ViewIsLine, Listed
  <2> QED
    BY <1>1, <2>3, <2>4 DEF Pumped
<1> QED
  BY <1>6, <1>7, <1>8, <1>9 DEF PumpInv

\* The pump writes the change it holds.  A roster line still to be written is
\* older, and the device is late.
LEMMA ForwardKeeps == ASSUME PumpInv, Pump!Forward PROVE PumpInv'
<1> DEFINE h == held[1]
<1>1. PumpTyped /\ PhaseKnown /\ SeenIsPast /\ Pumped /\ Told /\ Pump!NoSendOnClosed
  BY DEF PumpInv
<1>2. line \in [RosterDevices -> Lines] /\ held \in Seq(Changes) /\ held # <<>>
  BY <1>1, LineTypes DEF PumpTyped, Pump!Forward
<1>3. /\ Pump!Write(h) /\ held' = <<>>
      /\ late' = IF Listed(h.device) THEN late \cup {h.device} ELSE late \ {h.device}
      /\ UNCHANGED <<known, line, rosterNow, labels, listed, closed, missed, chan, rosterPhase,
                     rosterConns, rest, link, view, notes, shown, unshown>>
  BY DEF Pump!Forward, Pump!tracker, Pump!sub, Pump!handler, Pump!client, Listed
<1>4. h \in Changes /\ h.device \in RosterDevices /\ h.entry.seen <= line[h.device].seen
  <2>1. 1 \in 1 .. Len(held)
    BY <1>2
  <2>2. h \in Changes /\ h.entry.seen <= line[h.device].seen
    BY <1>1, <1>2, <2>1 DEF SeenIsPast
  <2> QED
    BY <2>2 DEF Changes
<1>5. /\ wire' \in Seq(Updates)
      /\ \A i \in 1 .. Len(wire') : wire'[i].seen <= line[wire'[i].device].seen
      /\ link => \A d \in RosterDevices :
           /\ Newest(wire', d) = IF h.device = d THEN {Pump!Update(h)} ELSE Newest(wire, d)
           /\ Mentions(wire', d) <=> (h.device = d \/ Mentions(wire, d))
  BY <1>3, <1>4, Written
<1>6. \A d \in RosterDevices : Holds(d) <=> h.device = d
  BY <1>2 DEF Holds
<1> HIDE DEF h
<1>7. PumpTyped'
  <2>1. held' \in Seq(Changes) /\ Len(held') <= 1
    BY <1>3
  <2>2. late' \subseteq RosterDevices
    BY <1>1, <1>3, <1>4 DEF PumpTyped, Pump!TypeOK
  <2>3. Pump!TypeOK'
    BY <1>1, <1>3, <2>1, <2>2 DEF PumpTyped, Pump!TypeOK
  <2> QED
    BY <1>1, <1>3, <1>5, <2>1, <2>3 DEF PumpTyped
<1>8. PhaseKnown' /\ Told' /\ Pump!NoSendOnClosed'
  <2>1. rosterPhase = "snapshot" => late' = {}
    BY <1>1, <1>3 DEF PhaseKnown, Listed
  <2> QED
    BY <1>1, <1>3, <2>1 DEF PhaseKnown, Told, Pump!NoSendOnClosed
<1>9. SeenIsPast'
  <2>1. \A i \in 1 .. Len(held') : held'[i].entry.seen <= line'[held'[i].device].seen
    BY <1>3
  <2> QED
    BY <1>1, <1>3, <1>5, <2>1 DEF SeenIsPast
<1>10. Pumped'
  <2> SUFFICES ASSUME NEW d \in RosterDevices \ {Self}, missed[d] = "no"
               PROVE  /\ rosterPhase \in {"snapshot", "roster", "serving"} => ChangeIsLine(d)'
                      /\ rosterPhase \in {"roster", "serving"} /\ link /\ d \in known /\ d \notin late'
                           => ViewIsLine(d)'
    BY <1>3 DEF Pumped
  <2>1. ~Holds(d)'
    BY <1>3 DEF Holds
  <2>2. ChangeIsLine(d) => ChangeIsLine(d)'
    BY <1>3, <2>1 DEF ChangeIsLine
  <2>3. ASSUME rosterPhase \in {"roster", "serving"}, link, d \in known, d \notin late',
               ~Mentions(chan, d)
        PROVE  /\ \A b \in rest : b.device = d => Same(b.entry, line[d])
               /\ ~Listed(d) =>
                    /\ \A u \in Newest(wire', d) : Says(u, line[d])
                    /\ ~Mentions(wire', d) => Same(view[d], line[d])
    <3>1. CASE h.device = d
      <4>1. ~Listed(d)
        BY <1>3, <2>3, <3>1
      <4>2. Same(h.entry, line[d])
        BY <1>1, <1>6, <2>3, <3>1 DEF Pumped, ChangeIsLine, h
      <4>3. Says(Pump!Update(h), line[d])
        BY <1>2, <1>4, <4>2, UpdateSays
      <4>4. Newest(wire', d) = {Pump!Update(h)} /\ Mentions(wire', d)
        BY <1>5, <2>3, <3>1
      <4> QED
        BY <4>1, <4>3, <4>4 DEF Listed
    <3>2. CASE h.device # d
      <4>1. d \notin late /\ ~Holds(d)
        BY <1>3, <1>6, <2>3, <3>2
      <4>2. ViewIsLine(d)
        BY <1>1, <2>3, <4>1 DEF Pumped
      <4>3. Newest(wire', d) = Newest(wire, d) /\ (Mentions(wire', d) <=> Mentions(wire, d))
        BY <1>5, <2>3, <3>2
      <4> QED
        BY <2>3, <4>1, <4>2, <4>3 DEF ViewIsLine
    <3> QED
      BY <3>1, <3>2
  <2>4. ASSUME rosterPhase \in {"roster", "serving"}, link, d \in known, d \notin late'
        PROVE  ViewIsLine(d)'
    BY <1>3, <2>3, <2>4 DEF ViewIsLine, Listed
  <2> QED
    BY <1>1, <2>2, <2>4 DEF Pumped
<1> QED
  BY <1>7, <1>8, <1>9, <1>10 DEF PumpInv

\* A dead socket owes the client nothing.
LEMMA DisconnectKeeps == ASSUME PumpInv, Pump!Disconnect PROVE PumpInv'
<1>1. PumpTyped /\ PhaseKnown /\ SeenIsPast /\ Pumped /\ Told /\ Pump!NoSendOnClosed
  BY DEF PumpInv
<1>2. /\ link' = FALSE /\ wire' = <<>>
      /\ UNCHANGED <<known, line, rosterNow, labels, listed, closed, missed, chan, rosterPhase,
                     rosterConns, rest, held, late, view, notes, shown, unshown>>
  BY DEF Pump!Disconnect, Pump!tracker, Pump!sub, Pump!handler, Pump!client
<1>3. PumpTyped'
  <2>1. link' \in BOOLEAN
    BY <1>2
  <2>2. wire' \in Seq(Updates) /\ Len(wire') = 0
    BY <1>2
  <2>3. Pump!TypeOK'
    BY <1>1, <1>2, <2>1 DEF PumpTyped, Pump!TypeOK
  <2> QED
    BY <1>1, <1>2, <2>2, <2>3 DEF PumpTyped
<1>4. PhaseKnown' /\ Told' /\ Pump!NoSendOnClosed'
  BY <1>1, <1>2 DEF PhaseKnown, Told, Pump!NoSendOnClosed
<1>5. SeenIsPast'
  <2>1. \A i \in 1 .. Len(wire') : wire'[i].seen <= line'[wire'[i].device].seen
    BY <1>2
  <2> QED
    BY <1>1, <1>2, <2>1 DEF SeenIsPast
<1>6. Pumped'
  BY <1>1, <1>2 DEF Pumped, ChangeIsLine, Holds
<1> QED
  BY <1>3, <1>4, <1>5, <1>6 DEF PumpInv

LEMMA LoseKeeps == ASSUME PumpInv, Pump!Lose PROVE PumpInv'
<1> DEFINE e == IF line[Self].online THEN Pump!Line(FALSE, rosterNow, line[Self].status)
                ELSE line[Self]
<1>1. PumpTyped /\ PhaseKnown /\ SeenIsPast /\ Told /\ Pump!NoSendOnClosed
  BY DEF PumpInv
<1>2. /\ line \in [RosterDevices -> Lines] /\ line[Self] \in Lines /\ chan \in Seq(Changes)
      /\ rosterNow \in 1 .. RosterMaxTime
  BY <1>1, LineTypes, RosterConstants DEF PumpTyped, Pump!TypeOK
<1>3. /\ rosterPhase = "serving" /\ rosterPhase' = "unsubscribe"
      /\ line' = [line EXCEPT ![Self] = e]
      /\ \/ Pump!NotifyLocked(Self, line'[Self])
         \/ UNCHANGED <<chan, missed>>
      /\ UNCHANGED <<known, rosterNow, labels, listed, closed, rosterConns, rest, held,
                     link, wire, late, view, notes, shown, unshown>>
  <2>1. CASE line[Self].online
    BY <2>1 DEF Pump!Lose, Pump!client
  <2>2. CASE ~line[Self].online
    <3>1. line' = line /\ line' = [line EXCEPT ![Self] = e]
      BY <1>2, <2>2, RosterConstants DEF Pump!Lose
    <3> HIDE DEF e
    <3> QED
      BY <2>2, <3>1 DEF Pump!Lose, Pump!client
  <2> QED
    BY <2>1, <2>2
<1>4. e \in Lines /\ e.seen \in {line[Self].seen, rosterNow} /\ ~e.online
  BY <1>2, RosterConstants DEF Lines, Pump!Line
<1> HIDE DEF e
<1>5. line' \in [RosterDevices -> Lines] /\ line'[Self] = e
  BY <1>2, <1>3, <1>4, RosterConstants
<1>6. /\ chan' \in Seq(Changes) /\ Len(chan') <= Buffer
      /\ missed' \in [RosterDevices -> {"no", "dropped", "beaten"}]
      /\ \/ chan' = Append(chan, [device |-> Self, entry |-> e])
         \/ chan' = chan
  <2>1. CASE Pump!NotifyLocked(Self, line'[Self])
    <3>1. Pump!NotifyLocked(Self, e)
      BY <1>5, <2>1
    <3> QED
      BY <1>1, <1>4, <3>1, Notified, RosterConstants
  <2>2. CASE UNCHANGED <<chan, missed>>
    BY <1>1, <2>2 DEF PumpTyped, Pump!TypeOK
  <2> QED
    BY <1>3, <2>1, <2>2
<1>7. PumpTyped'
  <2>1. view' \in [RosterDevices -> Lines] /\ shown' \in [RosterDevices -> Lines]
    BY <1>1, <1>3 DEF PumpTyped, Pump!TypeOK, Lines
  <2>2. /\ known' \subseteq RosterDevices /\ late' \subseteq RosterDevices
        /\ rosterNow' \in 1 .. RosterMaxTime /\ labels' \in 0 .. MaxMoves /\ rosterConns' \in 0 .. MaxMoves
        /\ listed' \in BOOLEAN /\ closed' \in BOOLEAN /\ link' \in BOOLEAN
        /\ Len(notes') <= ViewBuffer /\ Len(held') <= 1
    BY <1>1, <1>3 DEF PumpTyped, Pump!TypeOK
  <2>3. Pump!TypeOK'
    BY <1>3, <1>5, <1>6, <2>1, <2>2 DEF Pump!TypeOK, Lines
  <2> QED
    BY <1>1, <1>3, <1>6, <2>3 DEF PumpTyped
<1>8. PhaseKnown'
  BY <1>1, <1>2, <1>3, <1>4 DEF PhaseKnown
<1>9. SeenIsPast'
  <2>1. ASSUME NEW d \in RosterDevices
        PROVE  line'[d].seen >= line[d].seen /\ line'[d].seen <= rosterNow'
    <3>1. line[d].seen \in Nat /\ line[d].seen <= rosterNow
      BY <1>1, <1>2, RosterConstants DEF Lines, SeenIsPast
    <3>2. line'[d].seen \in {line[d].seen, rosterNow} /\ rosterNow \in Nat
      <4>1. CASE d = Self
        BY <1>2, <1>4, <1>5, <4>1
      <4>2. CASE d # Self
        BY <1>2, <1>3, <4>2
      <4> QED
        BY <1>2, <4>1, <4>2
    <3> QED
      BY <1>3, <3>1, <3>2
  <2>2. \A i \in 1 .. Len(chan') : chan'[i].entry.seen <= line'[chan'[i].device].seen
    <3>1. \A i \in 1 .. Len(chan) : chan[i].entry.seen <= line'[chan[i].device].seen
      BY <1>5, <2>1, CopiesStayPast
    <3>2. CASE chan' = chan
      BY <3>1, <3>2
    <3>3. CASE chan' = Append(chan, [device |-> Self, entry |-> e])
      <4>1. /\ Len(chan') = Len(chan) + 1 /\ Len(chan) \in Nat
            /\ \A i \in 1 .. Len(chan) : chan'[i] = chan[i]
            /\ chan'[Len(chan) + 1] = [device |-> Self, entry |-> e]
        BY <1>2, <3>3
      <4>2. e.seen <= line'[Self].seen
        BY <1>4, <1>5, RosterConstants DEF Lines
      <4> QED
        BY <3>1, <4>1, <4>2
    <3> QED
      BY <1>6, <3>2, <3>3
  <2> QED
    BY <1>3, <1>5, <2>1, <2>2, CopiesStayPast DEF SeenIsPast
<1>10. Told' /\ Pump!NoSendOnClosed'
  BY <1>1, <1>3 DEF Told, Pump!NoSendOnClosed
<1> QED
  BY <1>3, <1>7, <1>8, <1>9, <1>10, NotPumping DEF PumpInv

LEMMA UnsubscribeKeeps == ASSUME PumpInv, Pump!Unsubscribe PROVE PumpInv'
<1>1. PumpTyped /\ PhaseKnown /\ SeenIsPast /\ Told /\ Pump!NoSendOnClosed
  BY DEF PumpInv
<1>2. /\ rosterPhase = "unsubscribe" /\ listed' = FALSE /\ rosterPhase' = "closechan"
      /\ UNCHANGED <<known, line, rosterNow, labels, closed, missed, chan, rosterConns, rest, held,
                     link, wire, late, view, notes, shown, unshown>>
  BY DEF Pump!Unsubscribe, Pump!tracker, Pump!client
<1>3. PumpTyped'
  <2>1. listed' \in BOOLEAN
    BY <1>2
  <2>2. Pump!TypeOK'
    BY <1>1, <1>2, <2>1 DEF PumpTyped, Pump!TypeOK
  <2> QED
    BY <1>1, <1>2, <2>2 DEF PumpTyped
<1>4. PhaseKnown' /\ SeenIsPast' /\ Told' /\ Pump!NoSendOnClosed'
  BY <1>1, <1>2 DEF PhaseKnown, SeenIsPast, Told, Pump!NoSendOnClosed
<1> QED
  BY <1>2, <1>3, <1>4, NotPumping DEF PumpInv

LEMMA CloseChanKeeps == ASSUME PumpInv, Pump!CloseChan PROVE PumpInv'
<1>1. PumpTyped /\ PhaseKnown /\ SeenIsPast /\ Told
  BY DEF PumpInv
<1>2. /\ rosterPhase = "closechan" /\ closed' = TRUE /\ listed' = FALSE /\ rosterPhase' = "none"
      /\ chan' = <<>> /\ held' = <<>>
      /\ UNCHANGED <<known, line, rosterNow, labels, missed, rosterConns, rest,
                     link, wire, late, view, notes, shown, unshown>>
  BY DEF Pump!CloseChan, Pump!tracker, Pump!client
<1>3. PumpTyped'
  <2>1. listed' \in BOOLEAN /\ closed' \in BOOLEAN
    BY <1>2
  <2>2. /\ chan' \in Seq(Changes) /\ Len(chan') <= Buffer
        /\ held' \in Seq(Changes) /\ Len(held') <= 1
    BY <1>2, RosterConstants
  <2>3. Pump!TypeOK'
    BY <1>1, <1>2, <2>1, <2>2 DEF PumpTyped, Pump!TypeOK
  <2> QED
    BY <1>1, <1>2, <2>2, <2>3 DEF PumpTyped
<1>4. PhaseKnown' /\ Told' /\ Pump!NoSendOnClosed'
  BY <1>1, <1>2 DEF PhaseKnown, Told, Pump!NoSendOnClosed
<1>5. SeenIsPast'
  <2>1. /\ \A i \in 1 .. Len(chan') : chan'[i].entry.seen <= line'[chan'[i].device].seen
        /\ \A i \in 1 .. Len(held') : held'[i].entry.seen <= line'[held'[i].device].seen
    BY <1>2
  <2> QED
    BY <1>1, <1>2, <2>1 DEF SeenIsPast
<1> QED
  BY <1>2, <1>3, <1>4, <1>5, NotPumping DEF PumpInv

-----------------------------------------------------------------------------
(* Roster: the client's steps *)

\* An update that says what the line says makes the entry the line, because an
\* entry is never seen later than its line.
LEMMA FoldedSays ==
  ASSUME NEW e \in Lines, NEW u \in Updates, NEW l \in Lines, e.seen <= l.seen, u.seen <= l.seen
  PROVE  /\ Pump!Folded(e, u) \in Lines /\ Pump!Folded(e, u).seen <= l.seen
         /\ Says(u, l) => Same(Pump!Folded(e, u), l)
<1>1. /\ e.seen \in 0 .. RosterMaxTime /\ u.seen \in 0 .. RosterMaxTime /\ l.seen \in 0 .. RosterMaxTime
      /\ u.status \in Labels /\ l.status \in Labels /\ l.online \in BOOLEAN
      /\ u.state \in {"online", "offline"}
  BY DEF Lines, Updates
<1>2. CASE u.state = "online"
  <2>1. Pump!Folded(e, u) = [online |-> TRUE, seen |-> e.seen, status |-> u.status]
    BY <1>2 DEF Pump!Folded, Pump!Line
  <2>2. Says(u, l) => Same(Pump!Folded(e, u), l)
    <3> SUFFICES ASSUME Says(u, l) PROVE Same(Pump!Folded(e, u), l)
      OBVIOUS
    <3>1. l.online = TRUE /\ u.status = l.status
      BY <1>1, <1>2 DEF Says
    <3>2. Pump!Folded(e, u).online = TRUE /\ Pump!Folded(e, u).status = u.status
      BY <2>1
    <3> QED
      BY <3>1, <3>2 DEF Same
  <2> QED
    BY <1>1, <2>1, <2>2 DEF Lines
<1>3. CASE u.state # "online"
  <2> DEFINE t == IF u.seen # 0 THEN u.seen ELSE e.seen
  <2>1. Pump!Folded(e, u) = [online |-> FALSE, seen |-> t, status |-> u.status]
    BY <1>3 DEF Pump!Folded, Pump!Line
  <2>2. t \in 0 .. RosterMaxTime /\ t <= l.seen /\ (u.seen = l.seen => t = l.seen)
    BY <1>1, RosterConstants
  <2> HIDE DEF t
  <2>3. Says(u, l) => Same(Pump!Folded(e, u), l)
    <3> SUFFICES ASSUME Says(u, l) PROVE Same(Pump!Folded(e, u), l)
      OBVIOUS
    <3>1. l.online = FALSE /\ u.status = l.status /\ u.seen = l.seen
      BY <1>1, <1>3 DEF Says
    <3>2. /\ Pump!Folded(e, u).online = FALSE /\ Pump!Folded(e, u).status = u.status
          /\ Pump!Folded(e, u).seen = l.seen
      BY <2>1, <2>2, <3>1
    <3> QED
      BY <3>1, <3>2 DEF Same
  <2> QED
    BY <1>1, <2>1, <2>2, <2>3 DEF Lines
<1> QED
  BY <1>2, <1>3

\* The view tells its subscriber of a changed entry, or the device is marked.
LEMMA ViewNotified ==
  ASSUME PumpTyped, NEW x \in RosterDevices, NEW e \in Lines,
         \/ Pump!ViewNotify(x, e)
         \/ /\ e = view[x] /\ notes' = notes
            /\ unshown' = [unshown EXCEPT ![x] = IF @ = "no" THEN @ ELSE "restated"]
  PROVE  /\ notes' \in Seq(Changes) /\ Len(notes') <= ViewBuffer
         /\ unshown' \in [RosterDevices -> {"no", "dropped", "restated"}]
         /\ \/ notes' = Append(notes, [device |-> x, entry |-> e])
            \/ notes' = notes /\ unshown'[x] # "no"
            \/ notes' = notes /\ unshown'[x] = unshown[x] /\ e = view[x]
         /\ \A d \in RosterDevices \ {x} : unshown'[d] = unshown[d]
<1> DEFINE c == [device |-> x, entry |-> e]
<1>1. c \in Changes /\ notes \in Seq(Changes) /\ Len(notes) <= ViewBuffer /\ Len(notes) \in Nat
  BY DEF Changes, PumpTyped, Pump!TypeOK
<1>2. unshown \in [RosterDevices -> {"no", "dropped", "restated"}]
  BY DEF PumpTyped
<1>3. \/ Len(notes) < ViewBuffer /\ notes' = Append(notes, c) /\ unshown' = [unshown EXCEPT ![x] = "no"]
      \/ notes' = notes /\ unshown' = [unshown EXCEPT ![x] = "dropped"]
      \/ notes' = notes /\ e = view[x] /\ unshown[x] = "no" /\ unshown' = unshown
      \/ notes' = notes /\ unshown' = [unshown EXCEPT ![x] = "restated"]
  <2>1. CASE Pump!ViewNotify(x, e)
    BY <2>1 DEF Pump!ViewNotify
  <2>2. CASE /\ e = view[x] /\ notes' = notes
             /\ unshown' = [unshown EXCEPT ![x] = IF @ = "no" THEN @ ELSE "restated"]
    BY <1>2, <2>2
  <2> QED
    BY <2>1, <2>2
<1> HIDE DEF c
<1>4. notes' \in Seq(Changes) /\ Len(notes') <= ViewBuffer
  BY <1>1, <1>3, RosterConstants
<1>5. /\ unshown' \in [RosterDevices -> {"no", "dropped", "restated"}]
      /\ \A d \in RosterDevices \ {x} : unshown'[d] = unshown[d]
  BY <1>2, <1>3
<1>6. \/ notes' = Append(notes, c)
      \/ notes' = notes /\ unshown'[x] # "no"
      \/ notes' = notes /\ unshown'[x] = unshown[x] /\ e = view[x]
  BY <1>2, <1>3
<1> QED
  BY <1>4, <1>5, <1>6 DEF c

\* The client folds an update in: the last one about a device makes its entry
\* what the tracker has, and the subscriber's newest note is the entry.
LEMMA ApplyKeeps == ASSUME PumpInv, Pump!Apply PROVE PumpInv'
<1> DEFINE u == Head(wire)
           x == u.device
           e == Pump!Folded(view[x], u)
<1>1. PumpTyped /\ PhaseKnown /\ SeenIsPast /\ Pumped /\ Told /\ Pump!NoSendOnClosed
  BY DEF PumpInv
<1>2. /\ line \in [RosterDevices -> Lines] /\ view \in [RosterDevices -> Lines]
      /\ wire \in Seq(Updates) /\ wire # <<>> /\ notes \in Seq(Changes)
  BY <1>1, LineTypes DEF PumpTyped, Pump!Apply
<1>3. /\ wire' = Tail(wire) /\ view' = [view EXCEPT ![x] = e]
      /\ \/ Pump!ViewNotify(x, e)
         \/ /\ e = view[x] /\ notes' = notes
            /\ unshown' = [unshown EXCEPT ![x] = IF @ = "no" THEN @ ELSE "restated"]
      /\ UNCHANGED <<known, line, rosterNow, labels, listed, closed, missed, chan, rosterPhase,
                     rosterConns, rest, held, link, shown, late>>
  BY DEF Pump!Apply, Pump!tracker, Pump!sub, Pump!handler
<1>4. /\ u \in Updates /\ u = wire[1] /\ Len(wire) \in Nat /\ Len(wire) > 0
      /\ wire' \in Seq(Updates) /\ Len(wire') = Len(wire) - 1
      /\ \A i \in 1 .. Len(wire') : wire'[i] = wire[i + 1] /\ i + 1 \in 1 .. Len(wire)
  BY <1>2, <1>3
<1>5. x \in RosterDevices /\ view[x] \in Lines /\ line[x] \in Lines
  BY <1>2, <1>4 DEF Updates
<1>6. view[x].seen <= line[x].seen /\ u.seen <= line[x].seen
  BY <1>1, <1>4, <1>5 DEF SeenIsPast
<1>7. e \in Lines /\ e.seen <= line[x].seen /\ (Says(u, line[x]) => Same(e, line[x]))
  BY <1>4, <1>5, <1>6, FoldedSays
<1> HIDE DEF u, x, e
<1>8. /\ notes' \in Seq(Changes) /\ Len(notes') <= ViewBuffer
      /\ unshown' \in [RosterDevices -> {"no", "dropped", "restated"}]
      /\ \/ notes' = Append(notes, [device |-> x, entry |-> e])
         \/ notes' = notes /\ unshown'[x] # "no"
         \/ notes' = notes /\ unshown'[x] = unshown[x] /\ e = view[x]
      /\ \A d \in RosterDevices \ {x} : unshown'[d] = unshown[d]
  BY <1>1, <1>3, <1>5, <1>7, ViewNotified
<1>9. view' \in [RosterDevices -> Lines] /\ view'[x] = e /\ \A d \in RosterDevices \ {x} : view'[d] = view[d]
  BY <1>2, <1>3, <1>5, <1>7
<1>10. PumpTyped'
  <2>1. line \in [RosterDevices -> Lines] /\ shown \in [RosterDevices -> Lines]
    BY <1>1, <1>2 DEF PumpTyped, Pump!TypeOK, Lines
  <2>2. \A f \in {line', view', shown'} : f \in [RosterDevices -> Lines]
    BY <1>3, <1>9, <2>1
  <2>3. /\ known' \subseteq RosterDevices /\ late' \subseteq RosterDevices
        /\ rosterNow' \in 1 .. RosterMaxTime /\ labels' \in 0 .. MaxMoves /\ rosterConns' \in 0 .. MaxMoves
        /\ listed' \in BOOLEAN /\ closed' \in BOOLEAN /\ link' \in BOOLEAN
        /\ Len(chan') <= Buffer /\ Len(held') <= 1
        /\ rosterPhase' \in {"none", "subscribe", "snapshot", "roster", "serving", "unsubscribe", "closechan"}
    BY <1>1, <1>3 DEF PumpTyped, Pump!TypeOK
  <2>4. Pump!TypeOK'
    BY <1>8, <2>2, <2>3 DEF Pump!TypeOK, Lines
  <2> QED
    BY <1>1, <1>3, <1>4, <1>8, <2>4 DEF PumpTyped
<1>11. PhaseKnown' /\ Pump!NoSendOnClosed'
  BY <1>1, <1>3 DEF PhaseKnown, Pump!NoSendOnClosed
<1>12. SeenIsPast'
  <2>1. \A i \in 1 .. Len(wire) : wire[i].seen <= line[wire[i].device].seen
    BY <1>1 DEF SeenIsPast
  <2>2. \A i \in 1 .. Len(wire') : wire'[i].seen <= line[wire'[i].device].seen
    BY <1>4, <2>1
  <2>3. \A d \in RosterDevices : view'[d].seen <= line[d].seen
    BY <1>1, <1>7, <1>9 DEF SeenIsPast
  <2> QED
    BY <1>1, <1>3, <2>2, <2>3 DEF SeenIsPast
<1>13. Pumped'
  <2> SUFFICES ASSUME NEW d \in RosterDevices \ {Self}, missed[d] = "no"
               PROVE  /\ rosterPhase \in {"snapshot", "roster", "serving"} => ChangeIsLine(d)'
                      /\ rosterPhase \in {"roster", "serving"} /\ link /\ d \in known /\ d \notin late
                           => ViewIsLine(d)'
    BY <1>3 DEF Pumped
  <2>1. ChangeIsLine(d) => ChangeIsLine(d)'
    BY <1>3 DEF ChangeIsLine, Holds
  <2>2. /\ Newest(wire', d) \subseteq Newest(wire, d)
        /\ ~Mentions(wire', d) /\ x = d => u \in Newest(wire, d)
        /\ ~Mentions(wire', d) /\ x # d => ~Mentions(wire, d)
    BY <1>2, <1>3, NewestOfTail DEF u, x
  <2>3. ASSUME ViewIsLine(d), ~Mentions(chan, d), ~Holds(d), ~Listed(d)
        PROVE  /\ \A w \in Newest(wire', d) : Says(w, line[d])
               /\ ~Mentions(wire', d) => Same(view'[d], line[d])
    <3>1. /\ \A w \in Newest(wire, d) : Says(w, line[d])
          /\ ~Mentions(wire, d) => Same(view[d], line[d])
      BY <2>3 DEF ViewIsLine
    <3>2. CASE x = d
      BY <1>7, <1>9, <2>2, <3>1, <3>2
    <3>3. CASE x # d
      BY <1>9, <2>2, <3>1, <3>3
    <3> QED
      BY <3>2, <3>3
  <2>4. ASSUME ViewIsLine(d) PROVE ViewIsLine(d)'
    BY <1>3, <2>3, <2>4 DEF ViewIsLine, Holds, Listed
  <2> QED
    BY <1>1, <2>1, <2>4 DEF Pumped
<1>14. Told'
  <2> SUFFICES ASSUME NEW d \in RosterDevices, unshown'[d] = "no"
               PROVE  /\ \A n \in Newest(notes', d) : n.entry = view'[d]
                      /\ ~Mentions(notes', d) => shown[d] = view'[d]
    BY <1>3 DEF Told
  <2> DEFINE c == [device |-> x, entry |-> e]
  <2>1. c \in Changes /\ c.device = x /\ c.entry = e
    BY <1>5, <1>7 DEF Changes
  <2> HIDE DEF c
  <2>2. CASE notes' = Append(notes, c)
    <3>1. /\ Newest(notes', d) = IF c.device = d THEN {c} ELSE Newest(notes, d)
          /\ Mentions(notes', d) <=> (c.device = d \/ Mentions(notes, d))
      BY <1>2, <2>1, <2>2, NewestOfAppend
    <3>2. CASE d = x
      BY <1>9, <2>1, <3>1, <3>2
    <3>3. CASE d # x
      BY <1>1, <1>8, <1>9, <2>1, <3>1, <3>3 DEF Told
    <3> QED
      BY <3>2, <3>3
  <2>3. CASE notes' = notes
    <3>1. CASE d = x
      <4>1. CASE unshown'[x] = unshown[x] /\ e = view[x]
        BY <1>1, <1>5, <1>9, <2>3, <3>1, <4>1 DEF Told
      <4>2. CASE notes' = Append(notes, c)
        <5>1. Len(notes') = Len(notes) + 1 /\ Len(notes) \in Nat
          BY <1>2, <2>1, <4>2
        <5> QED
          BY <2>3, <5>1
      <4> QED
        BY <1>8, <3>1, <4>1, <4>2 DEF c
    <3>2. CASE d # x
      BY <1>1, <1>8, <1>9, <2>3, <3>2 DEF Told
    <3> QED
      BY <3>1, <3>2
  <2> QED
    BY <1>8, <2>2, <2>3 DEF c
<1> QED
  BY <1>10, <1>11, <1>12, <1>13, <1>14 DEF PumpInv

LEMMA NoticeKeeps == ASSUME PumpInv, Pump!Notice PROVE PumpInv'
<1> DEFINE h == Head(notes)
<1>1. PumpTyped /\ PhaseKnown /\ SeenIsPast /\ Pumped /\ Told /\ Pump!NoSendOnClosed
  BY DEF PumpInv
<1>2. notes \in Seq(Changes) /\ notes # <<>> /\ shown \in [RosterDevices -> Lines]
  BY <1>1, LineTypes DEF PumpTyped, Pump!Notice
<1>3. /\ shown' = [shown EXCEPT ![h.device] = h.entry] /\ notes' = Tail(notes)
      /\ UNCHANGED <<known, line, rosterNow, labels, listed, closed, missed, chan, rosterPhase,
                     rosterConns, rest, held, link, wire, late, view, unshown>>
  BY DEF Pump!Notice, Pump!tracker, Pump!sub, Pump!handler
<1>4. /\ h \in Changes /\ notes' \in Seq(Changes) /\ Len(notes') = Len(notes) - 1
      /\ Len(notes) \in Nat
  BY <1>2, <1>3
<1> HIDE DEF h
<1>5. h.device \in RosterDevices /\ h.entry \in Lines
  BY <1>4 DEF Changes
<1>6. PumpTyped'
  <2>1. shown' \in [RosterDevices -> Lines]
    BY <1>2, <1>3, <1>5
  <2>2. Len(notes') <= ViewBuffer
    BY <1>1, <1>4, RosterConstants DEF PumpTyped, Pump!TypeOK
  <2>3. Pump!TypeOK'
    BY <1>1, <1>3, <2>1, <2>2 DEF PumpTyped, Pump!TypeOK, Lines
  <2> QED
    BY <1>1, <1>3, <1>4, <2>3 DEF PumpTyped
<1>7. PhaseKnown' /\ SeenIsPast' /\ Pump!NoSendOnClosed'
  BY <1>1, <1>3 DEF PhaseKnown, SeenIsPast, Pump!NoSendOnClosed
<1>8. Pumped'
  BY <1>1, <1>3 DEF Pumped, ChangeIsLine, ViewIsLine, Holds, Listed
<1>9. Told'
  <2> SUFFICES ASSUME NEW d \in RosterDevices, unshown[d] = "no"
               PROVE  /\ \A n \in Newest(notes', d) : n.entry = view[d]
                      /\ ~Mentions(notes', d) => shown'[d] = view[d]
    BY <1>3 DEF Told
  <2>1. /\ Newest(notes', d) \subseteq Newest(notes, d)
        /\ ~Mentions(notes', d) /\ h.device = d => h \in Newest(notes, d)
        /\ ~Mentions(notes', d) /\ h.device # d => ~Mentions(notes, d)
    BY <1>2, <1>3, NewestOfTail DEF h
  <2>2. /\ \A n \in Newest(notes, d) : n.entry = view[d]
        /\ ~Mentions(notes, d) => shown[d] = view[d]
    BY <1>1 DEF Told
  <2>3. CASE h.device = d
    BY <1>2, <1>3, <2>1, <2>2, <2>3
  <2>4. CASE h.device # d
    BY <1>2, <1>3, <2>1, <2>2, <2>4
  <2> QED
    BY <2>3, <2>4
<1> QED
  BY <1>6, <1>7, <1>8, <1>9 DEF PumpInv

-----------------------------------------------------------------------------
(* Roster: the invariant holds *)

LEMMA PumpInit == ASSUME Pump!Init PROVE PumpInv
<1>1. /\ known = {} /\ line = [d \in RosterDevices |-> Pump!NoLine] /\ rosterNow = 1 /\ labels = 0
      /\ listed = FALSE /\ closed = FALSE /\ chan = <<>>
      /\ rosterPhase = "none" /\ rosterConns = 0 /\ rest = {} /\ held = <<>>
      /\ link = FALSE /\ wire = <<>>
      /\ view = [d \in RosterDevices |-> Pump!NoLine] /\ shown = view /\ notes = <<>>
      /\ missed = [d \in RosterDevices |-> "no"] /\ unshown = missed /\ late = {}
  BY DEF Pump!Init
<1>2. Pump!NoLine \in Lines /\ Pump!NoLine.seen = 0 /\ ~Pump!NoLine.online
  BY RosterConstants DEF Lines, Pump!NoLine, Pump!Line
<1>3. PumpTyped
  <2>1. listed \in BOOLEAN /\ closed \in BOOLEAN /\ link \in BOOLEAN
    BY <1>1
  <2>2. /\ chan \in Seq(Changes) /\ Len(chan) = 0 /\ held \in Seq(Changes) /\ Len(held) = 0
        /\ notes \in Seq(Changes) /\ Len(notes) = 0 /\ wire \in Seq(Updates)
    BY <1>1
  <2>3. /\ line \in [RosterDevices -> Lines] /\ view \in [RosterDevices -> Lines]
        /\ shown \in [RosterDevices -> Lines]
    BY <1>1, <1>2
  <2>4. /\ known \subseteq RosterDevices /\ late \subseteq RosterDevices
        /\ rosterNow \in 1 .. RosterMaxTime /\ labels \in 0 .. MaxMoves /\ rosterConns \in 0 .. MaxMoves
        /\ Len(chan) <= Buffer /\ Len(notes) <= ViewBuffer /\ Len(held) <= 1
    BY <1>1, <2>2, RosterConstants
  <2>5. Pump!TypeOK
    BY <1>1, <2>1, <2>3, <2>4 DEF Pump!TypeOK, Lines
  <2> QED
    BY <1>1, <2>2, <2>5 DEF PumpTyped
<1>4. PhaseKnown /\ SeenIsPast
  BY <1>1, <1>2 DEF PhaseKnown, SeenIsPast
<1>5. Pumped /\ Told /\ Pump!NoSendOnClosed
  BY <1>1, NothingMentioned DEF Pumped, Told, Pump!NoSendOnClosed
<1> QED
  BY <1>3, <1>4, <1>5 DEF PumpInv

LEMMA PumpStep == PumpInv /\ [Pump!Next]_(Pump!vars) => PumpInv'
<1> SUFFICES ASSUME PumpInv, [Pump!Next]_(Pump!vars) PROVE PumpInv'
  OBVIOUS
<1>1. ASSUME NEW d \in RosterDevices, Pump!Observe(d) \/ Pump!Vanish(d) PROVE PumpInv'
  BY <1>1, ObserveKeeps, VanishKeeps
<1>2. ASSUME NEW d \in RosterDevices, NEW text \in Labels, Pump!SetStatus(d, text) PROVE PumpInv'
  BY <1>2, SetStatusKeeps
<1>3. CASE Pump!Establish \/ Pump!Subscribe \/ Pump!Snapshot \/ Pump!WriteLine
  BY <1>3, EstablishKeeps, SubscribeKeeps, SnapshotKeeps, WriteLineKeeps
<1>4. CASE Pump!Receive \/ Pump!Forward
  BY <1>4, ReceiveKeeps, ForwardKeeps
<1>5. CASE Pump!Disconnect \/ Pump!Lose \/ Pump!Unsubscribe \/ Pump!CloseChan
  BY <1>5, DisconnectKeeps, LoseKeeps, UnsubscribeKeeps, CloseChanKeeps
<1>6. CASE Pump!Apply \/ Pump!Notice
  BY <1>6, ApplyKeeps, NoticeKeeps
<1>7. CASE UNCHANGED Pump!vars
  <2>1. UNCHANGED <<known, line, rosterNow, labels, listed, closed, missed, chan, rosterPhase,
                    rosterConns, rest, held, link, wire, late, view, notes, shown, unshown>>
    BY <1>7 DEF Pump!vars, Pump!tracker, Pump!sub, Pump!handler, Pump!client
  <2>2. PumpTyped'
    BY <2>1 DEF PumpInv, PumpTyped, Pump!TypeOK
  <2>3. PhaseKnown' /\ SeenIsPast' /\ Pump!NoSendOnClosed'
    BY <2>1 DEF PumpInv, PhaseKnown, SeenIsPast, Pump!NoSendOnClosed
  <2>4. Pumped' /\ Told'
    BY <2>1 DEF PumpInv, Pumped, Told, ChangeIsLine, ViewIsLine, Holds, Listed
  <2> QED
    BY <2>2, <2>3, <2>4 DEF PumpInv
<1> QED
  BY <1>1, <1>2, <1>3, <1>4, <1>5, <1>6, <1>7 DEF Pump!Next

\* Tracker, connection, view and subscriber agree once all is quiet, whatever
\* the devices, the labels, the sizes of the two buffers and the bounds: except
\* where a change was dropped at a full buffer or overtook its roster line, the
\* client's roster is the tracker's, its subscriber was told of every entry, and
\* no change is sent on a closed channel.
THEOREM RosterAgreesAlways == Pump!Spec => []RosterAgrees
<1>1. PumpInv => RosterAgrees
  <2> SUFFICES ASSUME PumpInv PROVE RosterAgrees
    OBVIOUS
  <2>1. PumpTyped /\ PhaseKnown /\ Pumped /\ Told /\ Pump!NoSendOnClosed
    BY DEF PumpInv
  <2>2. Pump!NothingMissed
    <3> SUFFICES ASSUME Pump!Quiet, NEW d \in known \ {Self}, missed[d] = "no", d \notin late
                 PROVE  Pump!Agrees(d)
      BY DEF Pump!NothingMissed
    <3>1. /\ rosterPhase = "serving" /\ link /\ chan = <<>> /\ held = <<>> /\ wire = <<>> /\ rest = {}
          /\ d \in RosterDevices \ {Self}
      BY <2>1 DEF Pump!Quiet, PhaseKnown, PumpTyped, Pump!TypeOK
    <3>2. ~Mentions(chan, d) /\ ~Holds(d) /\ ~Listed(d) /\ ~Mentions(wire, d)
      BY <3>1, NothingMentioned DEF Holds, Listed
    <3>3. ViewIsLine(d)
      BY <2>1, <3>1 DEF Pumped
    <3>4. Same(view[d], line[d])
      BY <3>2, <3>3 DEF ViewIsLine
    <3> QED
      BY <3>4 DEF Same, Pump!Agrees
  <2>3. Pump!SubscriberIsTold
    BY <2>1, NothingMentioned DEF Told, Pump!SubscriberIsTold
  <2> QED
    BY <2>1, <2>2, <2>3 DEF PumpTyped, RosterAgrees, Pump!RosterAgrees
<1> QED
  BY <1>1, PumpInit, PumpStep, PTL DEF Pump!Spec

=============================================================================
