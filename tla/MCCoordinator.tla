--------------------------- MODULE MCCoordinator ----------------------------
(*****************************************************************************)
(* The coordinator: the presence tracker, the roster pump with the view it   *)
(* feeds, and the key directory.  The modules share no variable, so each     *)
(* behaviour runs one of them, which part selects, and leaves the others at  *)
(* rest.  The parameters are constants here too, so that what is proved of a *)
(* part holds for all their values; the configuration gives the small        *)
(* instance.                                                                 *)
(*****************************************************************************)
EXTENDS PresenceTracker

CONSTANTS
  RosterDevices, Self, Buffer, ViewBuffer, RosterMaxTime, MaxMoves, \* Roster
  KeyDevices, Confirm, MaxKeys, MaxAnnounce, KeysMaxFaults,         \* KeyDirectory
  MaxLosses, MaxCrashes, MaxDrops

VARIABLES
  part,  \* the part that runs in this behaviour
  known, line, rosterNow, labels, listed, closed, chan, rosterPhase,
  rosterConns, rest, held, link, wire, view, notes, shown, missed, late,
  unshown,
  file, key, fresh, pins, keysDisk, route, handler, env, targets, last, told,
  announced, keysFaults, losses, crashes, drops

rosterVars ==
  <<known, line, rosterNow, labels, listed, closed, chan, rosterPhase,
    rosterConns, rest, held, link, wire, view, notes, shown, missed, late,
    unshown>>
keysVars ==
  <<file, key, fresh, pins, keysDisk, route, handler, env, targets, last,
    told, announced, keysFaults, losses, crashes, drops>>

Pump == INSTANCE Roster WITH
  Devices <- RosterDevices, MaxTime <- RosterMaxTime, now <- rosterNow,
  phase <- rosterPhase, conns <- rosterConns

Dir == INSTANCE KeyDirectory WITH
  Devices <- KeyDevices, MaxFaults <- KeysMaxFaults, disk <- keysDisk,
  faults <- keysFaults

ASSUME CoordinatorAssumption ==
  /\ Pump!RosterAssumption
  /\ Dir!DirectoryAssumption

MCInit ==
  /\ part \in {"presence", "roster", "keys"}
  /\ Init /\ Pump!Init /\ Dir!Init

PresenceStep ==
  /\ part = "presence" /\ Next
  /\ UNCHANGED <<part, rosterVars, keysVars>>

RosterStep ==
  /\ part = "roster" /\ Pump!Next
  /\ UNCHANGED <<part, vars, keysVars>>

KeysStep == part = "keys" /\ Dir!Next /\ UNCHANGED <<part, vars, rosterVars>>

MCNext == PresenceStep \/ RosterStep \/ KeysStep

mcVars == <<part, vars, rosterVars, keysVars>>

MCSpec == MCInit /\ [][MCNext]_mcVars

-----------------------------------------------------------------------------
\* Tracker, connection, view and subscriber agree once all is quiet, except
\* where a change was dropped or overtaken, and no change is sent on a
\* closed channel.
RosterAgrees == Pump!RosterAgrees

\* Pins endure: memory and file agree whatever save fails and whenever the
\* coordinator restarts, and a pin changes by confirmation only.
PinsEndure == Dir!PinsEndure
=============================================================================
