---------------------------- MODULE MCLocalHost -----------------------------
(*****************************************************************************)
(* What client processes share on one machine: the schema migrations of the  *)
(* store, the history table, the start of a run at its path, and the clock   *)
(* the timers of all of them are tested on.  The modules share no variable,  *)
(* so each behaviour runs one of them, which part selects, and leaves the    *)
(* others at rest.  The parameters are constants here too, so that what is   *)
(* proved of a part holds for all their values; the configuration gives the  *)
(* small instance.                                                           *)
(*****************************************************************************)
EXTENDS Migrations

CONSTANTS
  Writers, TTL, Cap, MaxIds, MaxArrived, MaxTime, HistoryMaxFaults, \* History
  Runs, NoFile,                                                     \* SocketListen
  Timers, Sleepers, MaxNow, MaxDelay                                \* FakeClock

VARIABLES
  part,  \* the part that runs in this behaviour
  rows, now, historyPc, hand, cutoff, swept, reading, excess, arrived,
  historyFaults,
  file, listening, listenPc, crashed, raced,
  clockNow, waiters, st, ch, due, firing, bed, heard

\* The four shipped steps and their statements.
Statements == <<2, 2, 1, 2>>

\* A binary of two releases ago, today's twice (`walkie`, `walkie history`),
\* and one whose list lost an entry in a merge.
Lists == [old |-> <<1, 2>>, walkie |-> <<1, 2, 3, 4>>, history |-> <<1, 2, 3, 4>>,
          merged |-> <<1, 2, 4>>]

historyVars ==
  <<rows, now, historyPc, hand, cutoff, swept, reading, excess, arrived,
    historyFaults>>
listenVars == <<file, listening, listenPc, crashed, raced>>
clockVars == <<clockNow, waiters, st, ch, due, firing, bed, heard>>

Hist == INSTANCE History WITH
  MaxFaults <- HistoryMaxFaults, pc <- historyPc, faults <- historyFaults

Lis == INSTANCE SocketListen WITH None <- NoFile, pc <- listenPc

Clock == INSTANCE FakeClock WITH now <- clockNow

ASSUME HostAssumption ==
  /\ Hist!HistoryAssumption
  /\ Lis!SocketListenAssumption
  /\ Clock!FakeClockAssumption

MCInit ==
  /\ part \in {"migrations", "history", "listen", "clock"}
  /\ Init /\ Hist!Init /\ Lis!Init /\ Clock!Init

MigrationsStep ==
  /\ part = "migrations" /\ Next
  /\ UNCHANGED <<part, historyVars, listenVars, clockVars>>

HistoryStep ==
  /\ part = "history" /\ Hist!Next
  /\ UNCHANGED <<part, vars, listenVars, clockVars>>

ListenStep ==
  /\ part = "listen" /\ Lis!Next
  /\ UNCHANGED <<part, vars, historyVars, clockVars>>

ClockStep ==
  /\ part = "clock" /\ Clock!Next
  /\ UNCHANGED <<part, vars, historyVars, listenVars>>

MCNext == MigrationsStep \/ HistoryStep \/ ListenStep \/ ClockStep

mcVars == <<part, vars, historyVars, listenVars, clockVars>>

MCSpec == MCInit /\ [][MCNext]_mcVars

-----------------------------------------------------------------------------
\* Retention holds under concurrent writers: bounded by the cap and the
\* appends in flight, nothing lapsed survives a sweep, no row goes before an
\* earlier one unless it has lapsed, and each message is there once.
RetentionHolds == Hist!RetentionHolds

\* Starts that do not overlap hand the path over: a live socket is kept, a
\* dead one never blocks, and only a crash leaves one.
PathIsHandedOver == Lis!PathIsHandedOver

\* Nobody who waits is forgotten: an armed timer has its one place in the
\* list, a sleeper is woken when its time has come and not before, and a fire
\* reaches its reader, whatever Stop, Reset and Advance do meanwhile.
WaitersAreServed == Clock!WaitersAreServed
=============================================================================
