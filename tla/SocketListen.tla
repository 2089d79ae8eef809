---------------------------- MODULE SocketListen ----------------------------
(***************************************************************************)
(* internal/ctlsocket Listen and its caller in cmd/walkie: several runs of *)
(* the client on one machine share the path of the control socket.         *)
(*                                                                         *)
(* A start looks at the path, probes what it finds there, removes it when  *)
(* nothing answers and binds.  Each of these is a system call of its own,  *)
(* and the path names whatever is there at that moment.  A run that cannot *)
(* have the socket goes on without it.  A clean exit unlinks the path when *)
(* the listener closes; a crash leaves the file.                           *)
(***************************************************************************)
EXTENDS FiniteSets

CONSTANTS
  Runs,  \* runs of the client; a restart is another run
  None   \* no file at the path

\* What the constants have to satisfy; every instance assumes it.
SocketListenAssumption == None \notin Runs

VARIABLES
  file,       \* the run that bound the socket file at the path, or None
  listening,  \* runs whose listener is open
  pc,         \* pc[r]: how far run r is
  crashed,    \* runs that ended without closing their listener
  raced       \* two runs were starting or closing at the same time

vars == <<file, listening, pc, crashed, raced>>

Starting == {"stat", "dial", "remove", "bind", "chmod"}
Closing == {"closing", "unlinked"}
Ended == {"new", "disabled", "gone"}

Others(r, states) == \E q \in Runs \ {r} : pc[q] \in states
Goto(r, s) == pc' = [pc EXCEPT ![r] = s]

-----------------------------------------------------------------------------
(* Listen *)

\* The directory is created, or the run has no socket.
MkdirAll(r) ==
  /\ pc[r] = "new"
  /\ \/ Goto(r, "stat") /\ raced' = (raced \/ Others(r, Starting \cup Closing))
     \/ Goto(r, "disabled") /\ UNCHANGED raced
  /\ UNCHANGED <<file, listening, crashed>>

\* The path is free or taken, or cannot be inspected.
Stat(r) ==
  /\ pc[r] = "stat"
  /\ \/ Goto(r, IF file = None THEN "bind" ELSE "dial")
     \/ Goto(r, "disabled")
  /\ UNCHANGED <<file, listening, crashed, raced>>

\* Whatever is at the path is taken for dead.
DialNothing(r) ==
  /\ pc[r] = "dial"
  /\ Goto(r, "remove")
  /\ UNCHANGED <<file, listening, crashed, raced>>

\* Something answers (ErrInUse), or the file is taken for dead.
Dial(r) ==
  /\ pc[r] = "dial"
  /\ Goto(r, IF file \in listening THEN "inUse" ELSE "remove")
  /\ UNCHANGED <<file, listening, crashed, raced>>

\* The dead socket stays for bind to deal with.
RemoveNothing(r) ==
  /\ pc[r] = "remove"
  /\ Goto(r, "bind")
  /\ UNCHANGED <<file, listening, crashed, raced>>

\* The file goes; it may have gone already, or the file system keeps it.
Remove(r) ==
  /\ pc[r] = "remove"
  /\ \/ file' = None /\ Goto(r, IF file = None THEN "failed" ELSE "bind")
     \/ UNCHANGED file /\ Goto(r, "disabled")
  /\ UNCHANGED <<listening, crashed, raced>>

\* net.Listen: bind fails on a path that exists.
Bind(r) ==
  /\ pc[r] = "bind"
  /\ IF file = None
     THEN file' = r /\ listening' = listening \cup {r} /\ Goto(r, "chmod")
     ELSE UNCHANGED <<file, listening>> /\ Goto(r, "failed")
  /\ UNCHANGED <<crashed, raced>>

\* Closing the listener unlinks the path, whoever bound what is there.
Unlink(r, next) ==
  /\ file' = None
  /\ Goto(r, next)
  /\ UNCHANGED <<listening, crashed>>

Chmod(r) ==
  /\ pc[r] = "chmod"
  /\ file # None
  /\ Goto(r, "serving")
  /\ UNCHANGED <<file, listening, crashed, raced>>

\* The listener is closed before the error is returned.
ChmodFails(r) ==
  /\ pc[r] = "chmod"
  /\ Unlink(r, "unlinked")
  /\ raced' = (raced \/ Others(r, Starting))

\* startControlSocket's error: one warning, and the run goes on without.
Disable(r) ==
  /\ pc[r] \in {"inUse", "failed"}
  /\ Goto(r, "disabled")
  /\ UNCHANGED <<file, listening, crashed, raced>>

-----------------------------------------------------------------------------
(* The end of a run *)

\* Server.Close: the connections go, the listener is still open.
CloseServer(r) ==
  /\ pc[r] = "serving"
  /\ Goto(r, "closing")
  /\ raced' = (raced \/ Others(r, Starting))
  /\ UNCHANGED <<file, listening, crashed>>

\* Only the server is closed; the listener goes with the process.
CloseListenerForgotten(r) ==
  /\ pc[r] = "closing"
  /\ Goto(r, "unlinked")
  /\ UNCHANGED <<file, listening, crashed, raced>>

CloseListener(r) ==
  /\ pc[r] = "closing"
  /\ Unlink(r, "unlinked")
  /\ UNCHANGED raced

CloseFd(r) ==
  /\ pc[r] = "unlinked"
  /\ listening' = listening \ {r}
  /\ Goto(r, "gone")
  /\ UNCHANGED <<file, crashed, raced>>

Crash(r) ==
  /\ pc[r] \notin Ended
  /\ listening' = listening \ {r}
  /\ crashed' = crashed \cup {r}
  /\ Goto(r, "gone")
  /\ UNCHANGED <<file, raced>>

-----------------------------------------------------------------------------
Init ==
  /\ file = None /\ listening = {} /\ crashed = {} /\ raced = FALSE
  /\ pc = [r \in Runs |-> "new"]

ListenSteps(r) ==
  MkdirAll(r) \/ Stat(r) \/ Dial(r) \/ Remove(r) \/ Bind(r) \/ Chmod(r) \/ ChmodFails(r) \/ Disable(r)

Next ==
  \E r \in Runs :
    \/ ListenSteps(r)
    \/ CloseServer(r) \/ CloseListener(r) \/ CloseFd(r)
    \/ Crash(r)

Spec == Init /\ [][Next]_vars

-----------------------------------------------------------------------------
(* Properties *)

TypeOK ==
  /\ file \in Runs \cup {None}
  /\ crashed \subseteq Runs /\ raced \in BOOLEAN
  /\ pc \in [Runs -> Starting \cup Closing \cup Ended \cup {"inUse", "failed", "serving"}]
  /\ listening = {r \in Runs : pc[r] \in Closing \cup {"chmod", "serving"}}

\* As long as starts and exits do not overlap, the path leads to the one run
\* that serves it: a start never takes the socket of a running client.
AloneIsSafe ==
  ~raced => \A r \in Runs : pc[r] \in {"chmod", "serving", "closing"} => file = r

\* As long as starts and exits do not overlap, a start ends with the socket or
\* with ErrInUse, short of a file system that refuses the path: a file that a
\* crash left behind does not block it.
LeftoverNeverBlocks ==
  ~raced => \A r \in Runs : pc[r] # "failed"

\* A dead file at the path means that the run that bound it crashed: a clean
\* exit never reads to the next run as a crashed predecessor.
DeadFileMeansCrash ==
  file # None /\ file \notin listening => file \in crashed

\* Starts that do not overlap hand the path over: a live socket is kept, a
\* dead one never blocks, and only a crash leaves one.
PathIsHandedOver ==
  TypeOK /\ AloneIsSafe /\ LeftoverNeverBlocks /\ DeadFileMeansCrash

\* Only a dead socket is removed: while a client runs and serves the path, the
\* path stays with it.
RunningKeepsSocket ==
  \A r \in Runs : pc[r] = "serving" => file = r
=============================================================================
