-------------------------- MODULE MCClientProgress --------------------------
(*****************************************************************************)
(* What must eventually happen on the client, on small instances: the        *)
(* control socket (its constants are those of the configuration, and the     *)
(* honesty of its stream is checked here too), the control client, and the   *)
(* outbox. The modules share no variable, so each behaviour runs one of      *)
(* them, which part selects, and leaves the others at rest. Each property    *)
(* assumes the fairness of its own part.                                     *)
(*****************************************************************************)
EXTENDS CtlSocket

VARIABLES
  part,  \* the part that runs in this behaviour
  state, clientClosed, panicked, owed, outClosed, sup, stop, cur, sess,
  inflight, reply, clientConn, stopped, clientReader, dog, beat,
  outboxConn, known, outboxOwed, spawned, draining, drain, todo, box, seq,
  last, composed, sending, holding, refused, lost, wire, faults, crashes

clientVars ==
  <<state, clientClosed, panicked, owed, outClosed, sup, stop, cur, sess,
    inflight, reply, clientConn, stopped, clientReader, dog, beat>>
outboxVars ==
  <<outboxConn, known, outboxOwed, spawned, draining, drain, todo, box, seq,
    last, composed, sending, holding, refused, lost, wire, faults, crashes>>

Cli == INSTANCE ControlClient WITH
  MaxSessions <- 2, CloseFirst <- TRUE, closed <- clientClosed,
  conn <- clientConn, reader <- clientReader

Box == INSTANCE Outbox WITH
  MaxMessages <- 3, MaxFaults <- 1, MaxCrashes <- 1, MaxOwed <- 1,
  LongSessions <- TRUE, conn <- outboxConn, owed <- outboxOwed

MCInit ==
  /\ part \in {"socket", "client", "outbox"}
  /\ Init /\ Cli!Init /\ Box!Init

SocketStep ==
  /\ part = "socket" /\ Next
  /\ UNCHANGED <<part, clientVars, outboxVars>>

ClientStep ==
  /\ part = "client" /\ Cli!Next
  /\ UNCHANGED <<part, vars, outboxVars>>

OutboxStep ==
  /\ part = "outbox" /\ Box!Next
  /\ UNCHANGED <<part, vars, clientVars>>

MCNext == SocketStep \/ ClientStep \/ OutboxStep

mcVars == <<part, vars, clientVars, outboxVars>>

MCSpec == MCInit /\ [][MCNext]_mcVars

-----------------------------------------------------------------------------
\* A session that broke, fell silent or was condemned by the machine comes
\* to its end, before the shutdown or in it, unless the drain spins.
SessionsEnd == Cli!Fairness => Cli!SessionsEnd

\* Once the owner has closed the machine, Stop returns, unless the drain
\* spins.
ClosedMachineStops == Cli!Fairness => Cli!ClosedMachineStops

\* Where sessions outlive the drain they start and the connection keeps
\* breaking and coming back, every held message is sent: none starves behind
\* the head, and no way out of drainOutbox leaves the flag set.
HeldIsSent == Box!Fairness => Box!HeldIsSent
=============================================================================
