------------------------ MODULE ControlClient_proofs ------------------------
(***************************************************************************)
(* Proofs about ControlClient, for every number of dial attempts and for   *)
(* both orders of Machine.Close and Stop.                                  *)
(*                                                                         *)
(* None of the invariants is inductive alone.  That a verdict finds the    *)
(* machine where its session left it rests on two facts: a watchdog nobody *)
(* has stopped belongs to the session being served (WatchedIsServed), and  *)
(* until it is stopped the machine is online (StateFits).  The claim under *)
(* w.mu (ClaimStops) makes the first verdict the only one.                 *)
(***************************************************************************)
EXTENDS ControlClient, TLAPS

\* Attempts are numbered within the bound, and there is one while dialling or
\* later.
Numbered ==
  /\ sup = "top" => cur < MaxSessions
  /\ sup \in {"dialing", "dialed", "handshake", "acked", "installed", "drain", "serving"}
       => cur \in Sessions

\* Nothing of a session has started before serve starts it.
Fresh ==
  \A i \in Sessions :
    i > cur \/ (i = cur /\ sup \in {"dialing", "dialed", "handshake", "acked",
                                    "installed", "drain"}) =>
      reader[i] = "off" /\ dog[i] = "off" /\ beat[i] = "off" /\ ~stopped[i]

\* Whoever is about to drive the machine has claimed the death first.
ClaimStops ==
  \A i \in Sessions :
    \/ reader[i] = "verdict"
    \/ beat[i] = "verdict"
    \/ dog[i] \in {"degrade", "disconnect"}
    => stopped[i]

\* serve returns after its reader, and stops the watchdog.
WatchedIsServed ==
  \A i \in Sessions :
    /\ reader[i] \in {"recv", "verdict"} => i = cur /\ sup = "serving"
    /\ dog[i] # "off" \/ beat[i] # "off" => stopped[i] \/ (i = cur /\ sup = "serving")

\* Where the machine is while the supervisor is the only one to drive it.
StateFits ==
  \/ panicked
  \/ closed
  \/ /\ sup = "dialing" => state = "connecting"
     /\ sup \in {"dialed", "handshake", "acked", "installed"} => state = "handshaking"
     /\ sup = "drain" => state = "online"
     /\ sup = "serving" => \A i \in Sessions : i = cur /\ ~stopped[i] => state = "online"

Inv ==
  /\ TypeOK
  /\ Numbered
  /\ Fresh
  /\ ClaimStops
  /\ OneVerdict
  /\ WatchedIsServed
  /\ StateFits
  /\ VerdictsStayLegal
  /\ NoConnectionLeaks

USE ClientAssumption DEF Sessions

\* The initial state satisfies the invariant.
LEMMA InvInit == Init => Inv
<1> SUFFICES ASSUME Init PROVE Inv
  OBVIOUS
<1> USE DEF Init
<1>1. TypeOK
  BY DEF TypeOK, States, legalTransitions
<1>2. Numbered
  BY DEF Numbered
<1>3. Fresh
  BY DEF Fresh
<1>4. ClaimStops
  BY DEF ClaimStops
<1>5. OneVerdict
  BY DEF OneVerdict
<1>6. WatchedIsServed
  BY DEF WatchedIsServed
<1>7. StateFits
  BY DEF StateFits
<1>8. VerdictsStayLegal
  BY DEF VerdictsStayLegal
<1>9. NoConnectionLeaks
  BY DEF NoConnectionLeaks
<1> QED
  BY <1>1, <1>2, <1>3, <1>4, <1>5, <1>6, <1>7, <1>8, <1>9 DEF Inv

\* The machine's table, read as a function of the state.
LEMMA Edges ==
  /\ States = {"disconnected", "connecting", "handshaking", "online", "degraded"}
  /\ legalTransitions["disconnected"] = {"connecting"}
  /\ legalTransitions["connecting"] = {"handshaking", "disconnected"}
  /\ legalTransitions["handshaking"] = {"online", "disconnected"}
  /\ legalTransitions["online"] = {"degraded", "disconnected"}
  /\ legalTransitions["degraded"] = {"disconnected"}
  BY DEF States, legalTransitions

\* What Transition leaves in the machine's variables.
LEMMA TransitionType ==
  ASSUME TypeOK, NEW to \in States, Transition(to)
  PROVE  state' \in States /\ owed' \in Nat /\ panicked' \in BOOLEAN
<1>1. \A s \in States : legalTransitions[s] \subseteq States
  BY Edges
<1>2. state' \in States /\ owed' \in Nat
  BY <1>1 DEF TypeOK, Transition, machine
<1>3. panicked' \in BOOLEAN
  BY DEF TypeOK, Transition, machine
<1> QED
  BY <1>2, <1>3

\* The actions that combine a transition with the end of an attempt keep the
\* types.
LEMMA TypeHard == Inv /\ (Dial \/ HandshakeFails \/ ServeHint) => TypeOK'
<1> SUFFICES ASSUME Inv, Dial \/ HandshakeFails \/ ServeHint PROVE TypeOK'
  OBVIOUS
<1>s. {"disconnected", "connecting"} \subseteq States
  BY DEF States, legalTransitions
<1> USE DEF Inv, TypeOK, Numbered, machine, client, session, shutdown
<1>1. CASE Dial
  <2>1. state' \in States /\ owed' \in Nat /\ panicked' \in BOOLEAN
    BY <1>1, <1>s, TransitionType DEF Dial
  <2> QED
    BY <1>1, <2>1 DEF Dial
<1>2. CASE HandshakeFails
  <2>1. state' \in States /\ owed' \in Nat /\ panicked' \in BOOLEAN
    BY <1>2, <1>s, TransitionType DEF HandshakeFails, GiveUp
  <2> QED
    BY <1>2, <2>1 DEF HandshakeFails, GiveUp, CloseConn
<1>3. CASE ServeHint
  <2>1. owed' \in Nat
    BY <1>3 DEF ServeHint
  <2> QED
    BY <1>3, <2>1 DEF ServeHint, CloseConn
<1> QED
  BY <1>1, <1>2, <1>3

\* Every action preserves the invariant.  Dial and HandshakeFails end one
\* session's share of the machine, ServeHint is where a verdict takes effect:
\* their conjuncts are proved one at a time.
LEMMA InvStep == Inv /\ [Next]_vars => Inv'
<1> SUFFICES ASSUME Inv, [Next]_vars PROVE Inv'
  OBVIOUS
<1> USE DEF Inv, TypeOK, Numbered, Fresh, ClaimStops, OneVerdict, WatchedIsServed,
    StateFits, VerdictsStayLegal, NoConnectionLeaks, States, legalTransitions,
    vars, machine, client, session, shutdown
<1>1. CASE MachineClose
  BY <1>1 DEF MachineClose, Alive
<1>2. CASE PumpEnds
  BY <1>2 DEF PumpEnds, Alive
<1>3. CASE StopQuit
  BY <1>3 DEF StopQuit, Alive
<1>4. CASE StopCancel
  BY <1>4 DEF StopCancel, Alive
<1>5. CASE StopSnapshot
  BY <1>5 DEF StopSnapshot, Alive
<1>6. CASE StopReturn
  BY <1>6 DEF StopReturn, Alive
<1>7. CASE Dial
  <2> USE <1>7 DEF Dial, Transition, cancelled, Alive
  <2>1. TypeOK'
    BY <1>7, TypeHard
  <2>2. Numbered'
    OBVIOUS
  <2>3. Fresh'
    OBVIOUS
  <2>4. ClaimStops'
    OBVIOUS
  <2>5. OneVerdict'
    OBVIOUS
  <2>6. WatchedIsServed'
    OBVIOUS
  <2>7. StateFits'
    OBVIOUS
  <2>8. VerdictsStayLegal'
    <3>1. CASE panicked' \/ closed'
      BY <3>1
    <3>2. CASE ~panicked' /\ ~closed'
      <4>1. cancelled \/ state \in {"disconnected", "connecting"}
        BY <3>2
      <4> QED
        BY <4>1, <3>2
    <3> QED
      BY <3>1, <3>2
  <2>9. NoConnectionLeaks'
    OBVIOUS
  <2> QED
    BY <2>1, <2>2, <2>3, <2>4, <2>5, <2>6, <2>7, <2>8, <2>9
<1>8. CASE DialFails
  BY <1>8 DEF DialFails, GiveUp, Alive, Transition, cancelled
<1>9. CASE Dialed
  BY <1>9 DEF Dialed, Transition, Alive
<1>10. CASE SetInflight
  BY <1>10 DEF SetInflight, Alive
<1>11. CASE HelloAckArrives
  BY <1>11 DEF HelloAckArrives, Alive
<1>12. CASE HandshakeFails
  <2> USE <1>12 DEF HandshakeFails, GiveUp, CloseConn, Alive, Transition, cancelled
  <2>1. TypeOK'
    BY <1>12, TypeHard
  <2>2. Numbered'
    OBVIOUS
  <2>3. Fresh'
    OBVIOUS
  <2>4. ClaimStops'
    OBVIOUS
  <2>5. OneVerdict'
    OBVIOUS
  <2>6. WatchedIsServed'
    OBVIOUS
  <2>7. StateFits'
    OBVIOUS
  <2>8. VerdictsStayLegal'
    OBVIOUS
  <2>9. NoConnectionLeaks'
    OBVIOUS
  <2> QED
    BY <2>1, <2>2, <2>3, <2>4, <2>5, <2>6, <2>7, <2>8, <2>9
<1>13. CASE HandshakeOK
  BY <1>13 DEF HandshakeOK, Alive
<1>14. CASE InstallSession
  BY <1>14 DEF InstallSession, Alive
<1>15. CASE GoOnline
  BY <1>15 DEF GoOnline, Transition, CloseConn, Alive
<1>16. CASE DrainTake
  BY <1>16 DEF DrainTake, Alive
<1>17. CASE ServeStart
  BY <1>17 DEF ServeStart, Alive
<1>18. CASE ServeHint
  <2> USE <1>18 DEF ServeHint, CloseConn, Alive
  <2>1. TypeOK'
    BY <1>18, TypeHard
  <2>2. Numbered'
    OBVIOUS
  <2>3. Fresh'
    OBVIOUS
  <2>4. ClaimStops'
    OBVIOUS
  <2>5. OneVerdict'
    OBVIOUS
  <2>6. WatchedIsServed'
    OBVIOUS
  <2>7. StateFits'
    OBVIOUS
  <2>8. VerdictsStayLegal'
    OBVIOUS
  <2>9. NoConnectionLeaks'
    OBVIOUS
  <2> QED
    BY <2>1, <2>2, <2>3, <2>4, <2>5, <2>6, <2>7, <2>8, <2>9
<1>19. CASE ServeDone
  BY <1>19 DEF ServeDone, CloseConn, cancelled, Alive
<1>20. CASE BackoffOver
  BY <1>20 DEF BackoffOver, Alive
<1>21. CASE BackoffQuit
  BY <1>21 DEF BackoffQuit, quit, Alive
<1>22. CASE Ended
  BY <1>22 DEF Ended
<1>23. ASSUME NEW i \in Sessions, ConnBreaks(i) PROVE Inv'
  BY <1>23 DEF ConnBreaks, Alive
<1>24. ASSUME NEW i \in Sessions, ConnFallsSilent(i) PROVE Inv'
  BY <1>24 DEF ConnFallsSilent, Alive
<1>25. ASSUME NEW i \in Sessions, ReaderFrame(i) PROVE Inv'
  BY <1>25 DEF ReaderFrame, Alive
<1>26. ASSUME NEW i \in Sessions, ReaderError(i) PROVE Inv'
  BY <1>26 DEF ReaderError, Unusable, Alive
<1>27. ASSUME NEW i \in Sessions, ReaderVerdict(i) PROVE Inv'
  BY <1>27 DEF ReaderVerdict, Transition, Alive
<1>28. ASSUME NEW i \in Sessions, DogFires(i) PROVE Inv'
  BY <1>28 DEF DogFires, Alive
<1>29. ASSUME NEW i \in Sessions, DogClaims(i) PROVE Inv'
  BY <1>29 DEF DogClaims, Alive
<1>30. ASSUME NEW i \in Sessions, DogRetires(i) PROVE Inv'
  BY <1>30 DEF DogRetires, Alive
<1>31. ASSUME NEW i \in Sessions, DogDegrades(i) PROVE Inv'
  BY <1>31 DEF DogDegrades, Transition, Alive
<1>32. ASSUME NEW i \in Sessions, DogDisconnects(i) PROVE Inv'
  BY <1>32 DEF DogDisconnects, Transition, Alive
<1>33. ASSUME NEW i \in Sessions, BeatFails(i) PROVE Inv'
  BY <1>33 DEF BeatFails, Unusable, Alive
<1>34. ASSUME NEW i \in Sessions, BeatVerdict(i) PROVE Inv'
  BY <1>34 DEF BeatVerdict, Transition, Alive
<1>35. ASSUME NEW i \in Sessions, BeatRetires(i) PROVE Inv'
  BY <1>35 DEF BeatRetires, Alive
<1>36. CASE UNCHANGED vars
  BY <1>36
<1> QED
    BY <1>1, <1>2, <1>3, <1>4, <1>5, <1>6, <1>7, <1>8, <1>9, <1>10, <1>11,
     <1>12, <1>13, <1>14, <1>15, <1>16, <1>17, <1>18, <1>19, <1>20, <1>21,
     <1>22, <1>23, <1>24, <1>25, <1>26, <1>27, <1>28, <1>29, <1>30, <1>31,
     <1>32, <1>33, <1>34, <1>35, <1>36
  DEF Next, SupStep, StopStep, Network, SessionStep, ReaderEnds, DogStep, BeatEnds

\* The invariant holds in every reachable state.
THEOREM Invariance == Spec => []Inv
  BY InvInit, InvStep, PTL DEF Spec

\* Every variable stays in its range, for every bound on the attempts.
THEOREM ClientTypeCorrect == Spec => []TypeOK
  BY Invariance, PTL DEF Inv

\* Competing verdicts on one death never both reach the machine.
THEOREM OneVerdictHolds == Spec => []OneVerdict
  BY Invariance, PTL DEF Inv

\* No redial, failed handshake or shutdown leaves a transport open.
THEOREM ConnectionsHold == Spec => []NoConnectionLeaks
  BY Invariance, PTL DEF Inv

\* A verdict on its way finds the machine where its own session left it.
THEOREM VerdictsHold == Spec => []VerdictsStayLegal
  BY Invariance, PTL DEF Inv

\* No transition but the supervisor's dial can be illegal: the watchdog's
\* verdicts and the supervisor's other edges are legal wherever they are taken.
LEMMA PanicStep == Inv /\ [Next]_vars => (panicked' /\ ~panicked => sup = "top")
<1> SUFFICES ASSUME Inv, [Next]_vars, panicked' = TRUE, panicked = FALSE,
                    sup # "top"
             PROVE  FALSE
  BY InvStep DEF Inv, TypeOK
<1> USE Edges DEF Inv, StateFits, VerdictsStayLegal, machine, shutdown
<1>1. CASE DialFails
  BY <1>1 DEF DialFails, GiveUp, Alive, Transition, cancelled
<1>2. CASE Dialed
  BY <1>2 DEF Dialed, Transition, Alive
<1>3. CASE HandshakeFails
  BY <1>3 DEF HandshakeFails, GiveUp, CloseConn, Alive, Transition, cancelled
<1>4. CASE GoOnline
  BY <1>4 DEF GoOnline, Transition, CloseConn, Alive
<1>5. ASSUME NEW i \in Sessions, ReaderVerdict(i) PROVE FALSE
  BY <1>5 DEF ReaderVerdict, Transition, Alive
<1>6. ASSUME NEW i \in Sessions, DogDegrades(i) PROVE FALSE
  BY <1>6 DEF DogDegrades, Transition, Alive
<1>7. ASSUME NEW i \in Sessions, DogDisconnects(i) PROVE FALSE
  BY <1>7 DEF DogDisconnects, Transition, Alive
<1>8. ASSUME NEW i \in Sessions, BeatVerdict(i) PROVE FALSE
  BY <1>8 DEF BeatVerdict, Transition, Alive
<1>9. CASE UNCHANGED panicked
  BY <1>9
<1> QED
  BY <1>1, <1>2, <1>3, <1>4, <1>5, <1>6, <1>7, <1>8, <1>9 DEF vars, Next,
     SupStep, StopStep, Network, SessionStep, ReaderEnds, DogStep, BeatEnds,
     MachineClose, PumpEnds, StopQuit, StopCancel, StopSnapshot, StopReturn,
     Dial, SetInflight, HelloAckArrives, HandshakeOK, InstallSession,
     DrainTake, ServeStart, ServeHint, ServeDone, BackoffOver, BackoffQuit,
     Ended, ConnBreaks, ConnFallsSilent, ReaderFrame, ReaderError, DogFires,
     DogClaims, DogRetires, BeatFails, BeatRetires

\* Every illegal transition is taken by the supervisor at the top of its loop.
THEOREM PanicsAreDials == Spec => OnlyDialPanics
<1>1. Inv /\ [Next]_vars => [panicked' /\ ~panicked => sup = "top"]_vars
  BY PanicStep
<1> QED
  BY <1>1, Invariance, PTL DEF Spec, OnlyDialPanics
=============================================================================
