------------------------- MODULE ServerDrain_proofs -------------------------
(***************************************************************************)
(* Proofs about ServerDrain, for any set of connections and any peers.     *)
(*                                                                         *)
(* The WaitGroup is compared with a set of handlers, so every step that    *)
(* moves a handler is shown to move that set by one element or not at all. *)
(* What shutdown reads off the count and the registry needs two facts the  *)
(* code relies on: the registry holds exactly the handlers that serve or   *)
(* leave (RegistryIsExact), and draining was set before shutdown looked,   *)
(* so that no handler is tracked behind its back (StopMarked).             *)
(***************************************************************************)
EXTENDS ServerDrain, FiniteSetTheorems, TLAPS

-----------------------------------------------------------------------------
(* The inductive invariant *)

\* The types, with the count left open: its bound follows from WaitGroupIsExact.
Types ==
  /\ handler \in [Sockets -> {"none", "gone"} \cup Running]
  /\ wg \in Nat
  /\ conns \subseteq Sockets /\ closed \subseteq Sockets /\ cancelled \subseteq Sockets
  /\ polite \subseteq Sockets
  /\ draining \in BOOLEAN /\ store \in BOOLEAN
  /\ serve \in {"serving", "http", "closing", "waiting", "returned"}
  /\ now \in 0 .. Grace /\ closedAt \in 0 .. Grace
  /\ verdict \in {"none", "clean", "incomplete", "failed"}

Working == {c \in Sockets : handler[c] \in Counted}

\* The registry holds the connections whose handler serves or leaves.
RegistryIsExact == \A c \in Sockets : c \in conns <=> handler[c] \in {"serving", "leaving"}

\* A stop that went past its first step has set draining, and only a wait that
\* is over has a verdict.
StopMarked ==
  /\ serve \in {"http", "closing", "waiting"} => draining
  /\ verdict = "clean" => draining
  /\ verdict # "none" => serve = "returned"

Inv ==
  /\ Types
  /\ WaitGroupIsExact
  /\ RegistryIsExact
  /\ StopMarked
  /\ NobodyIsMissed
  /\ CleanIsQuiet

-----------------------------------------------------------------------------
(* Counting handlers *)

\* The handlers the WaitGroup counts are finitely many.
LEMMA WorkingFinite ==
  /\ IsFiniteSet(Working)
  /\ Cardinality(Working) \in 0 .. Cardinality(Sockets)
<1>1. Working \subseteq Sockets
  BY DEF Working
<1>2. IsFiniteSet(Working) /\ Cardinality(Working) <= Cardinality(Sockets)
  BY <1>1, DrainAssumption, FS_Subset
<1> QED
  BY <1>2, DrainAssumption, FS_CardinalityType

\* A handler that moves between two places of the same kind changes no count.
LEMMA SameCount ==
  ASSUME Types, NEW c \in Sockets, NEW where \in {"none", "gone"} \cup Running,
         Goto(c, where), handler[c] \in Counted <=> where \in Counted
  PROVE  Working' = Working
<1>1. \A d \in Sockets : handler'[d] \in Counted <=> handler[d] \in Counted
  BY DEF Goto, Types
<1> QED
  BY <1>1 DEF Working

\* A handler that counts itself is one more ...
LEMMA OneMore ==
  ASSUME Types, NEW c \in Sockets, NEW where \in Counted,
         Goto(c, where), handler[c] \notin Counted
  PROVE  Cardinality(Working') = Cardinality(Working) + 1
<1>1. Working' = Working \cup {c}
  BY DEF Working, Goto, Types
<1>2. c \notin Working
  BY DEF Working
<1> QED
  BY <1>1, <1>2, WorkingFinite, FS_AddElement

\* ... and one that ends is one fewer.
LEMMA OneFewer ==
  ASSUME Types, NEW c \in Sockets, NEW where \in {"none", "gone"} \cup Running,
         where \notin Counted, Goto(c, where), handler[c] \in Counted
  PROVE  Cardinality(Working') = Cardinality(Working) - 1 /\ Cardinality(Working') \in Nat
<1>1. Working' = Working \ {c}
  BY DEF Working, Goto, Types
<1>2. c \in Working
  BY DEF Working
<1> QED
  BY <1>1, <1>2, WorkingFinite, FS_RemoveElement, FS_CardinalityType

\* Nobody is counted only when nobody works.
LEMMA ZeroIsQuiet ==
  ASSUME WaitGroupIsExact, wg = 0
  PROVE  \A c \in Sockets : handler[c] \notin Counted
<1>1. Working = {}
  BY WorkingFinite, FS_EmptySet DEF WaitGroupIsExact, Working
<1> QED
  BY <1>1 DEF Working

-----------------------------------------------------------------------------
(* The steps *)

\* At the start nothing is connected and nothing stops.
LEMMA InvInit == Init => Inv
<1> SUFFICES ASSUME Init PROVE Inv
  OBVIOUS
<1>1. draining \in BOOLEAN /\ store \in BOOLEAN
  BY Zenon DEF Init
<1>t. Types
  BY <1>1 DEF Init, Types, Grace
<1>2. {c \in Sockets : handler[c] \in Counted} = {}
  BY DEF Init, Counted
<1>3. WaitGroupIsExact
  BY <1>2, FS_EmptySet DEF Init, WaitGroupIsExact
<1> QED
  BY <1>t, <1>3 DEF Init, Inv, RegistryIsExact, StopMarked, NobodyIsMissed, CleanIsQuiet

\* Every step of a handler, of shutdown and of a peer preserves the types ...
LEMMA TypesStep ==
  ASSUME Types, WaitGroupIsExact, [Next]_vars
  PROVE  Types' /\ WaitGroupIsExact'
<1> DEFINE P == Types' /\ WaitGroupIsExact'
<1>e. wg = Cardinality(Working)
  BY DEF WaitGroupIsExact, Working
<1>s. ASSUME Types', wg' = Cardinality(Working') PROVE P
  BY <1>s DEF WaitGroupIsExact, Working
<1>k. ASSUME UNCHANGED <<handler, wg>> PROVE wg' = Cardinality(Working')
  BY <1>k, <1>e DEF Working
<1> USE DEF Types, Running, Counted, stop, server
<1>1. ASSUME NEW c \in Sockets, Request(c) PROVE P
  <2>1. Working' = Working
    BY <1>1, SameCount DEF Request, Goto
  <2> QED
    BY <1>1, <1>e, <2>1, <1>s DEF Request, Goto
<1>2. ASSUME NEW c \in Sockets, Refuse(c) PROVE P
  <2>1. Working' = Working
    BY <1>2, SameCount DEF Refuse, Goto
  <2> QED
    BY <1>2, <1>e, <2>1, <1>s DEF Refuse, Goto
<1>3. ASSUME NEW c \in Sockets, Resolved(c) PROVE P
  <2>1. Cardinality(Working') = Cardinality(Working) + 1
    BY <1>3, OneMore DEF Resolved, Goto
  <2> QED
    BY <1>3, <1>e, <2>1, <1>s DEF Resolved, Goto
<1>4. ASSUME NEW c \in Sockets, AcceptFails(c) PROVE P
  <2>1. Cardinality(Working') = Cardinality(Working) - 1 /\ Cardinality(Working') \in Nat
    BY <1>4, OneFewer DEF AcceptFails, Goto
  <2> QED
    BY <1>4, <1>e, <2>1, <1>s DEF AcceptFails, Goto
<1>5. ASSUME NEW c \in Sockets, Accept(c) PROVE P
  <2>1. Working' = Working
    BY <1>5, SameCount DEF Accept, Goto
  <2> QED
    BY <1>5, <1>e, <2>1, <1>s DEF Accept, Goto
<1>6. ASSUME NEW c \in Sockets, Track(c) PROVE P
  <2>1. CASE ~draining
    <3>1. Working' = Working
      BY <1>6, <2>1, SameCount DEF Track, Goto
    <3> QED
      BY <1>6, <2>1, <1>e, <3>1, <1>s DEF Track, Goto
  <2>2. CASE draining
    <3>1. Cardinality(Working') = Cardinality(Working) - 1 /\ Cardinality(Working') \in Nat
      BY <1>6, <2>2, OneFewer DEF Track, Goto
    <3> QED
      BY <1>6, <2>2, <1>e, <3>1, <1>s DEF Track, Goto
  <2> QED
    BY <2>1, <2>2
<1>7. ASSUME NEW c \in Sockets, PeerCloses(c) PROVE P
  BY <1>7, <1>k, <1>s DEF PeerCloses
<1>8. ASSUME NEW c \in Sockets, ReadEnds(c) PROVE P
  <2>1. Working' = Working
    BY <1>8, SameCount DEF ReadEnds, Goto
  <2> QED
    BY <1>8, <1>e, <2>1, <1>s DEF ReadEnds, Goto
<1>9. ASSUME NEW c \in Sockets, Release(c) PROVE P
  <2>1. Cardinality(Working') = Cardinality(Working) - 1 /\ Cardinality(Working') \in Nat
    BY <1>9, OneFewer DEF Release, Goto
  <2> QED
    BY <1>9, <1>e, <2>1, <1>s DEF Release, Goto
<1>10. ASSUME NEW c \in Sockets, HandshakeDone(c) \/ AbortConn(c) PROVE P
  BY <1>10, <1>k, <1>s DEF HandshakeDone, AbortConn
<1>11. ASSUME ServeFails \/ BeginShutdown \/ HttpShutdown \/ CloseConns \/ Drained \/ DrainTimeout
       PROVE  P
  BY <1>11, <1>k, <1>s DEF ServeFails, BeginShutdown, HttpShutdown, CloseConns, Drained, DrainTimeout
<1>12. ASSUME CloseStore PROVE P
  <2>1. store' \in BOOLEAN
    BY <1>12, Zenon DEF CloseStore
  <2> QED
    BY <1>12, <2>1, <1>k, <1>s DEF CloseStore
<1>13. ASSUME Tick PROVE P
  BY <1>13, <1>k, <1>s DEF Tick, Grace
<1>14. ASSUME UNCHANGED vars PROVE P
  BY <1>14, <1>k, <1>s DEF vars
<1> QED
  BY <1>1, <1>2, <1>3, <1>4, <1>5, <1>6, <1>7, <1>8, <1>9, <1>10, <1>11, <1>12, <1>13,
     <1>14 DEF Next

\* ... and what shutdown relies on.
LEMMA DrainStep ==
  ASSUME Inv, [Next]_vars
  PROVE  RegistryIsExact' /\ StopMarked' /\ NobodyIsMissed' /\ CleanIsQuiet'
<1> DEFINE P == RegistryIsExact' /\ StopMarked' /\ NobodyIsMissed' /\ CleanIsQuiet'
<1> USE DEF Inv, Types, RegistryIsExact, StopMarked, NobodyIsMissed, CleanIsQuiet, Goto,
            Running, Counted, stop, server
<1>1. ASSUME NEW c \in Sockets, Request(c) \/ Refuse(c) \/ Resolved(c) \/ AcceptFails(c) \/ Accept(c)
      PROVE  P
  BY <1>1 DEF Request, Refuse, Resolved, AcceptFails, Accept
<1>2. ASSUME NEW c \in Sockets, Track(c) PROVE P
  BY <1>2 DEF Track
<1>3. ASSUME NEW c \in Sockets, PeerCloses(c) \/ ReadEnds(c) \/ Release(c) PROVE P
  BY <1>3 DEF PeerCloses, ReadEnds, Release
<1>4. ASSUME NEW c \in Sockets, HandshakeDone(c) \/ AbortConn(c) PROVE P
  BY <1>4 DEF HandshakeDone, AbortConn
<1>5. ASSUME ServeFails \/ BeginShutdown \/ HttpShutdown \/ CloseConns \/ DrainTimeout PROVE P
  BY <1>5 DEF ServeFails, BeginShutdown, HttpShutdown, CloseConns, DrainTimeout
<1>6. ASSUME Drained PROVE P
  <2>1. \A c \in Sockets : handler[c] \notin {"serving", "leaving"}
    BY <1>6, ZeroIsQuiet DEF Drained
  <2> QED
    BY <1>6, <2>1 DEF Drained
<1>7. ASSUME CloseStore \/ Tick PROVE P
  BY <1>7 DEF CloseStore, Tick
<1>8. ASSUME UNCHANGED vars PROVE P
  BY <1>8 DEF vars
<1> QED
  BY <1>1, <1>2, <1>3, <1>4, <1>5, <1>6, <1>7, <1>8 DEF Next

-----------------------------------------------------------------------------
(* Theorems *)

\* The inductive invariant holds in every behaviour.
THEOREM InvHolds == Spec => []Inv
<1>1. Inv /\ [Next]_vars => Inv'
  BY TypesStep, DrainStep DEF Inv
<1> QED
  BY InvInit, <1>1, PTL DEF Spec

\* The drain is exact (Serve, shutdown, track, release): every handler is
\* counted once and the count never exceeds the connections; while shutdown
\* waits every handler that serves is registered and being closed; and after a
\* clean verdict none uses the store any more.
THEOREM DrainIsExactHolds == Spec => []DrainIsExact
<1>1. Inv => DrainIsExact
  <2> SUFFICES ASSUME Inv PROVE DrainIsExact
    OBVIOUS
  <2>1. wg \in 0 .. Cardinality(Sockets)
    BY WorkingFinite DEF Inv, WaitGroupIsExact, Working
  <2> QED
    BY <2>1 DEF Inv, Types, TypeOK, DrainIsExact
<1> QED
  BY InvHolds, <1>1, PTL

=============================================================================
