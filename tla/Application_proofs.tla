-------------------------- MODULE Application_proofs --------------------------
(***************************************************************************)
(* Proofs about the parts of the client process: Outbox, for any number of *)
(* messages, faults, crashes and waiting drains; MessageHub, for any       *)
(* peers, messages, window and bounds; Cadence, for any interval, TTL, lag *)
(* and bounds; Terminal, for any devices, messages, screen and bounds.     *)
(*                                                                         *)
(* That copies need a fault or a crash is not inductive: a row that was    *)
(* carried and is still in the table, because its removal failed or the    *)
(* process died, will be carried again, so it has to be paid for before it *)
(* is (CopiesAreOwed).  The row between its send and its removal is not    *)
(* counted (InTransit); the draining flag makes it the only one.           *)
(*                                                                         *)
(* The dedup ring and its set hold the last ids let pass, wherever the     *)
(* head is (RingHoldsLast, SetHoldsLast), and these are distinct           *)
(* (LastAreDistinct); the terminal's own messages pass because their ids   *)
(* are new (DraftIsNew).  What was displayed is in the history or was      *)
(* logged as lost, or the goroutine that has it keeps it next              *)
(* (ShownStays).                                                           *)
(*                                                                         *)
(* The silence deadline and the lease look at what has arrived only.  That *)
(* neither is false on a link that works needs each frame on its way to    *)
(* follow the one before it within a period and the delays (Flowing, from  *)
(* OnSchedule and InOrder); that none is late, that the clock does not     *)
(* pass what a goroutine has still to do (NothingOverdue).                 *)
(* SlotsAreMultiples says where the beats are, by division that rounds     *)
(* down.                                                                   *)
(*                                                                         *)
(* Every entry of the list on the screen is known to hub or roster         *)
(* (ListIsKnown), and the last connection change on its way is the         *)
(* machine's state (StatusCatchesUp); so a rebuild drops at most this      *)
(* device, and the selected peer stays selected.                           *)
(***************************************************************************)
EXTENDS MCApplication, SequenceTheorems, FiniteSetTheorems, TLAPS

-----------------------------------------------------------------------------
(* The inductive invariant *)

\* A drain runs exactly while the flag is set.
FlagIsHeld == draining <=> drain # "idle"

\* A message in the hands of a SendFromUI is new to the table, to the losses
\* reported and, until the first try, to the wire.
HandIsFresh ==
  /\ \A m \in Sent \cup box \cup refused \cup sending \cup holding : m <= composed
  /\ \A m \in sending : m \notin Sent \cup box \cup refused \cup holding
  /\ \A m \in holding : m \notin box \cup refused

\* Rows have a seq of their own, and the next one is larger.
SeqsAscend ==
  /\ \A m \in box : seq[m] <= last
  /\ \A m, k \in box : seq[m] = seq[k] => m = k

\* What a drain is about to remove was carried.
RemovedIsSent == drain = "remove" => \A m \in todo : OldestRow(m, todo) => m \in Sent

\* The row between its send and its removal.
InTransit == {m \in todo : drain = "remove" /\ OldestRow(m, todo)}

\* Messages that were carried and will be once more: rows, and messages between
\* a failed send and the table.
Again == ((box \cup holding) \cap Sent) \ InTransit

\* Every copy, those still to come included, is owed to a fault or a crash.
CopiesAreOwed == Len(wire) + Cardinality(Again) <= Cardinality(Sent) + faults + crashes

Inv ==
  /\ TypeOK /\ FlagIsHeld /\ HandIsFresh /\ SeqsAscend /\ RemovedIsSent
  /\ SnapshotIsPrefix /\ CopiesAreOwed /\ Accounted

-----------------------------------------------------------------------------
(* Messages and their numbers *)

\* Messages are finitely many, and so are those of any set of them.
LEMMA IdsAreFinite ==
  ASSUME NEW S \in SUBSET Ids
  PROVE  IsFiniteSet(S) /\ Cardinality(S) \in Nat
<1>1. IsFiniteSet(Ids)
  BY FS_Interval, OutboxAssumption DEF Ids
<1>2. IsFiniteSet(S)
  BY <1>1, FS_Subset
<1> QED
  BY <1>2, FS_CardinalityType

\* Fewer messages count less ...
LEMMA CountGrows ==
  ASSUME NEW S \in SUBSET Ids, NEW T \in SUBSET Ids, S \subseteq T
  PROVE  Cardinality(S) <= Cardinality(T)
  BY IdsAreFinite, FS_Subset

\* ... one more counts one more ...
LEMMA CountOneMore ==
  ASSUME NEW S \in SUBSET Ids, NEW m \in Ids
  PROVE  /\ m \notin S => Cardinality(S \cup {m}) = Cardinality(S) + 1
         /\ Cardinality(S \cup {m}) <= Cardinality(S) + 1
<1>1. IsFiniteSet(S) /\ Cardinality(S) \in Nat
  BY IdsAreFinite
<1>2. \A x : IsFiniteSet(S \cup {x}) /\ (x \notin S => Cardinality(S \cup {x}) = Cardinality(S) + 1)
  BY <1>1, FS_AddElement
<1>3. CASE m \in S
  <2>1. S \cup {m} = S
    BY <1>3
  <2>2. Cardinality(S \cup {m}) = Cardinality(S)
    BY <2>1
  <2> QED
    BY <1>1, <1>3, <2>2
<1>4. CASE m \notin S
  <2>1. Cardinality(S \cup {m}) = Cardinality(S) + 1
    BY <1>2, <1>4
  <2> QED
    BY <1>1, <2>1
<1> QED
  BY <1>3, <1>4

\* ... and one fewer one fewer.
LEMMA CountOneFewer ==
  ASSUME NEW S \in SUBSET Ids, NEW m \in S
  PROVE  Cardinality(S \ {m}) = Cardinality(S) - 1
  BY IdsAreFinite, FS_RemoveElement

\* What was carried are messages.
LEMMA SentType == TypeOK => Sent \subseteq Ids /\ Len(wire) \in Nat
<1> SUFFICES ASSUME TypeOK PROVE Sent \subseteq Ids /\ Len(wire) \in Nat
  OBVIOUS
<1>1. wire \in Seq(Ids)
  BY DEF TypeOK
<1>2. \A i \in DOMAIN wire : wire[i] \in Ids
  BY <1>1, ElementOfSeq, LenProperties
<1> QED
  BY <1>1, <1>2, LenProperties DEF Sent, ToSet

\* A frame that is carried comes last and adds its message.
LEMMA Carried ==
  ASSUME TypeOK, NEW m \in Ids, wire' = Append(wire, m)
  PROVE  /\ wire' \in Seq(Ids)
         /\ Sent' = Sent \cup {m} /\ Len(wire') = Len(wire) + 1 /\ wire'[Len(wire')] = m
<1>1. wire \in Seq(Ids)
  BY DEF TypeOK
<1>2. /\ wire' \in Seq(Ids) /\ Len(wire) \in Nat /\ Len(wire') = Len(wire) + 1
      /\ \A i \in 1 .. Len(wire) : wire'[i] = wire[i]
      /\ wire'[Len(wire) + 1] = m
  BY <1>1, AppendProperties
<1>3. DOMAIN wire = 1 .. Len(wire) /\ DOMAIN wire' = 1 .. Len(wire')
  BY <1>1, <1>2, LenProperties
<1>4. Sent' \subseteq Sent \cup {m}
  <2> SUFFICES ASSUME NEW i \in 1 .. Len(wire') PROVE wire'[i] \in Sent \cup {m}
    BY <1>3 DEF Sent, ToSet
  <2>1. CASE i \in 1 .. Len(wire)
    BY <1>2, <1>3, <2>1 DEF Sent, ToSet
  <2>2. CASE i = Len(wire) + 1
    BY <1>2, <2>2
  <2> QED
    BY <1>2, <2>1, <2>2
<1>5. Sent \cup {m} \subseteq Sent'
  <2>1. m \in Sent'
    <3>1. Len(wire) + 1 \in DOMAIN wire'
      BY <1>2, <1>3
    <3> QED
      BY <1>2, <3>1 DEF Sent, ToSet
  <2>2. ASSUME NEW i \in 1 .. Len(wire) PROVE wire[i] \in Sent'
    <3>1. i \in DOMAIN wire' /\ wire'[i] = wire[i]
      BY <1>2, <1>3
    <3> QED
      BY <3>1 DEF Sent, ToSet
  <2> QED
    BY <1>3, <2>1, <2>2 DEF Sent, ToSet
<1> QED
  BY <1>2, <1>4, <1>5

\* A send leaves the wire alone or adds the message; one that failed on a live
\* connection is a fault.
LEMMA SendFacts ==
  ASSUME TypeOK, NEW m \in Ids, NEW ok \in BOOLEAN, Send(m, ok)
  PROVE  /\ wire' \in Seq(Ids) /\ faults' \in 0 .. MaxFaults
         /\ Len(wire) \in Nat
         /\ \/ ~ok /\ UNCHANGED <<wire, Sent>> /\ faults <= faults'
            \/ /\ Sent' = Sent \cup {m} /\ Len(wire') = Len(wire) + 1 /\ wire'[Len(wire')] = m
               /\ (ok /\ faults' = faults) \/ (~ok /\ faults' = faults + 1)
<1>t. wire \in Seq(Ids) /\ faults \in 0 .. MaxFaults /\ MaxFaults \in Nat /\ Len(wire) \in Nat
  BY SentType, OutboxAssumption DEF TypeOK
<1>1. \/ ok /\ wire' = Append(wire, m) /\ faults' = faults
      \/ ~ok /\ wire' = wire /\ faults' = faults
      \/ ~ok /\ faults < MaxFaults /\ faults' = faults + 1 /\ (wire' = wire \/ wire' = Append(wire, m))
  BY DEF Send, Fail
<1>2. faults' \in 0 .. MaxFaults
  BY <1>t, <1>1
<1>3. CASE wire' = wire /\ ~ok
  <2>1. Sent' = Sent
    BY <1>3 DEF Sent
  <2> QED
    BY <1>t, <1>1, <1>2, <1>3, <2>1
<1>4. CASE wire' = Append(wire, m)
  <2>1. /\ wire' \in Seq(Ids)
        /\ Sent' = Sent \cup {m} /\ Len(wire') = Len(wire) + 1 /\ wire'[Len(wire')] = m
    BY <1>4, Carried
  <2>2. wire' # wire
    BY <1>t, <2>1
  <2> QED
    BY <1>t, <1>1, <1>2, <2>1, <2>2
<1> QED
  BY <1>1, <1>3, <1>4

-----------------------------------------------------------------------------
(* Each part of the invariant *)

\* Every step preserves the types.
LEMMA TypesStep == Inv /\ [Next]_vars => TypeOK'
<1> SUFFICES ASSUME Inv, [Next]_vars PROVE TypeOK'
  OBVIOUS
<1>t. TypeOK /\ HandIsFresh
  BY DEF Inv
<1>1. CASE Install \/ Online \/ Drop \/ Watch \/ Collapse
  <2>1. known' \in BOOLEAN
    <3>1. CASE Install
      BY <3>1, Zenon DEF Install
    <3>2. CASE Online \/ Drop \/ Watch \/ Collapse
      BY <1>t, <3>2 DEF Online, Drop, Watch, Collapse, TypeOK
    <3> QED
      BY <1>1, <3>1, <3>2
  <2>2. owed' \in 0 .. MaxOwed /\ spawned' \in 0 .. MaxOwed /\ conn' \in {"down", "installed", "up"}
    BY <1>t, <1>1, OutboxAssumption DEF Install, Online, Drop, Watch, Collapse, TypeOK
  <2>3. UNCHANGED <<drainer, table, composer, wire, budget>>
    BY <1>1 DEF Install, Online, Drop, Watch, Collapse
  <2> QED
    BY <1>t, <2>1, <2>2, <2>3 DEF TypeOK, drainer, table, composer, budget
<1>2. CASE Compose
  <2>1. composed' \in 0 .. MaxMessages /\ sending' \subseteq Ids
    BY <1>t, <1>2, OutboxAssumption DEF Compose, TypeOK, Ids
  <2>2. UNCHANGED <<link, drainer, table, holding, refused, lost, wire, budget>>
    BY <1>2 DEF Compose
  <2> QED
    BY <1>t, <2>1, <2>2 DEF TypeOK, link, drainer, table, budget
<1>3. ASSUME NEW m \in Ids, UISend(m) PROVE TypeOK'
  <2>1. \E ok \in BOOLEAN : Send(m, ok)
    BY <1>3 DEF UISend
  <2>2. wire' \in Seq(Ids) /\ faults' \in 0 .. MaxFaults
    BY <1>t, <2>1, SendFacts
  <2>3. sending' \subseteq Ids /\ holding' \subseteq Ids
    BY <1>t, <1>3 DEF UISend, TypeOK
  <2>4. UNCHANGED <<link, drainer, table, composed, refused, lost, crashes>>
    BY <1>3 DEF UISend
  <2> QED
    BY <1>t, <2>2, <2>3, <2>4 DEF TypeOK, link, drainer, table
<1>4. ASSUME NEW m \in Ids, Enqueue(m) PROVE TypeOK'
  <2>1. /\ box' \subseteq Ids /\ refused' \subseteq Ids /\ holding' \subseteq Ids
        /\ faults' \in 0 .. MaxFaults
    BY <1>t, <1>4, OutboxAssumption DEF Enqueue, Fail, TypeOK, table
  <2>2. seq' \in [Ids -> Nat] /\ last' \in Nat
    BY <1>t, <1>4 DEF Enqueue, TypeOK, table
  <2>3. UNCHANGED <<link, drainer, composed, sending, lost, wire, crashes>>
    BY <1>4 DEF Enqueue
  <2> QED
    BY <1>t, <2>1, <2>2, <2>3 DEF TypeOK, link, drainer
<1>5. CASE StartDrain
  <2>1. draining' \in BOOLEAN
    BY <1>5, Zenon DEF StartDrain
  <2> QED
    BY <1>t, <1>5, <2>1, OutboxAssumption DEF StartDrain, TypeOK, table, composer, budget
<1>6. CASE ReadPending
  BY <1>t, <1>6, OutboxAssumption DEF ReadPending, Fail, TypeOK, link, table, composer
<1>7. CASE DrainSend
  <2>1. \E m \in todo : \E ok \in BOOLEAN : Send(m, ok)
    BY <1>7 DEF DrainSend
  <2>2. wire' \in Seq(Ids) /\ faults' \in 0 .. MaxFaults
    BY <1>t, <2>1, SendFacts DEF TypeOK
  <2> QED
    BY <1>t, <1>7, <2>2 DEF DrainSend, TypeOK, link, table, composer
<1>8. CASE DrainRemove
  BY <1>t, <1>8, OutboxAssumption DEF DrainRemove, Fail, TypeOK, link, composer
<1>9. CASE DrainDone
  BY <1>t, <1>9 DEF DrainDone, TypeOK, link, table, composer, budget
<1>10. CASE EndDrain
  <2>1. draining' \in BOOLEAN
    BY <1>10, Zenon DEF EndDrain
  <2> QED
    BY <1>t, <1>10, <2>1 DEF EndDrain, TypeOK, link, table, composer, budget
<1>11. CASE Crash
  <2>1. draining' \in BOOLEAN /\ known' \in BOOLEAN
    BY <1>11, Zenon DEF Crash
  <2> QED
    BY <1>t, <1>11, <2>1, OutboxAssumption DEF Crash, TypeOK, table
<1>12. CASE UNCHANGED vars
  BY <1>t, <1>12 DEF TypeOK, vars, link, drainer, table, composer, budget
<1> QED
  BY <1>1, <1>2, <1>3, <1>4, <1>5, <1>6, <1>7, <1>8, <1>9, <1>10, <1>11, <1>12 DEF Next

\* The steps that concern messages, and what the others leave alone.
LEMMA StepCases ==
  ASSUME [Next]_vars
  PROVE  \/ UNCHANGED <<drainer, table, composer, wire, budget>>
         \/ Compose \/ (\E m \in Ids : UISend(m)) \/ (\E m \in Ids : Enqueue(m))
         \/ StartDrain \/ ReadPending
         \/ DrainSend \/ DrainRemove \/ DrainDone \/ EndDrain \/ Crash
  BY DEF Next, Install, Online, Drop, Watch, Collapse, vars

\* The flag is set as long as a drain runs.
LEMMA FlagStep == Inv /\ [Next]_vars => FlagIsHeld'
<1> SUFFICES ASSUME Inv, [Next]_vars PROVE FlagIsHeld'
  OBVIOUS
<1>t. FlagIsHeld
  BY DEF Inv
<1>1. CASE UNCHANGED <<draining, drain>>
  BY <1>t, <1>1 DEF FlagIsHeld
<1>2. CASE StartDrain
  <2>1. draining' /\ drain' = "read"
    BY <1>2 DEF StartDrain
  <2> QED
    BY <2>1 DEF FlagIsHeld
<1>3. CASE ReadPending \/ DrainSend \/ DrainRemove \/ DrainDone
  <2>1. UNCHANGED draining /\ drain # "idle" /\ drain' # "idle"
    BY <1>3 DEF ReadPending, DrainSend, DrainRemove, DrainDone
  <2> QED
    BY <1>t, <2>1 DEF FlagIsHeld
<1>4. CASE EndDrain \/ Crash
  <2>1. ~draining' /\ drain' = "idle"
    BY <1>4 DEF EndDrain, Crash
  <2> QED
    BY <2>1 DEF FlagIsHeld
<1>5. CASE Compose \/ (\E m \in Ids : UISend(m)) \/ (\E m \in Ids : Enqueue(m))
  BY <1>1, <1>5 DEF Compose, UISend, Enqueue, drainer
<1> QED
  BY <1>1, <1>2, <1>3, <1>4, <1>5, StepCases DEF drainer

\* What a send by SendFromUI moves, and what holding a message does.
LEMMA UISendFacts ==
  ASSUME Inv, NEW m \in Ids, UISend(m)
  PROVE  /\ UNCHANGED <<draining, drain, todo, box, seq, last, composed, refused, lost, crashes>>
         /\ m \in sending /\ m \notin Sent \cup box \cup refused \cup holding /\ m <= composed
         /\ sending' = sending \ {m}
         /\ \/ /\ Sent' = Sent \cup {m} /\ Len(wire') = Len(wire) + 1 /\ faults' = faults
               /\ holding' = holding
            \/ /\ Sent' = Sent \cup {m} /\ Len(wire') = Len(wire) + 1 /\ faults' = faults + 1
               /\ holding' = holding \cup {m}
            \/ /\ UNCHANGED <<wire, Sent>> /\ faults <= faults'
               /\ holding' = holding \cup {m}
<1>1. TypeOK /\ HandIsFresh
  BY DEF Inv
<1>2. /\ UNCHANGED <<draining, drain, todo, box, seq, last, composed, refused, lost, crashes>>
      /\ m \in sending /\ sending' = sending \ {m}
      /\ \/ Send(m, TRUE) /\ holding' = holding
         \/ Send(m, FALSE) /\ holding' = holding \cup {m}
  BY DEF UISend, drainer, table
<1>3. m \notin Sent \cup box \cup refused \cup holding /\ m <= composed
  BY <1>1, <1>2 DEF HandIsFresh
<1>4. Send(m, TRUE) => Sent' = Sent \cup {m} /\ Len(wire') = Len(wire) + 1 /\ faults' = faults
  BY <1>1, SendFacts
<1>5. Send(m, FALSE) =>
        \/ UNCHANGED <<wire, Sent>> /\ faults <= faults'
        \/ Sent' = Sent \cup {m} /\ Len(wire') = Len(wire) + 1 /\ faults' = faults + 1
  BY <1>1, SendFacts
<1> QED
  BY <1>2, <1>3, <1>4, <1>5

LEMMA EnqueueFacts ==
  ASSUME Inv, NEW m \in Ids, Enqueue(m)
  PROVE  /\ UNCHANGED <<draining, drain, todo, composed, sending, lost, wire, Sent, crashes>>
         /\ m \in holding /\ m \notin box \cup refused /\ m <= composed
         /\ holding' = holding \ {m}
         /\ faults <= faults'
         /\ \/ /\ box' = box \cup {m} /\ refused' = refused
               /\ last' = last + 1 /\ seq'[m] = last + 1
               /\ \A k \in Ids : k # m => seq'[k] = seq[k]
            \/ refused' = refused \cup {m} /\ UNCHANGED <<box, seq, last>>
<1>1. TypeOK /\ HandIsFresh
  BY DEF Inv
<1>2. seq \in [Ids -> Nat] /\ faults \in Nat
  BY <1>1, OutboxAssumption DEF TypeOK
<1>3. /\ UNCHANGED <<draining, drain, todo, composed, sending, lost, wire, crashes>>
      /\ m \in holding /\ holding' = holding \ {m}
  BY DEF Enqueue, drainer
<1>4. UNCHANGED Sent
  BY <1>3 DEF Sent
<1>5. m \notin box \cup refused /\ m <= composed
  BY <1>1, <1>3 DEF HandIsFresh
<1>6. /\ faults <= faults'
      /\ \/ /\ box' = box \cup {m} /\ refused' = refused /\ last' = last + 1
            /\ seq' = [seq EXCEPT ![m] = last + 1]
         \/ refused' = refused \cup {m} /\ UNCHANGED <<box, seq, last>>
  BY <1>2 DEF Enqueue, Fail, table
<1>7. seq' = [seq EXCEPT ![m] = last + 1] =>
        seq'[m] = last + 1 /\ \A k \in Ids : k # m => seq'[k] = seq[k]
  BY <1>2
<1> QED
  BY <1>3, <1>4, <1>5, <1>6, <1>7

\* What SendFromUI holds in its hands is new.
LEMMA FreshStep == Inv /\ [Next]_vars => HandIsFresh'
<1> SUFFICES ASSUME Inv, [Next]_vars PROVE HandIsFresh'
  OBVIOUS
<1>t. TypeOK /\ HandIsFresh /\ SnapshotIsPrefix
  BY DEF Inv
<1>n. /\ composed \in Nat /\ Sent \subseteq Nat /\ box \subseteq Nat /\ refused \subseteq Nat
      /\ sending \subseteq Nat /\ holding \subseteq Nat
  BY <1>t, SentType, OutboxAssumption DEF TypeOK, Ids
<1>w. UNCHANGED wire => UNCHANGED Sent
  BY DEF Sent
<1>1. ASSUME UNCHANGED <<composed, sending, holding, refused, Sent>>, box' \subseteq box PROVE HandIsFresh'
  BY <1>t, <1>1 DEF HandIsFresh
<1>2. CASE Compose
  <2>1. /\ composed' = composed + 1 /\ sending' = sending \cup {composed + 1}
        /\ UNCHANGED <<box, holding, refused, Sent>>
    BY <1>2, <1>w DEF Compose, table
  <2>2. \A m \in Sent \cup box \cup refused \cup sending \cup holding :
          m <= composed + 1 /\ m # composed + 1
    BY <1>t, <1>n DEF HandIsFresh
  <2> QED
    BY <1>t, <1>n, <2>1, <2>2 DEF HandIsFresh
<1>3. ASSUME NEW m \in Ids, UISend(m) PROVE HandIsFresh'
  <2>1. /\ m \in sending /\ sending' = sending \ {m} /\ m <= composed
        /\ m \notin Sent \cup box \cup refused \cup holding
        /\ UNCHANGED <<composed, box, refused>>
        /\ Sent' \subseteq Sent \cup {m} /\ holding' \subseteq holding \cup {m}
    BY <1>3, UISendFacts
  <2> QED
    BY <1>t, <2>1 DEF HandIsFresh
<1>4. ASSUME NEW m \in Ids, Enqueue(m) PROVE HandIsFresh'
  <2>1. /\ UNCHANGED <<composed, sending, Sent>> /\ m \in holding /\ m <= composed
        /\ holding' = holding \ {m}
        /\ box' \subseteq box \cup {m} /\ refused' \subseteq refused \cup {m}
    BY <1>4, EnqueueFacts
  <2> QED
    BY <1>t, <2>1 DEF HandIsFresh
<1>5. CASE DrainSend
  <2>1. /\ UNCHANGED <<composed, sending, holding, box, refused>>
        /\ drain = "send" /\ \E m \in todo : \E ok \in BOOLEAN : Send(m, ok)
    BY <1>5 DEF DrainSend, composer, table
  <2>2. todo \subseteq box /\ todo \subseteq Ids
    BY <1>t, <2>1 DEF SnapshotIsPrefix, TypeOK
  <2>3. Sent' \subseteq Sent \cup box
    BY <1>t, <2>1, <2>2, SendFacts
  <2> QED
    BY <1>t, <2>1, <2>3 DEF HandIsFresh
<1>6. CASE Crash
  <2>1. sending' = {} /\ holding' = {} /\ UNCHANGED <<composed, box, refused, Sent>>
    BY <1>6, <1>w DEF Crash, table
  <2> QED
    BY <1>t, <2>1 DEF HandIsFresh
<1>7. CASE StartDrain \/ ReadPending \/ DrainRemove \/ DrainDone \/ EndDrain
  <2>1. UNCHANGED <<composed, sending, holding, refused, wire>> /\ box' \subseteq box
    BY <1>7 DEF StartDrain, ReadPending, DrainRemove, DrainDone, EndDrain, composer, table
  <2> QED
    BY <1>1, <1>w, <2>1
<1>8. CASE UNCHANGED <<drainer, table, composer, wire, budget>>
  BY <1>1, <1>w, <1>8 DEF composer, table
<1> QED
  BY <1>2, <1>3, <1>4, <1>5, <1>6, <1>7, <1>8, StepCases

\* Rows keep a seq of their own.
LEMMA SeqStep == Inv /\ [Next]_vars => SeqsAscend'
<1> SUFFICES ASSUME Inv, [Next]_vars PROVE SeqsAscend'
  OBVIOUS
<1>t. TypeOK /\ SeqsAscend
  BY DEF Inv
<1>n. last \in Nat /\ box \subseteq Ids /\ \A k \in Ids : seq[k] \in Nat
  BY <1>t DEF TypeOK
<1>1. CASE box' \subseteq box /\ UNCHANGED <<seq, last>>
  BY <1>t, <1>1 DEF SeqsAscend
<1>2. ASSUME NEW m \in Ids, Enqueue(m) PROVE SeqsAscend'
  <2>1. CASE UNCHANGED <<box, seq, last>>
    BY <1>1, <2>1
  <2>2. CASE /\ box' = box \cup {m} /\ last' = last + 1 /\ seq'[m] = last + 1
             /\ \A k \in Ids : k # m => seq'[k] = seq[k]
    <3>1. m \notin box
      BY <1>2, EnqueueFacts
    <3>2. \A k \in box : seq'[k] = seq[k] /\ seq'[k] <= last
      BY <1>t, <1>n, <2>2, <3>1 DEF SeqsAscend
    <3>3. \A k \in box' : seq'[k] <= last'
      BY <1>n, <2>2, <3>2
    <3>4. ASSUME NEW j \in box', NEW k \in box', seq'[j] = seq'[k] PROVE j = k
      <4>1. CASE j \in box /\ k \in box
        BY <1>t, <3>2, <3>4, <4>1 DEF SeqsAscend
      <4>2. CASE j = m /\ k \in box
        BY <1>n, <2>2, <3>2, <3>4, <4>2
      <4>3. CASE j \in box /\ k = m
        BY <1>n, <2>2, <3>2, <3>4, <4>3
      <4> QED
        BY <2>2, <4>1, <4>2, <4>3
    <3> QED
      BY <3>3, <3>4 DEF SeqsAscend
  <2> QED
    BY <1>2, <2>1, <2>2, EnqueueFacts
<1>3. ASSUME NEW m \in Ids, UISend(m) PROVE SeqsAscend'
  BY <1>1, <1>3, UISendFacts
<1>4. CASE Compose \/ StartDrain \/ ReadPending \/ DrainSend \/ DrainDone \/ EndDrain \/ Crash
           \/ UNCHANGED <<drainer, table, composer, wire, budget>>
  BY <1>1, <1>4 DEF Compose, StartDrain, ReadPending, DrainSend, DrainDone, EndDrain, Crash, table
<1>5. CASE DrainRemove
  BY <1>1, <1>5 DEF DrainRemove
<1> QED
  BY <1>2, <1>3, <1>4, <1>5, StepCases

\* The loop of a drain is at one row.
LEMMA OldestIsOne ==
  ASSUME Inv, drain \in {"send", "remove"}, NEW m \in todo, OldestRow(m, todo)
  PROVE  \A k \in todo : OldestRow(k, todo) => k = m
<1>1. todo \subseteq box /\ box \subseteq Ids /\ \A k \in Ids : seq[k] \in Nat
  BY DEF Inv, TypeOK, SnapshotIsPrefix
<1>2. \A j, k \in box : seq[j] = seq[k] => j = k
  BY DEF Inv, SeqsAscend
<1>3. \A k \in todo : OldestRow(k, todo) => seq[k] = seq[m]
  BY <1>1 DEF OldestRow
<1> QED
  BY <1>1, <1>2, <1>3

\* The snapshot stays a prefix of the table, and its oldest row is carried
\* before it is removed.
LEMMA SnapshotStep == Inv /\ [Next]_vars => SnapshotIsPrefix' /\ RemovedIsSent'
<1> SUFFICES ASSUME Inv, [Next]_vars PROVE SnapshotIsPrefix' /\ RemovedIsSent'
  OBVIOUS
<1>t. TypeOK /\ SeqsAscend /\ SnapshotIsPrefix /\ RemovedIsSent
  BY DEF Inv
<1>n. last \in Nat /\ box \subseteq Ids /\ todo \subseteq Ids /\ \A k \in Ids : seq[k] \in Nat
  BY <1>t DEF TypeOK
<1>w. UNCHANGED wire => UNCHANGED Sent
  BY DEF Sent
<1>1. CASE drain' \notin {"send", "remove"}
  BY <1>1 DEF SnapshotIsPrefix, RemovedIsSent
<1>2. CASE UNCHANGED <<drain, todo, box, seq>> /\ Sent \subseteq Sent'
  BY <1>t, <1>2 DEF SnapshotIsPrefix, RemovedIsSent, OldestRow
<1>3. ASSUME NEW m \in Ids, Enqueue(m) PROVE SnapshotIsPrefix' /\ RemovedIsSent'
  <2>1. UNCHANGED <<drain, todo, Sent>> /\ m \notin box
    BY <1>3, EnqueueFacts
  <2>2. CASE UNCHANGED <<box, seq>>
    BY <1>2, <2>1, <2>2
  <2>3. CASE /\ box' = box \cup {m} /\ seq'[m] = last + 1
             /\ \A k \in Ids : k # m => seq'[k] = seq[k]
    <3>1. CASE drain \in {"send", "remove"}
      <4>1. todo \subseteq box /\ \A j \in box \ todo, k \in todo : seq[k] < seq[j]
        BY <1>t, <3>1 DEF SnapshotIsPrefix
      <4>2. \A k \in box : seq'[k] = seq[k] /\ seq[k] <= last
        BY <1>t, <1>n, <2>1, <2>3 DEF SeqsAscend
      <4>3. \A k \in todo : seq'[k] < seq'[m]
        BY <1>n, <2>3, <4>1, <4>2
      <4>4. SnapshotIsPrefix'
        BY <2>1, <2>3, <4>1, <4>2, <4>3 DEF SnapshotIsPrefix
      <4>5. \A k \in todo : seq'[k] = seq[k]
        BY <4>1, <4>2
      <4>6. \A k \in todo : OldestRow(k, todo)' => OldestRow(k, todo)
        BY <2>1, <4>5 DEF OldestRow
      <4>7. RemovedIsSent'
        BY <1>t, <2>1, <4>6 DEF RemovedIsSent
      <4> QED
        BY <4>4, <4>7
    <3>2. CASE drain \notin {"send", "remove"}
      BY <1>1, <2>1, <3>2
    <3> QED
      BY <3>1, <3>2
  <2> QED
    BY <1>3, <2>2, <2>3, EnqueueFacts
<1>4. CASE ReadPending
  <2>1. CASE drain' = "send" /\ todo' = box /\ UNCHANGED box
    BY <2>1 DEF SnapshotIsPrefix, RemovedIsSent
  <2> QED
    BY <1>1, <1>4, <2>1 DEF ReadPending, table
<1>5. CASE DrainSend
  <2>1. CASE drain' = "end"
    BY <1>1, <2>1
  <2>2. ASSUME NEW m \in todo, OldestRow(m, todo), Send(m, TRUE), drain = "send", drain' = "remove",
               UNCHANGED <<todo, box, seq>>
        PROVE  SnapshotIsPrefix' /\ RemovedIsSent'
    <3>1. m \in Ids
      BY <1>n
    <3>2. m \in Sent'
      BY <1>t, <2>2, <3>1, SendFacts
    <3>3. \A k \in todo : OldestRow(k, todo) => k = m
      BY <2>2, OldestIsOne
    <3> QED
      BY <1>t, <2>2, <3>2, <3>3 DEF SnapshotIsPrefix, RemovedIsSent, OldestRow
  <2> QED
    BY <1>5, <2>1, <2>2 DEF DrainSend, table
<1>6. CASE DrainRemove
  <2>1. CASE drain' = "end"
    BY <1>1, <2>1
  <2>2. ASSUME NEW m \in todo, box' = box \ {m}, todo' = todo \ {m}, drain' = "send", drain = "remove",
               UNCHANGED seq
        PROVE  SnapshotIsPrefix' /\ RemovedIsSent'
    BY <1>t, <2>2 DEF SnapshotIsPrefix, RemovedIsSent
  <2> QED
    BY <1>6, <2>1, <2>2 DEF DrainRemove
<1>7. ASSUME NEW m \in Ids, UISend(m) PROVE SnapshotIsPrefix' /\ RemovedIsSent'
  <2>1. UNCHANGED <<drain, todo, box, seq>> /\ Sent \subseteq Sent'
    BY <1>7, UISendFacts
  <2> QED
    BY <1>2, <2>1
<1>8. CASE Compose \/ UNCHANGED <<drainer, table, composer, wire, budget>>
  BY <1>2, <1>w, <1>8 DEF Compose, drainer, table
<1>9. CASE StartDrain \/ DrainDone \/ EndDrain \/ Crash
  BY <1>1, <1>9 DEF StartDrain, DrainDone, EndDrain, Crash
<1> QED
  BY <1>3, <1>4, <1>5, <1>6, <1>7, <1>8, <1>9, StepCases

-----------------------------------------------------------------------------
(* Copies *)

\* What will be carried again are messages.
LEMMA AgainType == TypeOK => Again \in SUBSET Ids
  BY SentType DEF Again

\* At most one row is between its send and its removal.
LEMMA OneInTransit == Inv => InTransit = {} \/ \E m \in Ids : InTransit = {m}
<1> SUFFICES ASSUME Inv, NEW m \in InTransit PROVE m \in Ids /\ InTransit = {m}
  OBVIOUS
<1>1. drain = "remove" /\ m \in todo /\ OldestRow(m, todo)
  BY DEF InTransit
<1>2. \A k \in todo : OldestRow(k, todo) => k = m
  BY <1>1, OldestIsOne
<1>3. m \in Ids
  BY <1>1 DEF Inv, TypeOK
<1> QED
  BY <1>1, <1>2, <1>3 DEF InTransit

\* The quantities of CopiesAreOwed are numbers.
LEMMA CountTypes ==
  TypeOK => /\ Len(wire) \in Nat /\ Cardinality(Again) \in Nat /\ Cardinality(Sent) \in Nat
            /\ faults \in Nat /\ crashes \in Nat
<1> SUFFICES ASSUME TypeOK
             PROVE  /\ Len(wire) \in Nat /\ Cardinality(Again) \in Nat /\ Cardinality(Sent) \in Nat
                    /\ faults \in Nat /\ crashes \in Nat
  OBVIOUS
<1>1. Again \in SUBSET Ids /\ Sent \in SUBSET Ids /\ Len(wire) \in Nat
  BY SentType, AgainType
<1>2. Cardinality(Again) \in Nat /\ Cardinality(Sent) \in Nat
  BY <1>1, IdsAreFinite
<1>3. faults \in Nat /\ crashes \in Nat
  BY OutboxAssumption DEF TypeOK
<1> QED
  BY <1>1, <1>2, <1>3

\* A step that carries nothing and makes nothing more due owes nothing more.
LEMMA NothingMoreDue ==
  ASSUME TypeOK, TypeOK', CopiesAreOwed, UNCHANGED <<Sent, Len(wire)>>, Again' \subseteq Again,
         faults <= faults', crashes <= crashes'
  PROVE  CopiesAreOwed'
<1>1. Again \in SUBSET Ids /\ Again' \in SUBSET Ids
  BY AgainType
<1>2. Cardinality(Again') <= Cardinality(Again)
  BY <1>1, CountGrows
<1>3. /\ Len(wire) \in Nat /\ Cardinality(Again) \in Nat /\ Cardinality(Sent) \in Nat
      /\ faults \in Nat /\ crashes \in Nat
  BY CountTypes
<1>4. Cardinality(Again') \in Nat /\ faults' \in Nat /\ crashes' \in Nat
  BY <1>1, IdsAreFinite, OutboxAssumption DEF TypeOK
<1>5. Cardinality(Sent') = Cardinality(Sent) /\ Len(wire') = Len(wire)
  OBVIOUS
<1>6. Len(wire) + Cardinality(Again) <= Cardinality(Sent) + faults + crashes
  BY DEF CopiesAreOwed
<1>7. Len(wire') + Cardinality(Again') <= Cardinality(Sent') + faults' + crashes'
  BY <1>2, <1>3, <1>4, <1>5, <1>6, SMTT(30)
<1> QED
  BY <1>7 DEF CopiesAreOwed

\* A fault or a crash pays for one message more to be carried again.
LEMMA OneMoreDue ==
  ASSUME TypeOK, TypeOK', CopiesAreOwed, UNCHANGED <<Sent, Len(wire)>>,
         NEW m \in Ids, Again' \subseteq Again \cup {m},
         faults + crashes + 1 <= faults' + crashes'
  PROVE  CopiesAreOwed'
<1>1. Again \in SUBSET Ids /\ Again' \in SUBSET Ids /\ Again \cup {m} \in SUBSET Ids
  BY AgainType
<1>2. Cardinality(Again') <= Cardinality(Again \cup {m})
  BY <1>1, CountGrows
<1>3. Cardinality(Again \cup {m}) <= Cardinality(Again) + 1
  BY <1>1, CountOneMore
<1>4. /\ Len(wire) \in Nat /\ Cardinality(Again) \in Nat /\ Cardinality(Sent) \in Nat
      /\ faults \in Nat /\ crashes \in Nat
  BY CountTypes
<1>5. Cardinality(Again') \in Nat /\ faults' \in Nat /\ crashes' \in Nat
  BY <1>1, IdsAreFinite, OutboxAssumption DEF TypeOK
<1>6. Cardinality(Again \cup {m}) \in Nat
  BY <1>1, IdsAreFinite
<1>7. Cardinality(Sent') = Cardinality(Sent) /\ Len(wire') = Len(wire)
  OBVIOUS
<1>8. Len(wire) + Cardinality(Again) <= Cardinality(Sent) + faults + crashes
  BY DEF CopiesAreOwed
<1>9. Cardinality(Again') <= Cardinality(Again) + 1
  BY <1>2, <1>3, <1>4, <1>5, <1>6
<1>10. Len(wire') + Cardinality(Again') <= Cardinality(Sent') + faults' + crashes'
  <2>1. \A l, a, s, f, c, g, d \in Nat :
          l + a <= s + f + c /\ f + c + 1 <= g + d => l + a + 1 <= s + g + d
    OBVIOUS
  <2>2. Len(wire) + Cardinality(Again) + 1 <= Cardinality(Sent) + faults' + crashes'
    BY <1>4, <1>5, <1>8, <2>1
  <2> QED
    BY <1>4, <1>5, <1>7, <1>9, <2>2
<1> QED
  BY <1>10 DEF CopiesAreOwed

\* Carrying m owes nothing more when m is new to the wire or was due; a fault
\* pays for it to stay due.
LEMMA OneCarried ==
  ASSUME TypeOK, TypeOK', CopiesAreOwed, NEW m \in Ids, UNCHANGED crashes,
         Sent' = Sent \cup {m}, Len(wire') = Len(wire) + 1,
         m \in Sent => m \in Again,
         \/ Again' \subseteq Again \ {m} /\ faults <= faults'
         \/ Again' \subseteq Again \cup {m} /\ faults + 1 <= faults'
  PROVE  CopiesAreOwed'
<1>1. Again \in SUBSET Ids /\ Again' \in SUBSET Ids /\ Sent \in SUBSET Ids
      /\ Again \cup {m} \in SUBSET Ids /\ Again \ {m} \in SUBSET Ids
  BY AgainType, SentType
<1>t. /\ Len(wire) \in Nat /\ Cardinality(Again) \in Nat /\ Cardinality(Sent) \in Nat
      /\ faults \in Nat /\ crashes \in Nat
  BY CountTypes
<1>u. Cardinality(Again') \in Nat /\ faults' \in Nat /\ crashes' = crashes
  BY <1>1, IdsAreFinite, OutboxAssumption DEF TypeOK
<1>o. Len(wire) + Cardinality(Again) <= Cardinality(Sent) + faults + crashes
  BY DEF CopiesAreOwed
<1>2. CASE m \in Sent
  <2>1. m \in Again /\ Sent' = Sent /\ Again \cup {m} = Again
    BY <1>2
  <2>2. Cardinality(Again \ {m}) = Cardinality(Again) - 1
    BY <1>1, <2>1, CountOneFewer
  <2>3. Again' \subseteq Again \ {m} => Cardinality(Again') <= Cardinality(Again \ {m})
    BY <1>1, CountGrows
  <2>4. Again' \subseteq Again => Cardinality(Again') <= Cardinality(Again)
    BY <1>1, CountGrows
  <2>5. Cardinality(Sent') = Cardinality(Sent)
    BY <2>1
  <2>6. CASE Again' \subseteq Again \ {m} /\ faults <= faults'
    <3>1. Cardinality(Again') <= Cardinality(Again) - 1
      BY <2>2, <2>3, <2>6
    <3>2. Len(wire') + Cardinality(Again') <= Cardinality(Sent') + faults' + crashes'
      BY <1>t, <1>u, <1>o, <2>5, <2>6, <3>1, SMTT(30)
    <3> QED
      BY <3>2 DEF CopiesAreOwed
  <2>7. CASE Again' \subseteq Again \cup {m} /\ faults + 1 <= faults'
    <3>1. Cardinality(Again') <= Cardinality(Again)
      BY <2>1, <2>4, <2>7
    <3>2. Len(wire') + Cardinality(Again') <= Cardinality(Sent') + faults' + crashes'
      BY <1>t, <1>u, <1>o, <2>5, <2>7, <3>1, SMTT(30)
    <3> QED
      BY <3>2 DEF CopiesAreOwed
  <2> QED
    BY <2>6, <2>7
<1>3. CASE m \notin Sent
  <2>1. Cardinality(Sent \cup {m}) = Cardinality(Sent) + 1
    BY <1>1, <1>3, CountOneMore
  <2>2. Cardinality(Sent') = Cardinality(Sent) + 1
    BY <2>1
  <2>3. CASE Again' \subseteq Again \ {m} /\ faults <= faults'
    <3>1. Again' \subseteq Again
      BY <2>3
    <3>2. Cardinality(Again') <= Cardinality(Again)
      BY <1>1, <3>1, CountGrows
    <3>3. Len(wire') + Cardinality(Again') <= Cardinality(Sent') + faults' + crashes'
      BY <1>t, <1>u, <1>o, <2>2, <2>3, <3>2
    <3> QED
      BY <3>3 DEF CopiesAreOwed
  <2>4. CASE Again' \subseteq Again \cup {m} /\ faults + 1 <= faults'
    <3>1. Cardinality(Again') <= Cardinality(Again \cup {m})
      BY <1>1, <2>4, CountGrows
    <3>2. Cardinality(Again \cup {m}) <= Cardinality(Again) + 1 /\ Cardinality(Again \cup {m}) \in Nat
      BY <1>1, CountOneMore, IdsAreFinite
    <3>3. Cardinality(Again') <= Cardinality(Again) + 1
      BY <1>t, <1>u, <3>1, <3>2
    <3>4. Len(wire') + Cardinality(Again') <= Cardinality(Sent') + faults' + crashes'
      BY <1>t, <1>u, <1>o, <2>2, <2>4, <3>3, SMTT(30)
    <3> QED
      BY <3>4 DEF CopiesAreOwed
  <2> QED
    BY <2>3, <2>4
<1> QED
  BY <1>2, <1>3

\* Every copy is paid for before it is made.
LEMMA CopiesStep == Inv /\ [Next]_vars => CopiesAreOwed'
<1> SUFFICES ASSUME Inv, [Next]_vars PROVE CopiesAreOwed'
  OBVIOUS
<1>t. TypeOK /\ HandIsFresh /\ SnapshotIsPrefix /\ RemovedIsSent /\ FlagIsHeld /\ CopiesAreOwed
  BY DEF Inv
<1>p. TypeOK'
  BY TypesStep
<1>n. faults \in Nat /\ crashes \in Nat /\ todo \subseteq Ids
  BY <1>t, OutboxAssumption DEF TypeOK
<1>w. UNCHANGED wire => UNCHANGED <<Sent, Len(wire)>>
  BY DEF Sent
<1>1. CASE Compose \/ UNCHANGED <<drainer, table, composer, wire, budget>>
  <2>1. UNCHANGED <<todo, drain, box, seq, holding, wire, faults, crashes>>
    BY <1>1 DEF Compose, drainer, table, composer, budget
  <2>2. Again' \subseteq Again
    BY <1>w, <2>1 DEF Again, InTransit, OldestRow
  <2> QED
    BY <1>t, <1>p, <1>w, <1>n, <2>1, <2>2, NothingMoreDue
<1>3. ASSUME NEW m \in Ids, UISend(m) PROVE CopiesAreOwed'
  <2>1. /\ UNCHANGED <<todo, drain, box, seq, crashes>>
        /\ m \notin Sent /\ m \notin box /\ m \notin holding
    BY <1>3, UISendFacts
  <2>2. InTransit' = InTransit
    BY <2>1 DEF InTransit, OldestRow
  <2>3. CASE UNCHANGED <<wire, Sent>> /\ faults <= faults' /\ holding' = holding \cup {m}
    <3>1. Again' \subseteq Again
      BY <2>1, <2>2, <2>3 DEF Again
    <3> QED
      BY <1>t, <1>p, <1>w, <1>n, <2>1, <2>3, <3>1, NothingMoreDue
  <2>4. CASE Sent' = Sent \cup {m} /\ Len(wire') = Len(wire) + 1 /\ faults' = faults /\ holding' = holding
    <3>1. Again' \subseteq Again \ {m}
      BY <2>1, <2>2, <2>4 DEF Again
    <3> QED
      BY <1>t, <1>p, <1>n, <2>1, <2>4, <3>1, OneCarried
  <2>5. CASE /\ Sent' = Sent \cup {m} /\ Len(wire') = Len(wire) + 1 /\ faults' = faults + 1
             /\ holding' = holding \cup {m}
    <3>1. Again' \subseteq Again \cup {m}
      BY <2>1, <2>2, <2>5 DEF Again
    <3> QED
      BY <1>t, <1>p, <1>n, <2>1, <2>5, <3>1, OneCarried
  <2> QED
    BY <1>3, <2>3, <2>4, <2>5, UISendFacts
<1>4. ASSUME NEW m \in Ids, Enqueue(m) PROVE CopiesAreOwed'
  <2>1. /\ UNCHANGED <<todo, drain, wire, Sent, crashes>> /\ m \in holding /\ m \notin box
        /\ holding' = holding \ {m} /\ box' \subseteq box \cup {m} /\ faults <= faults'
        /\ \A k \in Ids : k # m => seq'[k] = seq[k]
    BY <1>4, EnqueueFacts
  <2>2. InTransit \subseteq InTransit'
    <3>1. CASE drain = "remove"
      <4>1. m \notin todo
        BY <1>t, <2>1, <3>1 DEF SnapshotIsPrefix
      <4>2. \A k \in todo : seq'[k] = seq[k]
        BY <1>n, <2>1, <4>1
      <4> QED
        BY <2>1, <4>2 DEF InTransit, OldestRow
    <3>2. CASE drain # "remove"
      BY <3>2 DEF InTransit
    <3> QED
      BY <3>1, <3>2
  <2>3. Again' \subseteq Again
    BY <2>1, <2>2 DEF Again
  <2> QED
    BY <1>t, <1>p, <1>w, <1>n, <2>1, <2>3, NothingMoreDue
<1>5. CASE StartDrain
  <2>1. drain # "remove"
    BY <1>t, <1>5 DEF StartDrain, FlagIsHeld
  <2>2. UNCHANGED <<box, holding, wire, faults, crashes>>
    BY <1>5 DEF StartDrain, table, composer, budget
  <2>3. Again' \subseteq Again
    BY <1>w, <2>1, <2>2 DEF Again, InTransit
  <2> QED
    BY <1>t, <1>p, <1>w, <1>n, <2>2, <2>3, NothingMoreDue
<1>6. CASE ReadPending \/ DrainDone \/ EndDrain
  <2>1. /\ drain # "remove" /\ UNCHANGED <<box, holding, wire, crashes>>
        /\ faults <= faults'
    BY <1>n, <1>6 DEF ReadPending, DrainDone, EndDrain, Fail, table, composer, budget
  <2>2. Again' \subseteq Again
    BY <1>w, <2>1 DEF Again, InTransit
  <2> QED
    BY <1>t, <1>p, <1>w, <1>n, <2>1, <2>2, NothingMoreDue
<1>7. CASE DrainSend
  <2>1. /\ UNCHANGED <<todo, box, seq, holding, crashes>> /\ drain = "send"
        /\ \E m \in todo : /\ OldestRow(m, todo)
                           /\ \/ Send(m, TRUE) /\ drain' = "remove"
                              \/ Send(m, FALSE) /\ drain' = "end"
    BY <1>7 DEF DrainSend, table, composer
  <2>2. PICK m \in todo : /\ OldestRow(m, todo)
                          /\ \/ Send(m, TRUE) /\ drain' = "remove"
                             \/ Send(m, FALSE) /\ drain' = "end"
    BY <2>1
  <2>3. m \in Ids /\ m \in box
    BY <1>t, <2>1 DEF TypeOK, SnapshotIsPrefix
  <2>4. InTransit = {} /\ (m \in Sent => m \in Again)
    BY <2>1, <2>3 DEF InTransit, Again
  <2>5. CASE Send(m, TRUE) /\ drain' = "remove"
    <3>1. Sent' = Sent \cup {m} /\ Len(wire') = Len(wire) + 1 /\ faults' = faults
      BY <1>t, <2>3, <2>5, SendFacts
    <3>2. m \in InTransit'
      BY <2>1, <2>2, <2>5 DEF InTransit, OldestRow
    <3>3. Again' \subseteq Again \ {m}
      BY <2>1, <2>4, <3>1, <3>2 DEF Again
    <3> QED
      BY <1>t, <1>p, <1>n, <2>1, <2>3, <2>4, <3>1, <3>3, OneCarried
  <2>6. CASE Send(m, FALSE)
    <3>1. \/ UNCHANGED <<wire, Sent>> /\ faults <= faults'
          \/ Sent' = Sent \cup {m} /\ Len(wire') = Len(wire) + 1 /\ faults' = faults + 1
      BY <1>t, <2>3, <2>6, SendFacts
    <3>2. CASE UNCHANGED <<wire, Sent>> /\ faults <= faults'
      <4>1. Again' \subseteq Again
        BY <2>1, <2>4, <3>2 DEF Again
      <4> QED
        BY <1>t, <1>p, <1>w, <1>n, <2>1, <3>2, <4>1, NothingMoreDue
    <3>3. CASE Sent' = Sent \cup {m} /\ Len(wire') = Len(wire) + 1 /\ faults' = faults + 1
      <4>1. Again' \subseteq Again \cup {m}
        BY <2>1, <2>4, <3>3 DEF Again
      <4> QED
        BY <1>t, <1>p, <1>n, <2>1, <2>3, <2>4, <3>3, <4>1, OneCarried
    <3> QED
      BY <3>1, <3>2, <3>3
  <2> QED
    BY <2>2, <2>5, <2>6
<1>8. CASE DrainRemove
  <2>1. UNCHANGED <<seq, holding, wire, crashes>> /\ drain = "remove"
    BY <1>8 DEF DrainRemove, composer
  <2>2. ASSUME NEW m \in todo, OldestRow(m, todo), box' = box \ {m}, faults' = faults
        PROVE  CopiesAreOwed'
    <3>1. \A k \in InTransit : k = m
      BY <2>1, <2>2, OldestIsOne DEF InTransit
    <3>2. m \notin holding
      BY <1>t, <2>1 DEF HandIsFresh, SnapshotIsPrefix
    <3>3. Again' \subseteq Again
      BY <1>w, <2>1, <2>2, <3>1, <3>2 DEF Again
    <3> QED
      BY <1>t, <1>p, <1>w, <1>n, <2>1, <2>2, <3>3, NothingMoreDue
  <2>3. ASSUME faults' = faults + 1, UNCHANGED box PROVE CopiesAreOwed'
    <3>1. Again' \subseteq Again \cup InTransit
      BY <1>w, <2>1, <2>3 DEF Again
    <3>2. CASE InTransit = {}
      BY <1>t, <1>p, <1>w, <1>n, <2>1, <2>3, <3>1, <3>2, NothingMoreDue
    <3>3. ASSUME NEW m \in Ids, InTransit = {m} PROVE CopiesAreOwed'
      BY <1>t, <1>p, <1>w, <1>n, <2>1, <2>3, <3>1, <3>3, OneMoreDue
    <3> QED
      BY <1>t, <3>2, <3>3, OneInTransit
  <2> QED
    BY <1>8, <2>2, <2>3 DEF DrainRemove, Fail
<1>9. CASE Crash
  <2>1. UNCHANGED <<box, wire, faults>> /\ holding' = {} /\ crashes' = crashes + 1
    BY <1>9 DEF Crash, table
  <2>2. Again' \subseteq Again \cup InTransit
    BY <1>w, <2>1 DEF Again
  <2>3. CASE InTransit = {}
    BY <1>t, <1>p, <1>w, <1>n, <2>1, <2>2, <2>3, NothingMoreDue
  <2>4. ASSUME NEW m \in Ids, InTransit = {m} PROVE CopiesAreOwed'
    BY <1>t, <1>p, <1>w, <1>n, <2>1, <2>2, <2>4, OneMoreDue
  <2> QED
    BY <1>t, <2>3, <2>4, OneInTransit
<1> QED
  BY <1>1, <1>3, <1>4, <1>5, <1>6, <1>7, <1>8, <1>9, StepCases

-----------------------------------------------------------------------------
(* Losses *)

\* Only a crash loses a message without a word, and only one that was in hand.
LEMMA AccountedStep == Inv /\ [Next]_vars => Accounted'
<1> SUFFICES ASSUME Inv, [Next]_vars PROVE Accounted'
  OBVIOUS
<1>t. TypeOK /\ HandIsFresh /\ SnapshotIsPrefix /\ RemovedIsSent /\ Accounted
  BY DEF Inv
<1>n. composed \in Nat /\ todo \subseteq Ids
  BY <1>t, OutboxAssumption DEF TypeOK
<1>w. UNCHANGED wire => UNCHANGED Sent
  BY DEF Sent
<1>2. ASSUME UNCHANGED composed,
             Sent \cup box \cup sending \cup holding \cup refused \cup lost
               \subseteq Sent' \cup box' \cup sending' \cup holding' \cup refused' \cup lost'
      PROVE  Accounted'
  BY <1>t, <1>2 DEF Accounted
<1>3. CASE Compose
  <2>1. /\ composed' = composed + 1 /\ sending' = sending \cup {composed + 1}
        /\ UNCHANGED <<box, holding, refused, lost, Sent>>
    BY <1>3, <1>w DEF Compose, table
  <2>2. \A m \in 1 .. composed' : m \in 1 .. composed \/ m = composed + 1
    BY <1>n, <2>1
  <2> QED
    BY <1>t, <2>1, <2>2 DEF Accounted
<1>4. ASSUME NEW m \in Ids, UISend(m) PROVE Accounted'
  <2>1. /\ UNCHANGED <<composed, box, refused, lost>> /\ sending' = sending \ {m}
        /\ Sent \subseteq Sent' /\ holding \subseteq holding' /\ m \in Sent' \cup holding'
    BY <1>4, UISendFacts
  <2> QED
    BY <1>2, <2>1
<1>5. ASSUME NEW m \in Ids, Enqueue(m) PROVE Accounted'
  <2>1. /\ UNCHANGED <<composed, sending, lost, Sent>> /\ holding' = holding \ {m}
        /\ box \subseteq box' /\ refused \subseteq refused' /\ m \in box' \cup refused'
    BY <1>5, EnqueueFacts
  <2> QED
    BY <1>2, <2>1
<1>6. CASE DrainSend
  <2>1. /\ UNCHANGED <<composed, box, sending, holding, refused, lost>>
        /\ \E m \in todo : \E ok \in BOOLEAN : Send(m, ok)
    BY <1>6 DEF DrainSend, composer, table
  <2>2. Sent \subseteq Sent'
    BY <1>t, <1>n, <2>1, SendFacts
  <2> QED
    BY <1>2, <2>1, <2>2
<1>7. CASE DrainRemove
  <2>1. /\ UNCHANGED <<composed, sending, holding, refused, lost, Sent>> /\ drain = "remove"
        /\ \/ UNCHANGED box
           \/ \E m \in todo : OldestRow(m, todo) /\ box' = box \ {m}
    BY <1>7, <1>w DEF DrainRemove, composer
  <2>2. box \subseteq Sent \cup box'
    BY <1>t, <2>1 DEF RemovedIsSent
  <2> QED
    BY <1>2, <2>1, <2>2
<1>8. CASE StartDrain \/ ReadPending \/ DrainDone \/ EndDrain \/ UNCHANGED <<drainer, table, composer, wire, budget>>
  <2>1. UNCHANGED <<composed, sending, holding, refused, lost, box, wire>>
    BY <1>8 DEF StartDrain, ReadPending, DrainDone, EndDrain, table, composer
  <2> QED
    BY <1>2, <1>w, <2>1
<1>9. CASE Crash
  <2>1. UNCHANGED <<box, composed, refused, Sent>> /\ lost' = lost \cup sending \cup holding
    BY <1>9, <1>w DEF Crash, table
  <2> QED
    BY <1>2, <2>1
<1> QED
  BY <1>3, <1>4, <1>5, <1>6, <1>7, <1>8, <1>9, StepCases

-----------------------------------------------------------------------------
(* The theorems *)

\* The invariant holds at the start ...
LEMMA InvInit == Init => Inv
<1> SUFFICES ASSUME Init PROVE Inv
  OBVIOUS
<1>1. TypeOK
  <2>1. known \in BOOLEAN /\ draining \in BOOLEAN
    BY Zenon DEF Init
  <2> QED
    BY <2>1, OutboxAssumption DEF Init, TypeOK
<1>2. FlagIsHeld /\ RemovedIsSent /\ SnapshotIsPrefix /\ SeqsAscend
  BY DEF Init, FlagIsHeld, RemovedIsSent, SnapshotIsPrefix, SeqsAscend
<1>3. Sent = {} /\ Len(wire) = 0
  BY DEF Init, Sent, ToSet
<1>4. HandIsFresh
  BY <1>3 DEF Init, HandIsFresh
<1>5. Cardinality({}) = 0
  BY FS_EmptySet
<1>6. Again = {}
  BY <1>3 DEF Again
<1>7. CopiesAreOwed
  BY <1>3, <1>5, <1>6 DEF Init, CopiesAreOwed
<1>8. Accounted
  BY DEF Init, Accounted
<1> QED
  BY <1>1, <1>2, <1>4, <1>7, <1>8 DEF Inv

\* ... and every step of the callers, the drain and the connection keeps it.
LEMMA InvStep == Inv /\ [Next]_vars => Inv'
  BY TypesStep, FlagStep, FreshStep, SeqStep, SnapshotStep, CopiesStep, AccountedStep DEF Inv

\* The inductive invariant holds in every state.
THEOREM InvHolds == Spec => []Inv
  BY InvInit, InvStep, PTL DEF Spec

\* Every composed message is carried, held, in the hands of a SendFromUI or
\* reported, or was in hand when the process died, however many calls run at
\* once; every copy beyond the first is owed to a fault or a crash; and a drain
\* works on a prefix of the table (SendFromUI, drainOutbox).
THEOREM OutboxAccountsHolds == Spec => []OutboxAccounts
<1>1. Inv => OutboxAccounts
  <2> SUFFICES ASSUME Inv PROVE OutboxAccounts
    OBVIOUS
  <2>1. TypeOK /\ Accounted /\ SnapshotIsPrefix /\ CopiesAreOwed
    BY DEF Inv
  <2>2. /\ Len(wire) \in Nat /\ Cardinality(Again) \in Nat /\ Cardinality(Sent) \in Nat
        /\ faults \in Nat /\ crashes \in Nat
    BY <2>1, CountTypes
  <2>3. DuplicatesNeedFaults
    BY <2>1, <2>2 DEF CopiesAreOwed, DuplicatesNeedFaults
  <2> QED
    BY <2>1, <2>3 DEF OutboxAccounts
<1> QED
  BY <1>1, InvHolds, PTL

\* A message leaves the table only when it was carried, and is sent from there
\* only as the first row of the table, whatever calls add to it meanwhile
\* (drainOutbox, Outbox.Remove).
THEOREM LeavesInTurnHolds == Spec => LeavesInTurn
<1>1. Inv /\ [Next]_vars => box \ box' \subseteq Sent
  <2> SUFFICES ASSUME Inv, [Next]_vars PROVE box \ box' \subseteq Sent
    OBVIOUS
  <2>1. CASE box \subseteq box'
    BY <2>1
  <2>2. CASE DrainRemove
    <3>1. RemovedIsSent
      BY DEF Inv
    <3> QED
      BY <2>2, <3>1 DEF DrainRemove, RemovedIsSent
  <2>3. Compose \/ StartDrain \/ ReadPending \/ DrainSend \/ DrainDone \/ EndDrain \/ Crash
        => box \subseteq box'
    BY DEF Compose, StartDrain, ReadPending, DrainSend, DrainDone, EndDrain, Crash, table
  <2>4. ASSUME NEW m \in Ids, UISend(m) \/ Enqueue(m) PROVE box \subseteq box'
    BY <2>4, UISendFacts, EnqueueFacts
  <2>5. UNCHANGED table => box \subseteq box'
    BY DEF table
  <2> QED
    BY <2>1, <2>2, <2>3, <2>4, <2>5, StepCases
<1>2. Inv /\ [Next]_vars =>
        (drain = "send" /\ drain' = "remove" =>
           /\ Len(wire) < Len(wire')
           /\ \A m \in box : seq[wire'[Len(wire')]] <= seq[m])
  <2> SUFFICES ASSUME Inv, [Next]_vars, drain = "send", drain' = "remove"
               PROVE  Len(wire) < Len(wire') /\ \A m \in box : seq[wire'[Len(wire')]] <= seq[m]
    OBVIOUS
  <2>1. DrainSend
    BY StepCases DEF Compose, UISend, Enqueue, StartDrain, ReadPending, DrainRemove, DrainDone,
                     EndDrain, Crash, drainer
  <2>2. PICK m \in todo : OldestRow(m, todo) /\ Send(m, TRUE)
    BY <2>1 DEF DrainSend
  <2>3. /\ TypeOK /\ m \in Ids /\ box \subseteq Ids /\ todo \subseteq Ids
        /\ \A k \in Ids : seq[k] \in Nat
        /\ todo \subseteq box /\ \A j \in box \ todo, k \in todo : seq[k] < seq[j]
    BY DEF Inv, TypeOK, SnapshotIsPrefix
  <2>4. wire'[Len(wire')] = m /\ Len(wire) \in Nat /\ Len(wire') = Len(wire) + 1
    BY <2>2, <2>3, SendFacts
  <2>5. \A k \in box : seq[m] <= seq[k]
    <3>1. \A k \in todo : seq[m] <= seq[k]
      BY <2>2 DEF OldestRow
    <3> QED
      BY <2>3, <3>1
  <2>6. Len(wire) < Len(wire')
    BY <2>4
  <2> QED
    BY <2>4, <2>5, <2>6
<1> QED
  BY <1>1, <1>2, InvHolds, PTL DEF Spec, LeavesInTurn, HeldUntilSent, HeadOfLine

-----------------------------------------------------------------------------
(* MessageHub: the inductive invariant *)

HubIds == Hub!Ids
Taken == [id : HubIds, from : Peers \cup {Me}, to : Peers \cup {Me, Hub!Everyone}]
BusyAt == {"admit", "file", "keep"}

Own == [id : MaxIds + 1 .. MaxIds + MaxComposed, from : {Me}, to : Peers \cup {Hub!Everyone}]

\* The reader has a message in its hands that it received, unless it is idle.
ReaderTyped == reader = Hub!Idle \/ reader \in [at : BusyAt, msg : Hub!Received]

\* Every call of SendFromUI has a message of its own, one of those composed.
CallsTyped ==
  /\ hubUi \subseteq [at : BusyAt, msg : Own]
  /\ \A g \in hubUi : g.msg.id <= MaxIds + hubComposed
  /\ \A g, h \in hubUi : g.msg.id = h.msg.id => g = h

HubTyped ==
  /\ Hub!TypeOK /\ ReaderTyped /\ CallsTyped
  /\ admitted \in Seq(HubIds)
  /\ filed \in Seq(Taken)
  /\ \A c \in DOMAIN convs : Len(convs[c]) <= Scrollback

\* The id of a draft is new: nothing up to the last composed one is larger.
DraftIsNew ==
  /\ \A i \in 1 .. Len(admitted) : admitted[i] <= MaxIds + hubComposed
  /\ \A g \in hubUi : g.at = "admit" => \A i \in 1 .. Len(admitted) : admitted[i] # g.msg.id

\* The ring is what it let pass, until it is full; then the oldest of the last
\* Capacity is at the head, and they go on round the end.
RingHoldsLast ==
  IF Len(admitted) < Capacity THEN order = admitted /\ head = 1
  ELSE /\ Len(order) = Capacity
       /\ \A i \in head .. Capacity :
            order[i] = admitted[(Len(admitted) - Capacity) + ((i - head) + 1)]
       /\ \A i \in 1 .. head - 1 : order[i] = admitted[(Len(admitted) - head) + (i + 1)]

\* The set is the last ids as well.
SetHoldsLast ==
  seen = {admitted[i] : i \in {k \in 1 .. Len(admitted) : k + Capacity > Len(admitted)}}

\* No id is let pass twice within Capacity.
LastAreDistinct ==
  \A i, j \in 1 .. Len(admitted) : i < j /\ j <= i + Capacity => admitted[i] # admitted[j]

\* What was displayed has been kept, or is next to be.
Kept(m) == Hub!Contains(history, m.id) \/ m.id \in logged
KeepsNext(g, m) == g.at = "keep" /\ g.msg = m
ShownStays ==
  \A i \in 1 .. Len(filed) :
    Kept(filed[i]) \/ KeepsNext(reader, filed[i]) \/ Hub!Call("keep", filed[i]) \in hubUi

HubInv ==
  /\ HubTyped /\ DraftIsNew
  /\ RingHoldsLast /\ SetHoldsLast /\ LastAreDistinct
  /\ Hub!OneConversationPerPeer /\ ShownStays

-----------------------------------------------------------------------------
(* MessageHub: the ring *)

LEMMA HubConstants ==
  /\ Capacity \in Nat /\ Capacity > 0 /\ Scrollback \in Nat /\ Scrollback > 0
  /\ MaxIds \in Nat /\ MaxComposed \in Nat /\ MaxFiled \in Nat /\ MaxFailures \in Nat
  /\ Me \notin Peers /\ Hub!Everyone \notin Peers \cup {Me}
  BY ApplicationAssumption DEF Hub!HubAssumption

\* The head goes round.
LEMMA HeadGoesRound ==
  ASSUME NEW h \in 1 .. Capacity
  PROVE  /\ h < Capacity => h % Capacity = h
         /\ h = Capacity => h % Capacity = 0
  BY HubConstants

\* What an admission makes of the admitted ids.
LEMMA OneMoreAdmitted ==
  ASSUME admitted \in Seq(HubIds), NEW id \in HubIds, admitted' = Append(admitted, id)
  PROVE  /\ admitted' \in Seq(HubIds)
         /\ Len(admitted) \in Nat /\ Len(admitted') = Len(admitted) + 1
         /\ \A i \in 1 .. Len(admitted) : admitted'[i] = admitted[i] /\ admitted[i] \in HubIds
         /\ admitted'[Len(admitted) + 1] = id
  OBVIOUS

\* A new id takes the place of the oldest once the ring is full.
LEMMA Admits ==
  ASSUME HubInv, NEW id \in HubIds, id \notin seen, Hub!First(id), admitted' = Append(admitted, id)
  PROVE  /\ RingHoldsLast' /\ SetHoldsLast' /\ LastAreDistinct'
         /\ order' \in Seq(HubIds) /\ seen' \subseteq HubIds /\ head' \in 1 .. Capacity
<1> DEFINE n == Len(admitted)
<1>1. /\ RingHoldsLast /\ SetHoldsLast /\ LastAreDistinct
      /\ order \in Seq(HubIds) /\ seen \subseteq HubIds /\ head \in 1 .. Capacity
      /\ admitted \in Seq(HubIds)
  BY DEF HubInv, HubTyped, Hub!TypeOK, HubIds
<1>2. /\ n \in Nat /\ Len(admitted') = n + 1 /\ admitted'[n + 1] = id
      /\ \A i \in 1 .. n : admitted'[i] = admitted[i] /\ admitted[i] \in HubIds
  BY <1>1, OneMoreAdmitted
<1>3. /\ Len(order) = Capacity =>
           /\ seen' = (seen \ {order[head]}) \cup {id}
           /\ order' = [order EXCEPT ![head] = id]
           /\ head' = (head % Capacity) + 1
      /\ Len(order) # Capacity =>
           seen' = seen \cup {id} /\ order' = Append(order, id) /\ head' = head
  BY DEF Hub!First
<1> HIDE DEF n
<1>4. \A i \in 1 .. n : i + Capacity > n => admitted[i] \in seen
  BY <1>1 DEF SetHoldsLast, n
<1>5. LastAreDistinct'
  <2> SUFFICES ASSUME NEW i \in 1 .. n + 1, NEW j \in 1 .. n + 1, i < j, j <= i + Capacity
               PROVE  admitted'[i] # admitted'[j]
    BY <1>2 DEF LastAreDistinct
  <2>1. CASE j = n + 1
    <3>1. i \in 1 .. n /\ i + Capacity > n
      BY <1>2, <2>1, HubConstants
    <3> QED
      BY <1>2, <1>4, <2>1, <3>1
  <2>2. CASE j \in 1 .. n
    <3>1. i \in 1 .. n
      BY <1>2, <2>2
    <3> QED
      BY <1>1, <1>2, <2>2, <3>1 DEF LastAreDistinct, n
  <2> QED
    BY <1>2, <2>1, <2>2
<1>6. CASE n < Capacity
  <2>1. order = admitted /\ head = 1
    BY <1>1, <1>6 DEF RingHoldsLast, n
  <2>2. /\ seen' = seen \cup {id} /\ order' = admitted' /\ head' = 1
    BY <1>2, <1>3, <1>6, <2>1, HubConstants DEF n
  <2>3. RingHoldsLast'
    <3>1. CASE n + 1 < Capacity
      BY <1>2, <2>2, <3>1 DEF RingHoldsLast
    <3>2. CASE n + 1 = Capacity
      <4>1. \A i \in 1 .. Capacity : (Len(admitted') - Capacity) + ((i - 1) + 1) = i
        BY <1>2, <3>2, HubConstants
      <4> QED
        BY <1>2, <2>2, <3>2, <4>1, HubConstants DEF RingHoldsLast
    <3> QED
      BY <1>2, <1>6, <3>1, <3>2, HubConstants
  <2>4. SetHoldsLast'
    <3>1. {k \in 1 .. Len(admitted') : k + Capacity > Len(admitted')} = 1 .. n + 1
      BY <1>2, <1>6, HubConstants
    <3>2. {k \in 1 .. Len(admitted) : k + Capacity > Len(admitted)} = 1 .. n
      BY <1>2, <1>6, HubConstants DEF n
    <3>3. seen = {admitted[i] : i \in 1 .. n}
      BY <1>1, <3>2 DEF SetHoldsLast
    <3>4. seen' = {admitted'[i] : i \in 1 .. n + 1}
      <4>1. ASSUME NEW x \in seen' PROVE \E i \in 1 .. n + 1 : x = admitted'[i]
        <5>1. CASE x = id
          BY <1>2, <5>1
        <5>2. CASE x \in seen
          <6>1. PICK i \in 1 .. n : x = admitted[i]
            BY <3>3, <5>2
          <6>2. i \in 1 .. n + 1 /\ x = admitted'[i]
            BY <1>2, <6>1
          <6> QED
            BY <6>2
        <5> QED
          BY <2>2, <5>1, <5>2
      <4>2. ASSUME NEW i \in 1 .. n + 1 PROVE admitted'[i] \in seen'
        <5>1. CASE i = n + 1
          BY <1>2, <2>2, <5>1
        <5>2. CASE i \in 1 .. n
          BY <1>2, <2>2, <3>3, <5>2
        <5> QED
          BY <1>2, <5>1, <5>2
      <4> QED
        BY <4>1, <4>2
    <3> QED
      BY <3>1, <3>4 DEF SetHoldsLast
  <2>5. order' \in Seq(HubIds) /\ seen' \subseteq HubIds /\ head' \in 1 .. Capacity
    BY <1>1, <2>2, HubConstants, OneMoreAdmitted
  <2> QED
    BY <1>5, <2>3, <2>4, <2>5
<1>7. CASE n >= Capacity
  <2>1. /\ Len(order) = Capacity
        /\ \A i \in head .. Capacity : order[i] = admitted[(n - Capacity) + ((i - head) + 1)]
        /\ \A i \in 1 .. head - 1 : order[i] = admitted[(n - head) + (i + 1)]
    BY <1>1, <1>2, <1>7, HubConstants DEF RingHoldsLast, n
  <2>2. /\ seen' = (seen \ {order[head]}) \cup {id}
        /\ order' = [order EXCEPT ![head] = id]
        /\ head' = (head % Capacity) + 1
    BY <1>3, <2>1
  <2>3. /\ order' \in Seq(HubIds) /\ Len(order') = Capacity /\ order'[head] = id
        /\ \A i \in 1 .. Capacity : i # head => order'[i] = order[i]
    BY <1>1, <2>1, <2>2
  <2>4. order[head] = admitted[(n - Capacity) + 1] /\ (n - Capacity) + 1 \in 1 .. n
    <3>1. head \in head .. Capacity /\ (head - head) + 1 = 1 /\ (n - Capacity) + 1 \in 1 .. n
      BY <1>1, <1>2, <1>7, HubConstants
    <3> QED
      BY <2>1, <3>1
  <2>5. head' \in 1 .. Capacity /\ RingHoldsLast'
    <3>1. CASE head = Capacity
      <4>1. head' = 1
        BY <2>2, <3>1, HeadGoesRound, HubConstants
      <4>2. ASSUME NEW i \in 1 .. Capacity
            PROVE  order'[i] = admitted'[((n + 1) - Capacity) + ((i - 1) + 1)]
        <5>1. CASE i = Capacity
          <6>1. ((n + 1) - Capacity) + ((i - 1) + 1) = n + 1
            BY <1>2, <5>1, HubConstants
          <6> QED
            BY <1>2, <2>3, <3>1, <5>1, <6>1
        <5>2. CASE i # Capacity
          <6>1. /\ i \in 1 .. head - 1 /\ i # head
                /\ ((n + 1) - Capacity) + ((i - 1) + 1) = (n - head) + (i + 1)
                /\ (n - head) + (i + 1) \in 1 .. n
            BY <1>2, <1>7, <3>1, <5>2, HubConstants
          <6>2. order[i] = admitted[(n - head) + (i + 1)]
            BY <2>1, <6>1
          <6> QED
            BY <1>2, <2>3, <6>1, <6>2
        <5> QED
          BY <5>1, <5>2
      <4>3. \A i \in 1 .. head' - 1 : FALSE
        BY <4>1
      <4>4. ~(Len(admitted') < Capacity)
        BY <1>2, <1>7, HubConstants
      <4>5. \A i \in head' .. Capacity :
              order'[i] = admitted'[(Len(admitted') - Capacity) + ((i - head') + 1)]
        BY <1>2, <4>1, <4>2
      <4>6. RingHoldsLast'
        BY <2>3, <4>3, <4>4, <4>5 DEF RingHoldsLast
      <4> QED
        BY <4>1, <4>6, HubConstants
    <3>2. CASE head < Capacity
      <4>1. head' = head + 1
        BY <1>1, <2>2, <3>2, HeadGoesRound
      <4>2. ASSUME NEW i \in head + 1 .. Capacity
            PROVE  order'[i] = admitted'[((n + 1) - Capacity) + ((i - (head + 1)) + 1)]
        <5> i \in Int /\ head \in Int /\ head >= 1 /\ head + 1 <= i /\ i <= Capacity
          BY <1>1, HubConstants
        <5>1. /\ i \in head .. Capacity /\ i # head /\ i \in 1 .. Capacity
              /\ ((n + 1) - Capacity) + ((i - (head + 1)) + 1) = (n - Capacity) + ((i - head) + 1)
              /\ (n - Capacity) + ((i - head) + 1) \in 1 .. n
          BY <1>2, <1>7, HubConstants
        <5>2. order[i] = admitted[(n - Capacity) + ((i - head) + 1)]
          BY <2>1, <5>1
        <5> QED
          BY <1>2, <2>3, <5>1, <5>2
      <4>3. ASSUME NEW i \in 1 .. head
            PROVE  order'[i] = admitted'[((n + 1) - (head + 1)) + (i + 1)]
        <5>1. CASE i = head
          <6>1. ((n + 1) - (head + 1)) + (i + 1) = n + 1
            BY <1>1, <1>2, <5>1
          <6> QED
            BY <1>2, <2>3, <5>1, <6>1
        <5>2. CASE i # head
          <6>1. /\ i \in 1 .. head - 1 /\ i \in 1 .. Capacity
                /\ ((n + 1) - (head + 1)) + (i + 1) = (n - head) + (i + 1)
                /\ (n - head) + (i + 1) \in 1 .. n
            BY <1>1, <1>2, <1>7, <5>2, HubConstants
          <6>2. order[i] = admitted[(n - head) + (i + 1)]
            BY <2>1, <6>1
          <6> QED
            BY <1>2, <2>3, <5>2, <6>1, <6>2
        <5> QED
          BY <5>1, <5>2
      <4>4. head' \in 1 .. Capacity /\ head' - 1 = head
        BY <1>1, <3>2, <4>1, HubConstants
      <4>5. ~(Len(admitted') < Capacity)
        BY <1>2, <1>7, HubConstants
      <4>6. \A i \in head' .. Capacity :
              order'[i] = admitted'[(Len(admitted') - Capacity) + ((i - head') + 1)]
        BY <1>2, <4>1, <4>2
      <4>7. \A i \in 1 .. head' - 1 : order'[i] = admitted'[(Len(admitted') - head') + (i + 1)]
        BY <1>2, <4>1, <4>3, <4>4
      <4> QED
        BY <2>3, <4>4, <4>5, <4>6, <4>7 DEF RingHoldsLast
    <3> QED
      BY <1>1, <3>1, <3>2, HubConstants
  <2>6. SetHoldsLast'
    <3>1. ASSUME NEW x \in seen'
          PROVE  \E i \in 1 .. n + 1 : i + Capacity > n + 1 /\ x = admitted'[i]
      <4>1. CASE x = id
        <5>1. n + 1 \in 1 .. n + 1 /\ (n + 1) + Capacity > n + 1
          BY <1>2, HubConstants
        <5> QED
          BY <1>2, <4>1, <5>1
      <4>2. CASE x \in seen /\ x # order[head]
        <5>1. PICK i \in 1 .. n : i + Capacity > n /\ x = admitted[i]
          BY <1>1, <4>2 DEF SetHoldsLast, n
        <5>2. i # (n - Capacity) + 1
          BY <2>4, <4>2, <5>1
        <5>3. i \in 1 .. n + 1 /\ i + Capacity > n + 1 /\ x = admitted'[i]
          BY <1>2, <5>1, <5>2, HubConstants
        <5> QED
          BY <5>3
      <4> QED
        BY <2>2, <4>1, <4>2
    <3>2. ASSUME NEW i \in 1 .. n + 1, i + Capacity > n + 1
          PROVE  admitted'[i] \in seen'
      <4>1. CASE i = n + 1
        BY <1>2, <2>2, <4>1
      <4>2. CASE i \in 1 .. n
        <5> DEFINE k == (n - Capacity) + 1
        <5>1. k \in 1 .. n /\ k < i /\ i <= k + Capacity
          BY <1>2, <1>7, <3>2, <4>2, HubConstants
        <5>2. admitted[k] # admitted[i]
          BY <1>1, <4>2, <5>1 DEF LastAreDistinct, n
        <5>3. admitted[i] \in seen
          BY <1>2, <1>4, <3>2, <4>2, HubConstants
        <5> QED
          BY <1>2, <2>2, <2>4, <4>2, <5>2, <5>3
      <4> QED
        BY <1>2, <4>1, <4>2
    <3>3. seen' = {admitted'[i] : i \in {k \in 1 .. n + 1 : k + Capacity > n + 1}}
      BY <3>1, <3>2
    <3> QED
      BY <1>2, <3>3 DEF SetHoldsLast
  <2>7. seen' \subseteq HubIds
    BY <1>1, <2>2
  <2> QED
    BY <1>5, <2>3, <2>5, <2>6, <2>7
<1> QED
  BY <1>2, <1>6, <1>7, HubConstants

-----------------------------------------------------------------------------
(* MessageHub: the log *)

\* The instance counts as this module does.
LEMMA HubCounts == ASSUME NEW S PROVE Hub!Cardinality(S) = Cardinality(S)
  BY Zenon DEF Cardinality, Hub!Cardinality

\* A message belongs to the conversation with a peer if it goes between the two.
LEMMA KeyIsPeer ==
  ASSUME NEW m, NEW id \in HubIds, m \in Hub!Received \cup Hub!Drafts(id)
  PROVE  /\ m \in Taken
         /\ Hub!ConversationKeyFor(m) \in Peers \cup {Hub!Everyone}
         /\ \A c \in Peers : {m.from, m.to} = {Me, c} <=> Hub!ConversationKeyFor(m) = c
<1>1. CASE m \in Hub!Received
  <2>1. m = [id |-> m.id, from |-> m.from, to |-> m.to] /\ m.id \in 1 .. MaxIds
        /\ m.from \in Peers /\ m.to \in {Me, Hub!Everyone}
    BY <1>1 DEF Hub!Received
  <2>2. m.id \in HubIds
    BY <2>1, HubConstants DEF HubIds, Hub!Ids
  <2>3. m \in Taken
    BY <2>1, <2>2 DEF Taken
  <2> QED
    BY <2>1, <2>3, HubConstants DEF Hub!ConversationKeyFor
<1>2. CASE m \in Hub!Drafts(id)
  <2>1. m = [id |-> m.id, from |-> m.from, to |-> m.to] /\ m.id = id
        /\ m.from = Me /\ m.to \in Peers \cup {Hub!Everyone}
    BY <1>2 DEF Hub!Drafts
  <2>2. m \in Taken
    BY <2>1 DEF Taken
  <2> QED
    BY <2>1, <2>2, HubConstants DEF Hub!ConversationKeyFor
<1> QED
  BY <1>1, <1>2

\* Positions in the log are finitely many.
LEMMA ExchangedIsFinite ==
  ASSUME filed \in Seq(Taken), NEW c, NEW i
  PROVE  /\ Hub!Exchanged(c) \subseteq 1 .. Len(filed)
         /\ IsFiniteSet(Hub!Exchanged(c)) /\ Cardinality(Hub!Exchanged(c)) \in Nat
         /\ IsFiniteSet({j \in Hub!Exchanged(c) : j >= i}) /\ Hub!Since(c, i) \in Nat
         /\ Hub!Since(c, i) = Cardinality({j \in Hub!Exchanged(c) : j >= i})
         /\ Hub!Since(c, i) <= Cardinality(Hub!Exchanged(c))
         /\ i \in Hub!Exchanged(c) => Hub!Since(c, i) >= 1
<1> DEFINE E == Hub!Exchanged(c)
           S == {j \in E : j >= i}
<1>1. DOMAIN filed = 1 .. Len(filed) /\ Len(filed) \in Nat
  OBVIOUS
<1>2. E \subseteq 1 .. Len(filed)
  BY <1>1 DEF Hub!Exchanged
<1>3. IsFiniteSet(1 .. Len(filed))
  BY <1>1, FS_Interval
<1>4. IsFiniteSet(E) /\ Cardinality(E) \in Nat
  BY <1>2, <1>3, FS_Subset, FS_CardinalityType
<1>5. IsFiniteSet(S) /\ Cardinality(S) \in Nat /\ Cardinality(S) <= Cardinality(E)
  BY <1>4, FS_Subset, FS_CardinalityType
<1>6. Hub!Since(c, i) = Cardinality(S)
  BY HubCounts DEF Hub!Since
<1>7. ASSUME i \in E PROVE Cardinality(S) >= 1
  <2>1. i \in S
    BY <1>1, <1>2, <1>7
  <2>2. Cardinality(S) # 0
    BY <1>5, <2>1, FS_EmptySet
  <2> QED
    BY <1>5, <2>2
<1> QED
  BY <1>2, <1>4, <1>5, <1>6, <1>7

\* Filing a message of a conversation makes each of the older ones one older.
LEMMA OneMoreExchanged ==
  ASSUME filed \in Seq(Taken), NEW m \in Taken, filed' = Append(filed, m), NEW c
  PROVE  /\ {m.from, m.to} # {Me, c} =>
              Hub!Exchanged(c)' = Hub!Exchanged(c)
              /\ \A i : Hub!Since(c, i)' = Hub!Since(c, i)
         /\ {m.from, m.to} = {Me, c} =>
              /\ Hub!Exchanged(c)' = Hub!Exchanged(c) \cup {Len(filed) + 1}
              /\ Cardinality(Hub!Exchanged(c)') = Cardinality(Hub!Exchanged(c)) + 1
              /\ \A k : k = Len(filed) + 1 => Hub!Since(c, k)' = 1
              /\ \A i \in Hub!Exchanged(c) : Hub!Since(c, i)' = Hub!Since(c, i) + 1
<1> DEFINE E == Hub!Exchanged(c)
           n == Len(filed)
<1>1. /\ n \in Nat /\ DOMAIN filed = 1 .. n /\ DOMAIN filed' = 1 .. n + 1
      /\ filed'[n + 1] = m /\ \A i \in 1 .. n : filed'[i] = filed[i]
  OBVIOUS
<1>2. E \subseteq 1 .. n /\ IsFiniteSet(E) /\ Cardinality(E) \in Nat
  BY ExchangedIsFinite
<1>3. filed' \in Seq(Taken)
  OBVIOUS
<1>4. E = {i \in 1 .. n : {filed[i].from, filed[i].to} = {Me, c}}
  BY <1>1 DEF Hub!Exchanged
<1>5. E' = {i \in 1 .. n + 1 : {filed'[i].from, filed'[i].to} = {Me, c}}
  BY <1>1 DEF Hub!Exchanged
<1> HIDE DEF n, E
<1>6. ASSUME {m.from, m.to} # {Me, c}
      PROVE  E' = E /\ \A i : Hub!Since(c, i)' = Hub!Since(c, i)
  <2>1. ASSUME NEW i \in 1 .. n + 1, {filed'[i].from, filed'[i].to} = {Me, c}
        PROVE  i \in 1 .. n /\ {filed[i].from, filed[i].to} = {Me, c}
    <3>1. i # n + 1
      BY <1>1, <1>6, <2>1
    <3>2. i \in 1 .. n
      BY <1>1, <3>1
    <3> QED
      BY <1>1, <2>1, <3>2
  <2>2. ASSUME NEW i \in 1 .. n, {filed[i].from, filed[i].to} = {Me, c}
        PROVE  i \in 1 .. n + 1 /\ {filed'[i].from, filed'[i].to} = {Me, c}
    BY <1>1, <2>2
  <2>3. E' = E
    BY <1>4, <1>5, <2>1, <2>2
  <2> QED
    BY <2>3, HubCounts DEF Hub!Since, E
<1>7. ASSUME {m.from, m.to} = {Me, c}
      PROVE  /\ E' = E \cup {n + 1}
             /\ Cardinality(E') = Cardinality(E) + 1
             /\ \A k : k = n + 1 => Hub!Since(c, k)' = 1
             /\ \A i \in E : Hub!Since(c, i)' = Hub!Since(c, i) + 1
  <2>1. E' = E \cup {n + 1}
    <3>1. ASSUME NEW i \in E' PROVE i \in E \cup {n + 1}
      <4>1. i \in 1 .. n + 1 /\ {filed'[i].from, filed'[i].to} = {Me, c}
        BY <1>5, <3>1
      <4>2. CASE i \in 1 .. n
        <5>1. filed'[i] = filed[i]
          BY <1>1, <4>2
        <5> QED
          BY <1>4, <4>1, <4>2, <5>1
      <4>3. CASE i \notin 1 .. n
        BY <1>1, <4>1, <4>3
      <4> QED
        BY <4>2, <4>3
    <3>2. ASSUME NEW i \in E \cup {n + 1} PROVE i \in E'
      <4>1. CASE i = n + 1
        <5>1. n + 1 \in 1 .. n + 1 /\ {filed'[n + 1].from, filed'[n + 1].to} = {Me, c}
          BY <1>1, <1>7
        <5> QED
          BY <1>5, <4>1, <5>1
      <4>2. CASE i \in E
        BY <1>1, <1>4, <1>5, <4>2
      <4> QED
        BY <4>1, <4>2
    <3> QED
      BY <3>1, <3>2
  <2>2. n + 1 \notin E
    BY <1>1, <1>2
  <2>3. Cardinality(E') = Cardinality(E) + 1
    BY <1>2, <2>1, <2>2, FS_AddElement
  <2>4. \A i : Hub!Since(c, i)' = Cardinality({j \in E' : j >= i})
    BY HubCounts DEF Hub!Since, E
  <2>5. {j \in E' : j >= n + 1} = {n + 1}
    <3>1. \A j \in E : ~(j >= n + 1)
      BY <1>1, <1>2
    <3>2. n + 1 >= n + 1
      BY <1>1
    <3> QED
      BY <2>1, <3>1, <3>2
  <2>6. ASSUME NEW k, k = n + 1 PROVE Hub!Since(c, k)' = 1
    <3>1. Cardinality({k}) = 1
      BY FS_Singleton
    <3>2. Hub!Since(c, k)' = Cardinality({k})
      BY <2>4, <2>5, <2>6
    <3> QED
      BY <3>1, <3>2
  <2>7. ASSUME NEW i \in E PROVE Hub!Since(c, i)' = Hub!Since(c, i) + 1
    <3> DEFINE S == {j \in E : j >= i}
    <3>1. {j \in E' : j >= i} = S \cup {n + 1} /\ n + 1 \notin S
      BY <1>1, <1>2, <2>1, <2>2
    <3>2. IsFiniteSet(S) /\ Hub!Since(c, i) = Cardinality(S)
      BY ExchangedIsFinite DEF E
    <3>3. Cardinality(S \cup {n + 1}) = Cardinality(S) + 1
      BY <3>1, <3>2, FS_AddElement
    <3> QED
      BY <2>4, <3>1, <3>2, <3>3
  <2> QED
    BY <2>1, <2>3, <2>6, <2>7
<1> QED
  BY <1>6, <1>7 DEF E, n

\* The newest of a conversation and one more.
LEMMA NewestAndOne ==
  ASSUME NEW s \in Seq(HubIds), NEW id \in HubIds, Len(s) <= Scrollback
  PROVE  LET t == Hub!Newest(Scrollback, Append(s, id)) IN
         /\ t \in Seq(HubIds)
         /\ Len(s) < Scrollback => t = Append(s, id)
         /\ Len(s) = Scrollback =>
              /\ Len(t) = Scrollback /\ t[Scrollback] = id
              /\ \A k \in 1 .. Scrollback - 1 : t[k] = s[k + 1]
<1> DEFINE a == Append(s, id)
           t == Hub!Newest(Scrollback, a)
<1>1. /\ a \in Seq(HubIds) /\ Len(s) \in Nat /\ Len(a) = Len(s) + 1 /\ a[Len(s) + 1] = id
      /\ \A k \in 1 .. Len(s) : a[k] = s[k]
  OBVIOUS
<1> HIDE DEF a
<1>2. CASE Len(s) < Scrollback
  <2>1. t = a
    BY <1>1, <1>2, HubConstants DEF Hub!Newest
  <2> QED
    BY <1>1, <1>2, <2>1 DEF a
<1>3. Len(s) < Scrollback \/ Len(s) = Scrollback
  BY <1>1, HubConstants
<1>4. CASE Len(s) = Scrollback
  <2>1. t = SubSeq(a, 2, Scrollback + 1)
    <3>1. Len(a) > Scrollback /\ (Len(a) - Scrollback) + 1 = 2 /\ Len(a) = Scrollback + 1
      BY <1>1, <1>4, HubConstants
    <3>2. Len(a) - Scrollback + 1 = 2
      BY <1>1, <1>4, HubConstants
    <3> QED
      BY <3>1, <3>2 DEF Hub!Newest
  <2>2. /\ t \in Seq(HubIds) /\ Len(t) = Scrollback
        /\ \A k \in 1 .. Scrollback : t[k] = a[k + 1]
    BY <1>1, <1>4, <2>1, HubConstants
  <2>3. t[Scrollback] = id
    BY <1>1, <1>4, <2>2, HubConstants
  <2>4. \A k \in 1 .. Scrollback - 1 : t[k] = s[k + 1]
    <3> SUFFICES ASSUME NEW k \in 1 .. Scrollback - 1 PROVE t[k] = s[k + 1]
      OBVIOUS
    <3>1. k \in 1 .. Scrollback /\ k + 1 \in 1 .. Len(s)
      BY <1>4, HubConstants
    <3> QED
      BY <1>1, <2>2, <3>1
  <2> QED
    BY <1>4, <2>2, <2>3, <2>4 DEF a
<1> QED
  BY <1>2, <1>4, <1>3

\* A filed message is the newest of its conversation and touches no other.
LEMMA Files ==
  ASSUME HubInv, NEW m \in Taken, Hub!File(m),
         Hub!ConversationKeyFor(m) \in Peers \cup {Hub!Everyone},
         \A c \in Peers : {m.from, m.to} = {Me, c} <=> Hub!ConversationKeyFor(m) = c
  PROVE  /\ DOMAIN convs' = Peers \cup {Hub!Everyone}
         /\ \A c \in DOMAIN convs' : convs'[c] \in Seq(HubIds) /\ Len(convs'[c]) <= Scrollback
         /\ filed' \in Seq(Taken) /\ filed' = Append(filed, m)
         /\ Hub!OneConversationPerPeer'
<1> DEFINE key == Hub!ConversationKeyFor(m)
           s == convs[key]
           t == Hub!Newest(Scrollback, Append(s, m.id))
<1>1. /\ DOMAIN convs = Peers \cup {Hub!Everyone} /\ filed \in Seq(Taken)
      /\ \A c \in DOMAIN convs : convs[c] \in Seq(HubIds) /\ Len(convs[c]) <= Scrollback
      /\ Hub!OneConversationPerPeer
  BY DEF HubInv, HubTyped, Hub!TypeOK, HubIds
<1>2. key \in DOMAIN convs /\ s \in Seq(HubIds) /\ Len(s) <= Scrollback /\ m.id \in HubIds
  BY <1>1 DEF Taken
<1>3. convs' = [convs EXCEPT ![key] = t] /\ filed' = Append(filed, m)
  BY DEF Hub!File
<1>4. /\ t \in Seq(HubIds)
      /\ Len(s) < Scrollback => t = Append(s, m.id)
      /\ Len(s) = Scrollback =>
           /\ Len(t) = Scrollback /\ t[Scrollback] = m.id
           /\ \A k \in 1 .. Scrollback - 1 : t[k] = s[k + 1]
  BY <1>2, NewestAndOne
<1> HIDE DEF t, key
<1>5. /\ DOMAIN convs' = DOMAIN convs /\ convs'[key] = t
      /\ \A c \in DOMAIN convs : c # key => convs'[c] = convs[c]
  BY <1>2, <1>3
<1>6. Len(t) <= Scrollback
  <2>1. CASE Len(s) < Scrollback
    <3>1. Len(t) = Len(s) + 1 /\ Len(s) \in Nat
      BY <1>2, <1>4, <2>1
    <3> QED
      BY <2>1, <3>1, HubConstants
  <2>2. CASE Len(s) = Scrollback
    BY <1>4, <2>2, HubConstants
  <2>3. Len(s) \in Nat
    BY <1>2
  <2> QED
    BY <1>2, <2>1, <2>2, <2>3, HubConstants
<1>7. \A c \in DOMAIN convs' : convs'[c] \in Seq(HubIds) /\ Len(convs'[c]) <= Scrollback
  BY <1>1, <1>4, <1>5, <1>6
<1>8. filed' \in Seq(Taken)
  BY <1>1, <1>3
<1>9. ASSUME NEW c \in Peers
      PROVE  /\ Len(convs'[c]) = IF Cardinality(Hub!Exchanged(c)') > Scrollback THEN Scrollback
                                 ELSE Cardinality(Hub!Exchanged(c)')
             /\ \A i \in Hub!Exchanged(c)' :
                  Hub!Since(c, i)' <= Scrollback =>
                    convs'[c][(Len(convs'[c]) - Hub!Since(c, i)') + 1] = filed'[i].id
  <2> DEFINE E == Hub!Exchanged(c)
             e == Cardinality(E)
             n == Len(filed)
  <2>1. /\ Len(convs[c]) = IF e > Scrollback THEN Scrollback ELSE e
        /\ \A i \in E : Hub!Since(c, i) <= Scrollback =>
             convs[c][(Len(convs[c]) - Hub!Since(c, i)) + 1] = filed[i].id
    BY <1>1, HubCounts DEF Hub!OneConversationPerPeer
  <2>2. e \in Nat /\ E \subseteq 1 .. n /\ \A i \in E :
          Hub!Since(c, i) \in Nat /\ Hub!Since(c, i) <= e /\ Hub!Since(c, i) >= 1
    BY <1>1, ExchangedIsFinite
  <2>3. /\ n \in Nat /\ filed'[n + 1] = m /\ \A i \in 1 .. n : filed'[i] = filed[i]
    BY <1>1, <1>3
  <2> HIDE DEF n, e, E
  <2>4. CASE c # key
    <3>1. {m.from, m.to} # {Me, c}
      BY <2>4 DEF key
    <3>2. E' = E /\ \A i : Hub!Since(c, i)' = Hub!Since(c, i)
      BY <1>1, <1>3, <3>1, OneMoreExchanged DEF E
    <3>3. convs'[c] = convs[c]
      BY <1>1, <1>5, <2>4
    <3>4. Cardinality(E') = e
      BY <3>2 DEF e
    <3>5. \A i \in E' : filed'[i] = filed[i]
      BY <2>2, <2>3, <3>2
    <3> QED
      BY <2>1, <3>2, <3>3, <3>4, <3>5 DEF E
  <2>5. CASE c = key
    <3>1. {m.from, m.to} = {Me, c}
      BY <2>5 DEF key
    <3>2. /\ E' = E \cup {n + 1} /\ Cardinality(E') = e + 1
          /\ \A k : k = n + 1 => Hub!Since(c, k)' = 1
          /\ \A i \in E : Hub!Since(c, i)' = Hub!Since(c, i) + 1
      <4>1. /\ Hub!Exchanged(c)' = Hub!Exchanged(c) \cup {Len(filed) + 1}
            /\ Cardinality(Hub!Exchanged(c)') = Cardinality(Hub!Exchanged(c)) + 1
            /\ \A k : k = Len(filed) + 1 => Hub!Since(c, k)' = 1
            /\ \A i \in Hub!Exchanged(c) : Hub!Since(c, i)' = Hub!Since(c, i) + 1
        BY <1>1, <1>3, <3>1, OneMoreExchanged
      <4> QED
        BY <4>1 DEF E, e, n
    <3>3. convs'[c] = t /\ s = convs[c]
      BY <1>5, <2>5
    <3>4. CASE Len(s) < Scrollback
      <4>1. Len(s) = e
        BY <2>1, <2>2, <3>3, <3>4, HubConstants
      <4>2. /\ t = Append(s, m.id) /\ Len(t) = e + 1 /\ t[e + 1] = m.id
            /\ \A k \in 1 .. e : t[k] = s[k]
        BY <1>2, <1>4, <3>4, <4>1
      <4>3. Len(t) = IF e + 1 > Scrollback THEN Scrollback ELSE e + 1
        BY <2>2, <3>4, <4>1, <4>2, HubConstants
      <4>4. ASSUME NEW i \in E', Hub!Since(c, i)' <= Scrollback
            PROVE  t[(Len(t) - Hub!Since(c, i)') + 1] = filed'[i].id
        <5>1. CASE i = n + 1
          <6>1. Hub!Since(c, i)' = 1 /\ filed'[i] = m
            BY <2>3, <3>2, <5>1
          <6>2. ((e + 1) - 1) + 1 = e + 1
            BY <2>2
          <6> QED
            BY <4>2, <6>1, <6>2
        <5>2. CASE i \in E
          <6> DEFINE r == Hub!Since(c, i)
          <6>1. r \in Nat /\ r <= e /\ r >= 1 /\ Hub!Since(c, i)' = r + 1 /\ filed'[i] = filed[i]
            BY <2>2, <2>3, <3>2, <5>2
          <6> HIDE DEF r
          <6>2. /\ r <= Scrollback /\ ((e + 1) - (r + 1)) + 1 = (e - r) + 1
                /\ (e - r) + 1 \in 1 .. e
            BY <2>2, <4>4, <6>1, HubConstants
          <6>3. s[(e - r) + 1] = filed[i].id
            BY <2>1, <3>3, <4>1, <5>2, <6>2 DEF r
          <6> QED
            BY <4>2, <6>1, <6>2, <6>3
        <5> QED
          BY <3>2, <5>1, <5>2
      <4> QED
        BY <3>2, <3>3, <4>3, <4>4 DEF E
    <3>5. CASE Len(s) = Scrollback
      <4>1. e >= Scrollback
        BY <2>1, <2>2, <3>3, <3>5, HubConstants
      <4>2. /\ Len(t) = Scrollback /\ t[Scrollback] = m.id
            /\ \A k \in 1 .. Scrollback - 1 : t[k] = s[k + 1]
        BY <1>4, <3>5
      <4>3. Len(t) = IF e + 1 > Scrollback THEN Scrollback ELSE e + 1
        BY <2>2, <4>1, <4>2, HubConstants
      <4>4. ASSUME NEW i \in E', Hub!Since(c, i)' <= Scrollback
            PROVE  t[(Len(t) - Hub!Since(c, i)') + 1] = filed'[i].id
        <5>1. CASE i = n + 1
          <6>1. Hub!Since(c, i)' = 1 /\ filed'[i] = m
            BY <2>3, <3>2, <5>1
          <6>2. (Scrollback - 1) + 1 = Scrollback
            BY HubConstants
          <6> QED
            BY <4>2, <6>1, <6>2
        <5>2. CASE i \in E
          <6> DEFINE r == Hub!Since(c, i)
          <6>1. r \in Nat /\ r <= e /\ r >= 1 /\ Hub!Since(c, i)' = r + 1 /\ filed'[i] = filed[i]
            BY <2>2, <2>3, <3>2, <5>2
          <6> HIDE DEF r
          <6>2. /\ r <= Scrollback /\ (Scrollback - (r + 1)) + 1 = Scrollback - r
                /\ Scrollback - r \in 1 .. Scrollback - 1
            BY <2>2, <4>4, <6>1, HubConstants
          <6>3. s[(Scrollback - r) + 1] = filed[i].id
            BY <2>1, <3>3, <3>5, <5>2, <6>2 DEF r
          <6> QED
            BY <4>2, <6>1, <6>2, <6>3
        <5> QED
          BY <3>2, <5>1, <5>2
      <4> QED
        BY <3>2, <3>3, <4>3, <4>4 DEF E
    <3>6. Len(s) \in Nat
      BY <1>2
    <3> QED
      BY <1>2, <3>4, <3>5, <3>6, HubConstants
  <2> QED
    BY <2>4, <2>5
<1>10. Hub!OneConversationPerPeer'
  BY <1>9, HubCounts DEF Hub!OneConversationPerPeer
<1> QED
  BY <1>1, <1>3, <1>5, <1>7, <1>8, <1>10

-----------------------------------------------------------------------------
(* MessageHub: the steps *)

LEMMA HandsKnown ==
  ASSUME HubInv
  PROVE  /\ hubComposed \in 0 .. MaxComposed
         /\ reader.at # "idle" =>
              /\ reader \in [at : BusyAt, msg : Hub!Received]
              /\ reader.msg \in Hub!Received /\ reader.msg.id \in HubIds /\ reader.msg.id <= MaxIds
<1>1. ReaderTyped /\ hubComposed \in 0 .. MaxComposed
  BY DEF HubInv, HubTyped, Hub!TypeOK
<1>2. ASSUME reader.at # "idle"
      PROVE  /\ reader \in [at : BusyAt, msg : Hub!Received]
             /\ reader.msg \in Hub!Received /\ reader.msg.id \in 1 .. MaxIds
  <2>1. reader \in [at : BusyAt, msg : Hub!Received]
    BY <1>1, <1>2 DEF ReaderTyped, Hub!Idle
  <2> QED
    BY <2>1 DEF Hub!Received
<1>3. \A i \in 1 .. MaxIds : i \in HubIds /\ i <= MaxIds
  BY HubConstants DEF HubIds, Hub!Ids
<1> QED
  BY <1>1, <1>2, <1>3

\* The message of a call was composed here and is filed as such.
LEMMA CallKnown ==
  ASSUME HubInv, NEW a, NEW m, Hub!Call(a, m) \in hubUi
  PROVE  /\ m \in Own /\ m.id \in HubIds /\ MaxIds < m.id /\ m.id <= MaxIds + hubComposed
         /\ m \in Taken /\ Hub!ConversationKeyFor(m) \in Peers \cup {Hub!Everyone}
         /\ \A c \in Peers : {m.from, m.to} = {Me, c} <=> Hub!ConversationKeyFor(m) = c
<1>1. CallsTyped
  BY DEF HubInv, HubTyped
<1>2. /\ Hub!Call(a, m) \in [at : BusyAt, msg : Own] /\ Hub!Call(a, m).msg = m
      /\ Hub!Call(a, m).msg.id <= MaxIds + hubComposed
  BY <1>1 DEF CallsTyped, Hub!Call
<1>3. m \in Own /\ m.id <= MaxIds + hubComposed
  BY <1>2
<1>4. m.id \in HubIds /\ MaxIds < m.id /\ m \in Hub!Drafts(m.id)
  BY <1>3, HubConstants DEF Own, HubIds, Hub!Ids, Hub!Drafts
<1>5. m \in Hub!Received \cup Hub!Drafts(m.id)
  BY <1>4
<1> QED
  BY <1>3, <1>4, <1>5, KeyIsPeer

\* A call that moves on keeps its message, and the others are where they were.
LEMMA CallMovesOn ==
  ASSUME HubInv, NEW m, NEW a, NEW b \in {"file", "keep"}, Hub!CallMoves(m, a, b),
         UNCHANGED hubComposed
  PROVE  /\ CallsTyped' /\ Hub!Call(b, m) \in hubUi'
         /\ \A g \in hubUi' : g \in hubUi \/ g = Hub!Call(b, m)
         /\ \A g \in hubUi : g # Hub!Call(a, m) => g \in hubUi' /\ g.msg.id # m.id
         /\ \A g \in hubUi' : g # Hub!Call(b, m) => g.msg.id # m.id
<1>1. /\ hubUi' = (hubUi \ {Hub!Call(a, m)}) \cup {Hub!Call(b, m)} /\ Hub!Call(a, m) \in hubUi
  BY DEF Hub!CallMoves
<1>2. CallsTyped
  BY DEF HubInv, HubTyped
<1>3. Hub!Call(a, m).msg = m /\ Hub!Call(b, m).msg = m
  BY DEF Hub!Call
<1>4. m \in Own /\ m.id <= MaxIds + hubComposed
  BY <1>1, CallKnown
<1>5. Hub!Call(b, m) \in [at : BusyAt, msg : Own]
  BY <1>4 DEF Hub!Call, BusyAt
<1>6. \A g \in hubUi : g # Hub!Call(a, m) => g.msg.id # m.id
  BY <1>1, <1>2, <1>3 DEF CallsTyped
<1>7. CallsTyped'
  <2>1. hubUi' \subseteq [at : BusyAt, msg : Own]
    BY <1>1, <1>2, <1>5 DEF CallsTyped
  <2>2. \A g \in hubUi' : g.msg.id <= MaxIds + hubComposed'
    BY <1>1, <1>2, <1>3, <1>4 DEF CallsTyped
  <2>3. \A g, h \in hubUi' : g.msg.id = h.msg.id => g = h
    BY <1>1, <1>2, <1>3, <1>6 DEF CallsTyped
  <2> QED
    BY <2>1, <2>2, <2>3 DEF CallsTyped
<1> QED
  BY <1>1, <1>6, <1>7

\* The calls are typed, and so is where they are.
LEMMA CallsAt == ASSUME CallsTyped PROVE \A g \in hubUi : g.at \in {"admit", "file", "keep"}
  BY DEF CallsTyped, BusyAt

\* A goroutine moves on with the message in its hands.
LEMMA MovesOn ==
  ASSUME NEW M, NEW g \in [at : BusyAt, msg : M], NEW a \in BusyAt
  PROVE  LET h == [g EXCEPT !.at = a] IN
         h \in [at : BusyAt, msg : M] /\ h.at = a /\ h.msg = g.msg
  OBVIOUS

\* What is kept once stays kept, and this message is.
LEMMA Keeps ==
  ASSUME HubInv, NEW m \in Taken, Hub!Keep(m)
  PROVE  /\ history' \in Seq(HubIds) /\ logged' \subseteq HubIds
         /\ Kept(m)' /\ \A x \in Taken : Kept(x) => Kept(x)'
<1>1. history \in Seq(HubIds) /\ logged \subseteq HubIds /\ m.id \in HubIds
  BY DEF HubInv, HubTyped, Hub!TypeOK, HubIds, Taken
<1>2. CASE Hub!Contains(history, m.id) /\ history' = history /\ logged' = logged
  BY <1>1, <1>2 DEF Kept
<1>3. CASE history' = Append(history, m.id) /\ logged' = logged
  <2>1. /\ Len(history) \in Nat /\ Len(history') = Len(history) + 1
        /\ history'[Len(history) + 1] = m.id /\ history' \in Seq(HubIds)
        /\ \A i \in 1 .. Len(history) : history'[i] = history[i]
    BY <1>1, <1>3
  <2>2. Len(history) + 1 \in 1 .. Len(history')
    BY <2>1
  <2>3. Kept(m)'
    BY <2>1, <2>2 DEF Kept, Hub!Contains
  <2>4. ASSUME NEW x \in Taken, Kept(x) PROVE Kept(x)'
    <3>1. CASE x.id \in logged
      BY <1>3, <3>1 DEF Kept
    <3>2. CASE \E i \in 1 .. Len(history) : history[i] = x.id
      <4>1. PICK i \in 1 .. Len(history) : history[i] = x.id
        BY <3>2
      <4>2. i \in 1 .. Len(history') /\ history'[i] = x.id
        BY <2>1, <4>1
      <4> QED
        BY <4>2 DEF Kept, Hub!Contains
    <3> QED
      BY <2>4, <3>1, <3>2 DEF Kept, Hub!Contains
  <2> QED
    BY <1>1, <1>3, <2>1, <2>3, <2>4
<1>4. CASE logged' = logged \cup {m.id} /\ history' = history
  BY <1>1, <1>4 DEF Kept
<1> QED
  BY <1>2, <1>3, <1>4 DEF Hub!Keep

\* Who does not touch the log leaves the conversations alone.
LEMMA ConversationsStay ==
  ASSUME Hub!OneConversationPerPeer, UNCHANGED <<convs, filed>>
  PROVE  Hub!OneConversationPerPeer'
<1>1. ASSUME NEW c PROVE Hub!Exchanged(c)' = Hub!Exchanged(c)
  BY DEF Hub!Exchanged
<1>2. ASSUME NEW c, NEW i PROVE Hub!Since(c, i)' = Hub!Since(c, i)
  BY <1>1, HubCounts DEF Hub!Since
<1>3. ASSUME NEW c PROVE Hub!Cardinality(Hub!Exchanged(c))' = Hub!Cardinality(Hub!Exchanged(c))
  BY <1>1, HubCounts
<1> QED
  BY <1>1, <1>2, <1>3 DEF Hub!OneConversationPerPeer

LEMMA ReceiveMessageKeeps ==
  ASSUME HubInv, NEW m \in Hub!Received, Hub!Receive(m) PROVE HubInv'
<1>1. /\ reader.at = "idle" /\ reader' = [at |-> "admit", msg |-> m]
      /\ UNCHANGED <<order, seen, head, convs, history, hubUi, hubComposed, admitted, filed, logged,
                     hubCrashes>>
  BY DEF Hub!Receive, Hub!ring, Hub!Busy
<1>2. reader' \in [at : BusyAt, msg : Hub!Received] /\ reader'.at = "admit"
  BY <1>1 DEF BusyAt
<1>3. HubTyped'
  <2>1. ReaderTyped' /\ CallsTyped'
    BY <1>1, <1>2 DEF HubInv, HubTyped, ReaderTyped, CallsTyped
  <2> QED
    BY <1>1, <1>2, <2>1 DEF HubInv, HubTyped, Hub!TypeOK
<1>4. DraftIsNew' /\ RingHoldsLast' /\ SetHoldsLast' /\ LastAreDistinct'
  BY <1>1 DEF HubInv, DraftIsNew, RingHoldsLast, SetHoldsLast, LastAreDistinct
<1>5. Hub!OneConversationPerPeer'
  BY <1>1, ConversationsStay DEF HubInv
<1>6. ShownStays'
  BY <1>1, <1>2 DEF HubInv, ShownStays, Kept, KeepsNext
<1> QED
  BY <1>3, <1>4, <1>5, <1>6 DEF HubInv

LEMMA ReaderAdmitsKeeps == ASSUME HubInv, Hub!ReaderAdmits PROVE HubInv'
<1> DEFINE id == reader.msg.id
<1>1. /\ reader.at = "admit" /\ Hub!First(id)
      /\ id \in seen => reader' = Hub!Idle /\ admitted' = admitted
      /\ id \notin seen =>
           reader' = [reader EXCEPT !.at = "file"] /\ admitted' = Append(admitted, id)
      /\ UNCHANGED <<convs, history, hubUi, hubComposed, filed, logged, hubCrashes>>
  BY DEF Hub!ReaderAdmits, Hub!Busy
<1>2. /\ reader \in [at : BusyAt, msg : Hub!Received] /\ id \in HubIds /\ id <= MaxIds
      /\ hubComposed \in 0 .. MaxComposed
  BY <1>1, HandsKnown
<1>3. /\ ReaderTyped /\ CallsTyped /\ admitted \in Seq(HubIds) /\ RingHoldsLast /\ SetHoldsLast /\ LastAreDistinct
      /\ order \in Seq(HubIds) /\ seen \subseteq HubIds /\ head \in 1 .. Capacity /\ DraftIsNew
  BY DEF HubInv, HubTyped, Hub!TypeOK, HubIds
<1> HIDE DEF id
<1>4. /\ ReaderTyped' /\ reader'.at # "keep" /\ reader'.at \in {"idle", "admit", "file", "keep"}
  <2>1. CASE id \in seen
    <3>1. reader' = Hub!Idle
      BY <1>1, <2>1
    <3> QED
      BY <1>1, <1>3, <3>1 DEF ReaderTyped, Hub!Idle
  <2>2. CASE id \notin seen
    <3>1. "file" \in BusyAt
      BY DEF BusyAt
    <3>2. reader' \in [at : BusyAt, msg : Hub!Received] /\ reader'.at = "file"
      BY <1>1, <1>2, <2>2, <3>1, MovesOn
    <3> QED
      BY <1>1, <1>3, <3>2 DEF ReaderTyped
  <2> QED
    BY <2>1, <2>2
<1>5. /\ admitted' \in Seq(HubIds) /\ RingHoldsLast' /\ SetHoldsLast' /\ LastAreDistinct'
      /\ order' \in Seq(HubIds) /\ seen' \subseteq HubIds /\ head' \in 1 .. Capacity
  <2>1. CASE id \in seen
    <3>1. UNCHANGED <<order, seen, head, admitted>>
      BY <1>1, <2>1 DEF Hub!First, Hub!ring
    <3>2. RingHoldsLast' /\ SetHoldsLast' /\ LastAreDistinct'
      <4>1. RingHoldsLast /\ SetHoldsLast /\ LastAreDistinct
        BY <1>3
      <4> QED
        BY <3>1, <4>1 DEF RingHoldsLast, SetHoldsLast, LastAreDistinct
    <3> QED
      BY <1>3, <3>1, <3>2
  <2>2. CASE id \notin seen
    BY <1>1, <1>2, <1>3, <2>2, Admits, OneMoreAdmitted
  <2> QED
    BY <2>1, <2>2
<1>6. DraftIsNew'
  <2>1. CASE id \in seen
    BY <1>1, <1>3, <2>1 DEF DraftIsNew
  <2>2. CASE id \notin seen
    <3>1. /\ Len(admitted) \in Nat /\ Len(admitted') = Len(admitted) + 1
          /\ \A i \in 1 .. Len(admitted) : admitted'[i] = admitted[i]
          /\ admitted'[Len(admitted) + 1] = id
      BY <1>1, <1>2, <1>3, <2>2, OneMoreAdmitted
    <3>2. id \in Nat /\ id <= MaxIds + hubComposed
      BY <1>2, HubConstants DEF HubIds, Hub!Ids
    <3> QED
      <4>1. \A i \in 1 .. Len(admitted) : admitted[i] <= MaxIds + hubComposed
        BY <1>3 DEF DraftIsNew
      <4>2. \A i \in 1 .. Len(admitted') : admitted'[i] <= MaxIds + hubComposed
        BY <3>1, <3>2, <4>1
      <4>3. ASSUME NEW g \in hubUi, g.at = "admit", NEW i \in 1 .. Len(admitted')
            PROVE  admitted'[i] # g.msg.id
        <5>1. \A k \in 1 .. Len(admitted) : admitted[k] # g.msg.id
          BY <1>3, <4>3 DEF DraftIsNew
        <5>2. id # g.msg.id
          <6>1. g \in [at : BusyAt, msg : Own] /\ g.msg.id \in MaxIds + 1 .. MaxIds + MaxComposed
            BY <1>3 DEF CallsTyped, Own
          <6> QED
            BY <1>2, <3>2, <6>1, HubConstants
        <5> QED
          BY <3>1, <5>1, <5>2
      <4> QED
        BY <1>1, <4>2, <4>3 DEF DraftIsNew
  <2> QED
    BY <2>1, <2>2
<1>7. HubTyped'
  <2>1. Hub!TypeOK'
    BY <1>1, <1>4, <1>5 DEF HubInv, HubTyped, Hub!TypeOK, HubIds
  <2>2. CallsTyped'
    BY <1>1, <1>3 DEF CallsTyped
  <2> QED
    BY <1>1, <1>4, <1>5, <2>1, <2>2 DEF HubInv, HubTyped
<1>8. Hub!OneConversationPerPeer'
  BY <1>1, ConversationsStay DEF HubInv
<1>9. ShownStays'
  BY <1>1 DEF HubInv, ShownStays, Kept, KeepsNext
<1> QED
  BY <1>5, <1>6, <1>7, <1>8, <1>9 DEF HubInv

\* The message of the goroutine that files is the next it keeps; what the others
\* have still to keep they have not lost.
LEMMA FiledIsNext ==
  ASSUME HubInv, NEW m \in Taken, filed' = Append(filed, m),
         UNCHANGED <<history, logged>>,
         \A x : Hub!Call("keep", x) \in hubUi => Hub!Call("keep", x) \in hubUi',
         \/ KeepsNext(reader', m) /\ reader.at # "keep"
         \/ Hub!Call("keep", m) \in hubUi' /\ reader' = reader
  PROVE  ShownStays'
<1>1. filed \in Seq(Taken) /\ ShownStays
  BY DEF HubInv, HubTyped
<1>2. /\ Len(filed) \in Nat /\ Len(filed') = Len(filed) + 1 /\ filed'[Len(filed) + 1] = m
      /\ \A i \in 1 .. Len(filed) : filed'[i] = filed[i]
  BY <1>1
<1> SUFFICES ASSUME NEW i \in 1 .. Len(filed')
             PROVE  \/ Kept(filed[i])' \/ KeepsNext(reader', filed'[i])
                    \/ Hub!Call("keep", filed'[i]) \in hubUi'
  BY DEF ShownStays, Kept, KeepsNext, Hub!Call
<1>3. CASE i = Len(filed) + 1
  BY <1>2, <1>3
<1>4. CASE i \in 1 .. Len(filed)
  <2>1. filed'[i] = filed[i]
    BY <1>2, <1>4
  <2>2. Kept(filed[i]) \/ KeepsNext(reader, filed[i]) \/ Hub!Call("keep", filed[i]) \in hubUi
    BY <1>1, <1>4 DEF ShownStays
  <2> QED
    BY <2>1, <2>2 DEF Kept, KeepsNext
<1> QED
  BY <1>2, <1>3, <1>4

LEMMA ReaderFilesKeeps == ASSUME HubInv, Hub!ReaderFiles PROVE HubInv'
<1> DEFINE m == reader.msg
<1>1. /\ reader.at = "file" /\ Hub!File(m) /\ reader' = [reader EXCEPT !.at = "keep"]
      /\ UNCHANGED <<order, seen, head, history, hubUi, hubComposed, admitted, logged, hubCrashes>>
  BY DEF Hub!ReaderFiles, Hub!ring, Hub!Busy
<1>2. reader \in [at : BusyAt, msg : Hub!Received] /\ m \in Hub!Received /\ m.id \in HubIds
  BY <1>1, HandsKnown
<1>3. reader' \in [at : BusyAt, msg : Hub!Received] /\ KeepsNext(reader', m)
  <2>1. "keep" \in BusyAt
    BY DEF BusyAt
  <2> QED
    BY <1>1, <1>2, <2>1, MovesOn DEF KeepsNext
<1>4. /\ m \in Taken /\ Hub!ConversationKeyFor(m) \in Peers \cup {Hub!Everyone}
      /\ \A c \in Peers : {m.from, m.to} = {Me, c} <=> Hub!ConversationKeyFor(m) = c
  BY <1>2, KeyIsPeer
<1> HIDE DEF m
<1>5. /\ DOMAIN convs' = Peers \cup {Hub!Everyone}
      /\ \A c \in DOMAIN convs' : convs'[c] \in Seq(HubIds) /\ Len(convs'[c]) <= Scrollback
      /\ filed' \in Seq(Taken) /\ filed' = Append(filed, m)
      /\ Hub!OneConversationPerPeer'
  BY <1>1, <1>4, Files
<1>6. HubTyped'
  <2>1. ReaderTyped' /\ CallsTyped' /\ reader'.at \in {"idle", "admit", "file", "keep"}
    BY <1>1, <1>3 DEF HubInv, HubTyped, ReaderTyped, CallsTyped, BusyAt
  <2>2. Hub!TypeOK'
    BY <1>1, <1>5, <2>1 DEF HubInv, HubTyped, Hub!TypeOK, HubIds
  <2> QED
    BY <1>1, <1>5, <2>1, <2>2 DEF HubInv, HubTyped
<1>7. DraftIsNew' /\ RingHoldsLast' /\ SetHoldsLast' /\ LastAreDistinct'
  BY <1>1 DEF HubInv, DraftIsNew, RingHoldsLast, SetHoldsLast, LastAreDistinct
<1>8. ShownStays'
  BY <1>1, <1>3, <1>4, <1>5, FiledIsNext
<1> QED
  BY <1>5, <1>6, <1>7, <1>8 DEF HubInv

\* The goroutine that has kept its message lets go of it.
LEMMA KeptStays ==
  ASSUME HubInv, NEW m \in Taken, Hub!Keep(m), UNCHANGED filed,
         \A x : Hub!Call("keep", x) \in hubUi /\ x # m => Hub!Call("keep", x) \in hubUi',
         KeepsNext(reader, m) \/ reader' = reader
  PROVE  ShownStays'
<1>1. filed \in Seq(Taken) /\ ShownStays
  BY DEF HubInv, HubTyped
<1>2. Kept(m)' /\ \A x \in Taken : Kept(x) => Kept(x)'
  BY Keeps
<1> SUFFICES ASSUME NEW i \in 1 .. Len(filed)
             PROVE  \/ Kept(filed[i])' \/ KeepsNext(reader', filed[i])
                    \/ Hub!Call("keep", filed[i]) \in hubUi'
  BY DEF ShownStays, Kept, KeepsNext, Hub!Call
<1>3. filed[i] \in Taken
  BY <1>1
<1>4. Kept(filed[i]) \/ KeepsNext(reader, filed[i]) \/ Hub!Call("keep", filed[i]) \in hubUi
  BY <1>1 DEF ShownStays
<1>5. CASE filed[i] = m
  <2>1. filed'[i] = m
    BY <1>5
  <2> QED
    BY <1>2, <1>5, <2>1 DEF Kept
<1>6. CASE filed[i] # m
  <2>1. CASE Kept(filed[i])
    <3>1. PICK x \in Taken : x = filed[i] /\ x = filed'[i]
      BY <1>3
    <3>2. Kept(x)'
      BY <1>2, <2>1, <3>1
    <3> QED
      BY <3>1, <3>2 DEF Kept
  <2>2. CASE KeepsNext(reader, filed[i])
    BY <1>6, <2>2 DEF KeepsNext
  <2>3. CASE Hub!Call("keep", filed[i]) \in hubUi
    BY <1>6, <2>3
  <2> QED
    BY <1>4, <2>1, <2>2, <2>3
<1> QED
  BY <1>5, <1>6

LEMMA ReaderKeepsKeeps == ASSUME HubInv, Hub!ReaderKeeps PROVE HubInv'
<1> DEFINE m == reader.msg
<1>1. /\ reader.at = "keep" /\ Hub!Keep(m) /\ reader' = Hub!Idle
      /\ UNCHANGED <<order, seen, head, convs, hubUi, hubComposed, admitted, filed, hubCrashes>>
  BY DEF Hub!ReaderKeeps, Hub!ring, Hub!Busy
<1>2. m \in Hub!Received /\ m.id \in HubIds
  BY <1>1, HandsKnown
<1>3. m \in Taken /\ KeepsNext(reader, m)
  BY <1>1, <1>2, KeyIsPeer DEF KeepsNext
<1> HIDE DEF m
<1>4. history' \in Seq(HubIds) /\ logged' \subseteq HubIds
  BY <1>1, <1>3, Keeps
<1>5. HubTyped'
  <2>1. ReaderTyped' /\ CallsTyped' /\ reader'.at = "idle"
    BY <1>1 DEF HubInv, HubTyped, ReaderTyped, CallsTyped, Hub!Idle
  <2>2. Hub!TypeOK'
    BY <1>1, <1>4, <2>1 DEF HubInv, HubTyped, Hub!TypeOK, HubIds
  <2> QED
    BY <1>1, <2>1, <2>2 DEF HubInv, HubTyped
<1>6. DraftIsNew' /\ RingHoldsLast' /\ SetHoldsLast' /\ LastAreDistinct'
  BY <1>1 DEF HubInv, DraftIsNew, RingHoldsLast, SetHoldsLast, LastAreDistinct
<1>7. Hub!OneConversationPerPeer'
  BY <1>1, ConversationsStay DEF HubInv
<1>8. ShownStays'
  BY <1>1, <1>3, KeptStays
<1> QED
  BY <1>5, <1>6, <1>7, <1>8 DEF HubInv

\* A draft gets an id above all others.
LEMMA ComposeKeeps ==
  ASSUME HubInv, NEW m, m \in Hub!Drafts(MaxIds + hubComposed + 1), Hub!Compose(m) PROVE HubInv'
<1> DEFINE new == Hub!Call("admit", m)
<1>1. /\ hubComposed < MaxComposed /\ hubComposed' = hubComposed + 1
      /\ hubUi' = hubUi \cup {new}
      /\ UNCHANGED <<order, seen, head, convs, history, reader, admitted, filed, logged, hubCrashes>>
  BY DEF Hub!Compose, Hub!ring
<1>2. /\ hubComposed \in 0 .. MaxComposed /\ admitted \in Seq(HubIds) /\ DraftIsNew
      /\ ReaderTyped /\ CallsTyped /\ ShownStays
  BY DEF HubInv, HubTyped, Hub!TypeOK
<1>3. /\ hubComposed' \in 0 .. MaxComposed
      /\ MaxIds + hubComposed + 1 = MaxIds + hubComposed' /\ MaxIds + hubComposed < MaxIds + hubComposed'
      /\ MaxIds + hubComposed' \in MaxIds + 1 .. MaxIds + MaxComposed
  BY <1>1, <1>2, HubConstants
<1>4. m.id = MaxIds + hubComposed' /\ m \in Own
  BY <1>3 DEF Hub!Drafts, Own
<1>5. new \in [at : BusyAt, msg : Own] /\ new.msg = m
  BY <1>4 DEF BusyAt, Hub!Call
<1> HIDE DEF new
<1>6. \A g \in hubUi : g.msg.id \in Nat /\ g.msg.id <= MaxIds + hubComposed
  <2>1. \A g \in hubUi : g.msg.id \in MaxIds + 1 .. MaxIds + MaxComposed
    BY <1>2 DEF CallsTyped, Own
  <2> QED
    BY <1>2, <2>1, HubConstants DEF CallsTyped
<1>7. \A g \in hubUi : g.msg.id <= MaxIds + hubComposed' /\ g.msg.id # m.id
  BY <1>1, <1>2, <1>4, <1>6, HubConstants
<1>8. CallsTyped'
  <2>1. hubUi' \subseteq [at : BusyAt, msg : Own]
    BY <1>1, <1>2, <1>5 DEF CallsTyped
  <2>2. m.id <= MaxIds + hubComposed'
    <3>1. MaxIds \in Nat /\ hubComposed \in Nat
      BY <1>2, HubConstants
    <3>2. MaxIds + hubComposed' \in Nat
      BY <1>1, <3>1
    <3> QED
      BY <1>4, <3>2
  <2>3. \A g \in hubUi' : g.msg.id <= MaxIds + hubComposed'
    BY <1>1, <1>5, <1>7, <2>2
  <2>4. \A g, h \in hubUi' : g.msg.id = h.msg.id => g = h
    BY <1>1, <1>2, <1>5, <1>7 DEF CallsTyped
  <2> QED
    BY <2>1, <2>3, <2>4 DEF CallsTyped
<1>9. HubTyped'
  <2>1. ReaderTyped'
    BY <1>1, <1>2 DEF ReaderTyped
  <2>2. \A g \in hubUi' : g.at \in {"admit", "file", "keep"}
    BY <1>8 DEF CallsTyped, BusyAt
  <2>3. Hub!TypeOK'
    BY <1>1, <1>3, <2>2 DEF HubInv, HubTyped, Hub!TypeOK
  <2> QED
    BY <1>1, <1>8, <2>1, <2>3 DEF HubInv, HubTyped
<1>10. DraftIsNew'
  <2>1. \A i \in 1 .. Len(admitted) : admitted[i] \in Nat /\ admitted[i] <= MaxIds + hubComposed
    <3>1. \A i \in 1 .. Len(admitted) : admitted[i] \in HubIds
      BY <1>2
    <3> QED
      BY <1>2, <3>1, HubConstants DEF HubIds, Hub!Ids, DraftIsNew
  <2>2. \A i \in 1 .. Len(admitted) :
          admitted[i] <= MaxIds + hubComposed' /\ admitted[i] # m.id
    BY <1>1, <1>2, <1>4, <2>1, HubConstants
  <2>3. \A g \in hubUi' : g \in hubUi \/ g.msg.id = m.id
    BY <1>1, <1>5
  <2> QED
    BY <1>1, <1>2, <2>2, <2>3 DEF DraftIsNew
<1>11. RingHoldsLast' /\ SetHoldsLast' /\ LastAreDistinct'
  BY <1>1 DEF HubInv, RingHoldsLast, SetHoldsLast, LastAreDistinct
<1>12. Hub!OneConversationPerPeer'
  BY <1>1, ConversationsStay DEF HubInv
<1>13. ShownStays'
  BY <1>1, <1>2 DEF ShownStays, Kept, KeepsNext, Hub!Call
<1> QED
  BY <1>9, <1>10, <1>11, <1>12, <1>13 DEF HubInv

LEMMA UIAdmitsKeeps == ASSUME HubInv, NEW m, Hub!UIAdmits(m) PROVE HubInv'
<1> DEFINE id == m.id
<1>1. /\ Hub!CallMoves(m, "admit", "file") /\ Hub!Call("admit", m) \in hubUi
      /\ Hub!First(id) /\ admitted' = Append(admitted, id)
      /\ UNCHANGED <<convs, history, reader, hubComposed, filed, logged, hubCrashes>>
  BY DEF Hub!UIAdmits, Hub!CallMoves
<1>2. /\ id \in HubIds /\ id <= MaxIds + hubComposed /\ Hub!Call("admit", m).at = "admit"
      /\ Hub!Call("admit", m).msg = m /\ Hub!Call("file", m).at = "file"
  BY <1>1, CallKnown DEF Hub!Call
<1>3. ReaderTyped /\ admitted \in Seq(HubIds) /\ SetHoldsLast /\ DraftIsNew /\ ShownStays
  BY DEF HubInv, HubTyped
<1>4. id \notin seen
  BY <1>1, <1>2, <1>3 DEF SetHoldsLast, DraftIsNew
<1> HIDE DEF id
<1>5. /\ CallsTyped'
      /\ \A g \in hubUi' : g \in hubUi \/ g = Hub!Call("file", m)
      /\ \A g \in hubUi : g # Hub!Call("admit", m) => g \in hubUi'
      /\ \A g \in hubUi' : g # Hub!Call("file", m) => g.msg.id # id
  BY <1>1, CallMovesOn DEF id
<1>6. /\ RingHoldsLast' /\ SetHoldsLast' /\ LastAreDistinct'
      /\ order' \in Seq(HubIds) /\ seen' \subseteq HubIds /\ head' \in 1 .. Capacity
  BY <1>1, <1>2, <1>4, Admits
<1>7. /\ admitted' \in Seq(HubIds) /\ Len(admitted) \in Nat /\ Len(admitted') = Len(admitted) + 1
      /\ \A i \in 1 .. Len(admitted) : admitted'[i] = admitted[i]
      /\ admitted'[Len(admitted) + 1] = id
  BY <1>1, <1>2, <1>3, OneMoreAdmitted
<1>8. HubTyped'
  <2>1. ReaderTyped' /\ \A g \in hubUi' : g.at \in {"admit", "file", "keep"}
    BY <1>1, <1>3, <1>5 DEF ReaderTyped, CallsTyped, BusyAt
  <2>2. Hub!TypeOK'
    BY <1>1, <1>6, <2>1 DEF HubInv, HubTyped, Hub!TypeOK, HubIds
  <2> QED
    BY <1>1, <1>5, <1>7, <2>1, <2>2 DEF HubInv, HubTyped
<1>9. DraftIsNew'
  <2>1. \A i \in 1 .. Len(admitted) : admitted[i] <= MaxIds + hubComposed
    BY <1>3 DEF DraftIsNew
  <2>2. \A i \in 1 .. Len(admitted') : admitted'[i] <= MaxIds + hubComposed
    BY <1>2, <1>7, <2>1
  <2>3. ASSUME NEW g \in hubUi', g.at = "admit", NEW i \in 1 .. Len(admitted')
        PROVE  admitted'[i] # g.msg.id
    <3>1. g \in hubUi /\ g.msg.id # id
      BY <1>2, <1>5, <2>3
    <3>2. \A k \in 1 .. Len(admitted) : admitted[k] # g.msg.id
      BY <1>3, <2>3, <3>1 DEF DraftIsNew
    <3> QED
      BY <1>7, <3>1, <3>2
  <2> QED
    BY <1>1, <2>2, <2>3 DEF DraftIsNew
<1>10. Hub!OneConversationPerPeer'
  BY <1>1, ConversationsStay DEF HubInv
<1>11. ShownStays'
  <2>1. \A x : Hub!Call("keep", x) \in hubUi => Hub!Call("keep", x) \in hubUi'
    <3>1. \A x : Hub!Call("keep", x) # Hub!Call("admit", m)
      BY DEF Hub!Call
    <3> QED
      BY <1>5, <3>1
  <2> QED
    BY <1>1, <1>3, <2>1 DEF ShownStays, Kept, KeepsNext, Hub!Call
<1> QED
  BY <1>6, <1>8, <1>9, <1>10, <1>11 DEF HubInv

LEMMA UIFilesKeeps == ASSUME HubInv, NEW m, Hub!UIFiles(m) PROVE HubInv'
<1>1. /\ Hub!CallMoves(m, "file", "keep") /\ Hub!Call("file", m) \in hubUi /\ Hub!File(m)
      /\ UNCHANGED <<order, seen, head, history, reader, hubComposed, admitted, logged, hubCrashes>>
  BY DEF Hub!UIFiles, Hub!CallMoves, Hub!ring
<1>2. /\ m \in Taken /\ Hub!ConversationKeyFor(m) \in Peers \cup {Hub!Everyone}
      /\ \A c \in Peers : {m.from, m.to} = {Me, c} <=> Hub!ConversationKeyFor(m) = c
  BY <1>1, CallKnown
<1>3. /\ CallsTyped' /\ Hub!Call("keep", m) \in hubUi'
      /\ \A g \in hubUi' : g \in hubUi \/ g = Hub!Call("keep", m)
      /\ \A g \in hubUi : g # Hub!Call("file", m) => g \in hubUi'
  BY <1>1, CallMovesOn
<1>4. Hub!Call("keep", m).at = "keep" /\ \A x : Hub!Call("keep", x) # Hub!Call("file", m)
  BY DEF Hub!Call
<1>5. /\ DOMAIN convs' = Peers \cup {Hub!Everyone}
      /\ \A c \in DOMAIN convs' : convs'[c] \in Seq(HubIds) /\ Len(convs'[c]) <= Scrollback
      /\ filed' \in Seq(Taken) /\ filed' = Append(filed, m)
      /\ Hub!OneConversationPerPeer'
  BY <1>1, <1>2, Files
<1>6. HubTyped'
  <2>1. ReaderTyped' /\ \A g \in hubUi' : g.at \in {"admit", "file", "keep"}
    BY <1>1, <1>3 DEF HubInv, HubTyped, ReaderTyped, CallsTyped, BusyAt
  <2>2. Hub!TypeOK'
    BY <1>1, <1>5, <2>1 DEF HubInv, HubTyped, Hub!TypeOK, HubIds
  <2> QED
    BY <1>1, <1>3, <1>5, <2>1, <2>2 DEF HubInv, HubTyped
<1>7. DraftIsNew'
  <2>1. \A g \in hubUi' : g.at = "admit" => g \in hubUi
    BY <1>3, <1>4
  <2> QED
    BY <1>1, <2>1 DEF HubInv, DraftIsNew
<1>8. RingHoldsLast' /\ SetHoldsLast' /\ LastAreDistinct'
  BY <1>1 DEF HubInv, RingHoldsLast, SetHoldsLast, LastAreDistinct
<1>9. ShownStays'
  BY <1>1, <1>2, <1>3, <1>4, <1>5, FiledIsNext
<1> QED
  BY <1>5, <1>6, <1>7, <1>8, <1>9 DEF HubInv

LEMMA UIKeepsKeeps == ASSUME HubInv, NEW m, Hub!UIKeeps(m) PROVE HubInv'
<1>1. /\ Hub!Call("keep", m) \in hubUi /\ Hub!Keep(m) /\ hubUi' = hubUi \ {Hub!Call("keep", m)}
      /\ UNCHANGED <<order, seen, head, convs, reader, hubComposed, admitted, filed, hubCrashes>>
  BY DEF Hub!UIKeeps, Hub!ring
<1>2. m \in Taken
  BY <1>1, CallKnown
<1>3. \A x : Hub!Call("keep", x) \in hubUi /\ x # m => Hub!Call("keep", x) \in hubUi'
  <2>1. \A x : x # m => Hub!Call("keep", x) # Hub!Call("keep", m)
    BY DEF Hub!Call
  <2> QED
    BY <1>1, <2>1
<1>4. history' \in Seq(HubIds) /\ logged' \subseteq HubIds
  BY <1>1, <1>2, Keeps
<1>5. ReaderTyped' /\ CallsTyped' /\ \A g \in hubUi' : g.at \in {"admit", "file", "keep"}
  <2>1. ReaderTyped /\ CallsTyped
    BY DEF HubInv, HubTyped
  <2> QED
    BY <1>1, <2>1, CallsAt DEF ReaderTyped, CallsTyped
<1>6. HubTyped'
  <2>1. Hub!TypeOK'
    BY <1>1, <1>4, <1>5 DEF HubInv, HubTyped, Hub!TypeOK, HubIds
  <2> QED
    BY <1>1, <1>5, <2>1 DEF HubInv, HubTyped
<1>7. DraftIsNew' /\ RingHoldsLast' /\ SetHoldsLast' /\ LastAreDistinct'
  BY <1>1 DEF HubInv, DraftIsNew, RingHoldsLast, SetHoldsLast, LastAreDistinct
<1>8. Hub!OneConversationPerPeer'
  BY <1>1, ConversationsStay DEF HubInv
<1>9. ShownStays'
  BY <1>1, <1>2, <1>3, KeptStays
<1> QED
  BY <1>6, <1>7, <1>8, <1>9 DEF HubInv

\* Nothing is admitted, filed or in hand in a process that starts.
LEMMA FreshProcess ==
  ASSUME order' = Hub!Fresh.order, seen' = Hub!Fresh.seen, head' = Hub!Fresh.head,
         convs' = Hub!Fresh.convs, reader' = Hub!Idle, hubUi' = {},
         admitted' = <<>>, filed' = <<>>,
         history' \in Seq(HubIds), hubComposed' \in 0 .. MaxComposed, logged' \subseteq HubIds,
         hubCrashes' \in 0 .. MaxFailures
  PROVE  HubInv'
<1>1. /\ order' = <<>> /\ seen' = {} /\ head' = 1
      /\ convs' = [c \in Peers \cup {Hub!Everyone} |-> <<>>]
  BY DEF Hub!Fresh
<1>2. reader'.at = "idle"
  BY DEF Hub!Idle
<1>3. /\ order' \in Seq(HubIds) /\ admitted' \in Seq(HubIds) /\ filed' \in Seq(Taken)
      /\ Len(admitted') = 0 /\ Len(filed') = 0
  BY <1>1
<1>4. /\ DOMAIN convs' = Peers \cup {Hub!Everyone}
      /\ \A c \in DOMAIN convs' : convs'[c] = <<>> /\ convs'[c] \in Seq(HubIds) /\ Len(convs'[c]) = 0
  BY <1>1
<1>5. HubTyped'
  <2>1. ReaderTyped' /\ CallsTyped'
    BY DEF ReaderTyped, CallsTyped
  <2>2. Hub!TypeOK'
    BY <1>1, <1>2, <1>3, <1>4, HubConstants DEF Hub!TypeOK, HubIds
  <2> QED
    BY <1>3, <1>4, <2>1, <2>2, HubConstants DEF HubTyped
<1>6. DraftIsNew' /\ SetHoldsLast' /\ LastAreDistinct' /\ ShownStays'
  BY <1>1, <1>3 DEF DraftIsNew, SetHoldsLast, LastAreDistinct, ShownStays
<1>7. RingHoldsLast'
  BY <1>1, <1>3, HubConstants DEF RingHoldsLast
<1>8. Hub!OneConversationPerPeer'
  <2>1. ASSUME NEW c PROVE Hub!Exchanged(c)' = {}
    BY DEF Hub!Exchanged
  <2>2. ASSUME NEW c PROVE Hub!Cardinality(Hub!Exchanged(c))' = 0
    BY <2>1, HubCounts, FS_EmptySet
  <2> QED
    BY <1>4, <2>1, <2>2, HubConstants DEF Hub!OneConversationPerPeer
<1> QED
  BY <1>5, <1>6, <1>7, <1>8 DEF HubInv

LEMMA CrashKeeps == ASSUME HubInv, Hub!Crash PROVE HubInv'
<1>1. /\ history \in Seq(HubIds) /\ logged \subseteq HubIds /\ hubCrashes \in 0 .. MaxFailures
      /\ hubComposed \in 0 .. MaxComposed
  BY DEF HubInv, HubTyped, Hub!TypeOK, HubIds
<1>2. Cardinality(logged) \in Nat
  <2>1. IsFiniteSet(HubIds)
    BY HubConstants, FS_Interval DEF HubIds, Hub!Ids
  <2> QED
    BY <1>1, <2>1, FS_Subset, FS_CardinalityType
<1>3. hubCrashes' \in 0 .. MaxFailures
  BY <1>1, <1>2, HubCounts, HubConstants DEF Hub!Crash
<1>4. /\ order' = Hub!Fresh.order /\ seen' = Hub!Fresh.seen /\ head' = Hub!Fresh.head
      /\ convs' = Hub!Fresh.convs /\ reader' = Hub!Idle /\ hubUi' = {}
      /\ admitted' = <<>> /\ filed' = <<>>
      /\ UNCHANGED <<history, hubComposed, logged>>
  BY DEF Hub!Crash
<1> QED
  BY <1>1, <1>3, <1>4, FreshProcess

LEMMA HubInit == ASSUME Hub!Init PROVE HubInv
<1>1. /\ order = <<>> /\ seen = {} /\ head = 1
      /\ convs = [c \in Peers \cup {Hub!Everyone} |-> <<>>]
      /\ history = <<>> /\ reader = Hub!Idle /\ hubUi = {}
      /\ hubComposed = 0 /\ admitted = <<>> /\ filed = <<>> /\ logged = {} /\ hubCrashes = 0
  BY DEF Hub!Init, Hub!Fresh
<1>2. reader.at = "idle"
  BY <1>1 DEF Hub!Idle
<1>3. /\ order \in Seq(HubIds) /\ admitted \in Seq(HubIds) /\ filed \in Seq(Taken)
      /\ history \in Seq(HubIds) /\ Len(admitted) = 0 /\ Len(filed) = 0
  BY <1>1
<1>4. /\ DOMAIN convs = Peers \cup {Hub!Everyone}
      /\ \A c \in DOMAIN convs : convs[c] = <<>> /\ convs[c] \in Seq(HubIds) /\ Len(convs[c]) = 0
  BY <1>1
<1>5. HubTyped
  <2>1. ReaderTyped /\ CallsTyped
    BY <1>1 DEF ReaderTyped, CallsTyped
  <2>2. Hub!TypeOK
    BY <1>1, <1>2, <1>3, <1>4, HubConstants DEF Hub!TypeOK, HubIds
  <2> QED
    BY <1>3, <1>4, <2>1, <2>2, HubConstants DEF HubTyped
<1>6. DraftIsNew /\ SetHoldsLast /\ LastAreDistinct /\ ShownStays
  BY <1>1, <1>3 DEF DraftIsNew, SetHoldsLast, LastAreDistinct, ShownStays
<1>7. RingHoldsLast
  BY <1>1, <1>3, HubConstants DEF RingHoldsLast
<1>8. Hub!OneConversationPerPeer
  <2>1. ASSUME NEW c PROVE Hub!Exchanged(c) = {}
    BY <1>1 DEF Hub!Exchanged
  <2>2. ASSUME NEW c PROVE Hub!Cardinality(Hub!Exchanged(c)) = 0
    BY <2>1, HubCounts, FS_EmptySet
  <2> QED
    BY <1>4, <2>1, <2>2, HubConstants DEF Hub!OneConversationPerPeer
<1> QED
  BY <1>5, <1>6, <1>7, <1>8 DEF HubInv

LEMMA HubStepKeeps == HubInv /\ [Hub!Next]_(Hub!vars) => HubInv'
<1> SUFFICES ASSUME HubInv, [Hub!Next]_(Hub!vars) PROVE HubInv'
  OBVIOUS
<1>1. ASSUME NEW m \in Hub!Received, Hub!Receive(m) PROVE HubInv'
  BY <1>1, ReceiveMessageKeeps
<1>2. CASE Hub!ReaderAdmits \/ Hub!ReaderFiles \/ Hub!ReaderKeeps
  BY <1>2, ReaderAdmitsKeeps, ReaderFilesKeeps, ReaderKeepsKeeps
<1>3. ASSUME NEW m \in Hub!Drafts(MaxIds + hubComposed + 1), Hub!Compose(m) PROVE HubInv'
  BY <1>3, ComposeKeeps
<1>4. ASSUME NEW g \in hubUi, Hub!UIAdmits(g.msg) \/ Hub!UIFiles(g.msg) \/ Hub!UIKeeps(g.msg)
      PROVE  HubInv'
  BY <1>4, UIAdmitsKeeps, UIFilesKeeps, UIKeepsKeeps
<1>5. CASE Hub!Crash
  BY <1>5, CrashKeeps
<1>6. CASE UNCHANGED Hub!vars
  <2>1. UNCHANGED <<order, seen, head, convs, history, reader, hubUi, hubComposed, admitted, filed,
                    logged, hubCrashes>>
    BY <1>6 DEF Hub!vars, Hub!ring
  <2>2. HubTyped'
    BY <2>1 DEF HubInv, HubTyped, Hub!TypeOK, ReaderTyped, CallsTyped
  <2>3. DraftIsNew' /\ RingHoldsLast' /\ SetHoldsLast' /\ LastAreDistinct'
    BY <2>1 DEF HubInv, DraftIsNew, RingHoldsLast, SetHoldsLast, LastAreDistinct
  <2>4. Hub!OneConversationPerPeer'
    BY <2>1, ConversationsStay DEF HubInv
  <2>5. ShownStays'
    BY <2>1 DEF HubInv, ShownStays, Kept, KeepsNext
  <2> QED
    BY <2>2, <2>3, <2>4, <2>5 DEF HubInv
<1> QED
  BY <1>1, <1>2, <1>3, <1>4, <1>5, <1>6 DEF Hub!Next

LEMMA HubHolds == Hub!Spec => []HubInv
  BY HubInit, HubStepKeeps, PTL DEF Hub!Spec

\* Consecutive admissions, at most Capacity of them, are as many ids.
LEMMA DistinctRun ==
  ASSUME HubInv, NEW a \in Nat, NEW k \in Nat, k <= Capacity, a + k <= Len(admitted)
  PROVE  /\ IsFiniteSet({admitted[i] : i \in a + 1 .. a + k})
         /\ Cardinality({admitted[i] : i \in a + 1 .. a + k}) = k
<1> DEFINE S == a + 1 .. a + k
           T == {admitted[i] : i \in S}
           f == [i \in S |-> admitted[i]]
<1>1. LastAreDistinct /\ admitted \in Seq(HubIds) /\ Len(admitted) \in Nat
  BY DEF HubInv, HubTyped
<1>2. IsFiniteSet(S) /\ Cardinality(S) = k
  <2>1. a + k - (a + 1) + 1 = k
    OBVIOUS
  <2>2. a + 1 > a + k <=> k = 0
    OBVIOUS
  <2> QED
    BY <2>1, <2>2, FS_Interval
<1>3. \A i, j \in S : i # j => admitted[i] # admitted[j]
  <2>1. ASSUME NEW i \in S, NEW j \in S, i < j PROVE admitted[i] # admitted[j]
    <3>1. i \in 1 .. Len(admitted) /\ j \in 1 .. Len(admitted) /\ j <= i + Capacity
      BY <1>1, <2>1, HubConstants
    <3> QED
      BY <1>1, <2>1, <3>1 DEF LastAreDistinct
  <2>2. \A i, j \in S : i # j => i < j \/ j < i
    OBVIOUS
  <2> QED
    BY <2>1, <2>2
<1> HIDE DEF S
<1>4. f \in Bijection(S, T)
  BY <1>3 DEF Bijection, Injection, Surjection, IsInjective
<1>5. ExistsBijection(S, T)
  BY <1>4 DEF ExistsBijection
<1> QED
  BY <1>2, <1>5, FS_Bijection DEF S

\* The last ids are a run of admissions.
LEMMA SeenIsRun ==
  ASSUME HubInv
  PROVE  /\ Len(admitted) \in Nat
         /\ Len(admitted) < Capacity => seen = {admitted[i] : i \in 1 .. Len(admitted)}
         /\ Len(admitted) >= Capacity =>
              seen = {admitted[i] : i \in (Len(admitted) - Capacity) + 1 .. Len(admitted)}
<1> DEFINE n == Len(admitted)
           W == {k \in 1 .. n : k + Capacity > n}
<1>1. SetHoldsLast /\ n \in Nat
  BY DEF HubInv, HubTyped
<1>2. seen = {admitted[i] : i \in W}
  BY <1>1 DEF SetHoldsLast
<1>3. /\ n < Capacity => W = 1 .. n
      /\ n >= Capacity => W = (n - Capacity) + 1 .. n
  BY <1>1, HubConstants
<1> QED
  BY <1>1, <1>2, <1>3

\* Ring and set are in lockstep, and the set is the window.
LEMMA LockstepHolds == ASSUME HubInv PROVE Hub!RingLockstep /\ Hub!RingIsWindow
<1> DEFINE n == Len(admitted)
<1>1. /\ RingHoldsLast /\ admitted \in Seq(HubIds) /\ order \in Seq(HubIds)
      /\ head \in 1 .. Capacity
  BY DEF HubInv, HubTyped, Hub!TypeOK, HubIds
<1>2. /\ n \in Nat
      /\ n < Capacity => seen = {admitted[i] : i \in 1 .. n}
      /\ n >= Capacity => seen = {admitted[i] : i \in (n - Capacity) + 1 .. n}
  BY SeenIsRun
<1>3. /\ DOMAIN admitted = 1 .. n /\ DOMAIN order = 1 .. Len(order)
  BY <1>1
<1>4. CASE n < Capacity
  <2>1. order = admitted /\ head = 1
    BY <1>1, <1>4 DEF RingHoldsLast
  <2>2. Hub!ToSet(admitted) = seen
    BY <1>2, <1>3, <1>4 DEF Hub!ToSet
  <2>3. Cardinality(seen) = n
    <3>1. Cardinality({admitted[i] : i \in 0 + 1 .. 0 + n}) = n
      <4>1. 0 \in Nat /\ n \in Nat /\ n <= Capacity /\ 0 + n <= Len(admitted)
        BY <1>2, <1>4, HubConstants
      <4> HIDE DEF n
      <4> QED
        BY <4>1, DistinctRun
    <3>2. 0 + 1 .. 0 + n = 1 .. n
      BY <1>2
    <3> QED
      BY <1>2, <1>4, <3>1, <3>2
  <2>4. Hub!Newest(Capacity, admitted) = admitted
    BY <1>2, <1>4, HubConstants DEF Hub!Newest
  <2>5. Hub!RingIsWindow
    BY <2>2, <2>4 DEF Hub!RingIsWindow
  <2>6. Hub!RingLockstep
    BY <1>2, <1>4, <2>1, <2>2, <2>3, HubCounts, HubConstants DEF Hub!RingLockstep
  <2> QED
    BY <2>5, <2>6
<1>5. CASE n >= Capacity
  <2> DEFINE a == n - Capacity
  <2>1. /\ Len(order) = Capacity
        /\ \A i \in head .. Capacity : order[i] = admitted[a + ((i - head) + 1)]
        /\ \A i \in 1 .. head - 1 : order[i] = admitted[(n - head) + (i + 1)]
    BY <1>1, <1>2, <1>5, HubConstants DEF RingHoldsLast
  <2>2. a \in Nat /\ a + Capacity = n
    BY <1>2, <1>5, HubConstants
  <2>3. seen = {admitted[i] : i \in a + 1 .. n}
    BY <1>2, <1>5
  <2> HIDE DEF a
  <2>4. Cardinality(seen) = Capacity
    <3>1. Cardinality({admitted[i] : i \in a + 1 .. a + Capacity}) = Capacity
      <4>1. Capacity <= Capacity /\ a + Capacity <= Len(admitted)
        BY <1>2, <2>2, HubConstants
      <4> QED
        BY <2>2, <4>1, DistinctRun, HubConstants
    <3> QED
      BY <2>2, <2>3, <3>1
  <2>5. Hub!ToSet(order) = seen
    <3>1. ASSUME NEW i \in 1 .. Capacity PROVE order[i] \in seen
      <4>1. CASE i >= head
        <5>1. i \in head .. Capacity /\ a + ((i - head) + 1) \in a + 1 .. n
          BY <1>1, <1>2, <2>2, <4>1, HubConstants
        <5> QED
          BY <2>1, <2>3, <5>1
      <4>2. CASE i < head
        <5>1. i \in 1 .. head - 1 /\ (n - head) + (i + 1) \in a + 1 .. n
          BY <1>1, <1>2, <2>2, <4>2, HubConstants
        <5> QED
          BY <2>1, <2>3, <5>1
      <4> QED
        BY <1>1, <4>1, <4>2, HubConstants
    <3>2. ASSUME NEW j \in a + 1 .. n PROVE \E i \in 1 .. Capacity : admitted[j] = order[i]
      <4>1. CASE j - a <= (Capacity - head) + 1
        <5> DEFINE i == (head + (j - a)) - 1
        <5>1. i \in head .. Capacity /\ i \in 1 .. Capacity /\ a + ((i - head) + 1) = j
          BY <1>1, <1>2, <2>2, <4>1, HubConstants
        <5> HIDE DEF i
        <5>2. order[i] = admitted[j]
          BY <2>1, <5>1
        <5> QED
          BY <5>1, <5>2
      <4>2. CASE j - a > (Capacity - head) + 1
        <5> DEFINE i == (j - a) - ((Capacity - head) + 1)
        <5>1. i \in 1 .. head - 1 /\ i \in 1 .. Capacity /\ (n - head) + (i + 1) = j
          BY <1>1, <1>2, <2>2, <4>2, HubConstants
        <5> HIDE DEF i
        <5>2. order[i] = admitted[j]
          BY <2>1, <5>1
        <5> QED
          BY <5>1, <5>2
      <4> QED
        BY <1>1, <1>2, <2>2, <4>1, <4>2, HubConstants
    <3>3. Hub!ToSet(order) = {order[i] : i \in 1 .. Capacity}
      BY <1>3, <2>1 DEF Hub!ToSet
    <3> QED
      BY <2>3, <3>1, <3>2, <3>3
  <2>6. Hub!RingLockstep
    BY <2>1, <2>4, <2>5, HubCounts, HubConstants DEF Hub!RingLockstep
  <2>7. Hub!RingIsWindow
    <3> DEFINE w == Hub!Newest(Capacity, admitted)
    <3>1. CASE n = Capacity
      <4>1. w = admitted /\ a = 0
        BY <1>2, <2>2, <3>1, HubConstants DEF Hub!Newest
      <4>2. 0 + 1 .. n = 1 .. n
        BY <1>2
      <4> QED
        BY <1>3, <2>3, <4>1, <4>2 DEF Hub!RingIsWindow, Hub!ToSet
    <3>2. CASE n > Capacity
      <4>1. w = SubSeq(admitted, a + 1, n)
        BY <1>2, <3>2 DEF Hub!Newest, a
      <4>2. DOMAIN w = 1 .. Capacity /\ \A i \in 1 .. Capacity : w[i] = admitted[a + i]
        BY <1>1, <1>2, <2>2, <4>1, HubConstants
      <4> HIDE DEF w
      <4>3. \A i \in 1 .. Capacity : a + i \in a + 1 .. n
        BY <1>2, <2>2, HubConstants
      <4>4. \A j \in a + 1 .. n : j - a \in 1 .. Capacity /\ a + (j - a) = j
        BY <1>2, <2>2, HubConstants
      <4>5. {w[i] : i \in 1 .. Capacity} = {admitted[i] : i \in a + 1 .. n}
        BY <4>2, <4>3, <4>4
      <4> QED
        BY <2>3, <4>2, <4>5 DEF Hub!RingIsWindow, Hub!ToSet, w
    <3> QED
      BY <1>2, <1>5, <3>1, <3>2, HubConstants
  <2> QED
    BY <2>6, <2>7
<1> QED
  BY <1>2, <1>4, <1>5, HubConstants

LEMMA RepeatsAreFar == ASSUME HubInv PROVE Hub!RepeatsOutliveWindow
<1>1. admitted \in Seq(HubIds) /\ LastAreDistinct /\ Len(admitted) \in Nat
  BY DEF HubInv, HubTyped
<1> SUFFICES ASSUME NEW i \in 1 .. Len(admitted), NEW j \in 1 .. Len(admitted),
                    i < j, admitted[i] = admitted[j]
             PROVE  Cardinality({admitted[k] : k \in i + 1 .. j - 1}) >= Capacity
  BY <1>1, HubCounts DEF Hub!RepeatsOutliveWindow
<1> DEFINE B == {admitted[k] : k \in i + 1 .. j - 1}
           R == {admitted[k] : k \in i + 1 .. i + Capacity}
<1>2. i + Capacity < j
  <2>1. ~(j <= i + Capacity)
    BY <1>1 DEF LastAreDistinct
  <2> QED
    BY <2>1, HubConstants
<1>3. Cardinality(R) = Capacity
  <2>1. i \in Nat /\ i + Capacity <= Len(admitted) /\ Capacity <= Capacity
    BY <1>1, <1>2, HubConstants
  <2> QED
    BY <2>1, DistinctRun, HubConstants
<1>4. R \subseteq B
  BY <1>2, HubConstants
<1>5. IsFiniteSet(B)
  <2>1. IsFiniteSet(HubIds)
    BY HubConstants, FS_Interval DEF HubIds, Hub!Ids
  <2>2. B \subseteq HubIds
    BY <1>1
  <2> QED
    BY <2>1, <2>2, FS_Subset
<1>6. Cardinality(R) <= Cardinality(B)
  BY <1>4, <1>5, FS_Subset
<1> QED
  BY <1>3, <1>6

\* Dedup is a window, for any capacity and any traffic of the two goroutines:
\* ring and set are in lockstep and hold exactly the latest ids, and an id is let
\* pass again only after Capacity others.
THEOREM DedupIsWindowAlways == Hub!Spec => []DedupIsWindow
<1>1. HubInv => DedupIsWindow
  BY LockstepHolds, RepeatsAreFar DEF HubInv, HubTyped, DedupIsWindow, Hub!DedupIsWindow
<1> QED
  BY <1>1, HubHolds, PTL

\* Filing is sound, for any peers, scrollback and traffic: the conversation with
\* a peer is the newest of what the two exchanged, in the order it was displayed,
\* and what was displayed is in the history, about to be, or logged as lost.
THEOREM FilingIsSoundAlways == Hub!Spec => []FilingIsSound
<1>1. HubInv => FilingIsSound
  <2> SUFFICES ASSUME HubInv PROVE FilingIsSound
    OBVIOUS
  <2>1. Hub!OneConversationPerPeer /\ ShownStays /\ filed \in Seq(Taken)
    BY DEF HubInv, HubTyped
  <2>2. Hub!ShownIsKept
    <3> SUFFICES ASSUME NEW i \in 1 .. Len(filed)
                 PROVE  \/ Hub!Contains(history, filed[i].id)
                        \/ filed[i].id \in logged
                        \/ \E g \in {reader} \cup hubUi : Hub!Busy(g, "keep") /\ g.msg = filed[i]
      BY <2>1 DEF Hub!ShownIsKept, Hub!ToSet
    <3>1. CASE Kept(filed[i])
      BY <3>1 DEF Kept
    <3>2. CASE KeepsNext(reader, filed[i])
      BY <3>2 DEF KeepsNext, Hub!Busy
    <3>3. CASE Hub!Call("keep", filed[i]) \in hubUi
      <4>1. Hub!Call("keep", filed[i]).at = "keep" /\ Hub!Call("keep", filed[i]).msg = filed[i]
        BY DEF Hub!Call
      <4> QED
        BY <3>3, <4>1 DEF Hub!Busy
    <3> QED
      BY <2>1, <3>1, <3>2, <3>3 DEF ShownStays
  <2> QED
    BY <2>1, <2>2 DEF FilingIsSound, Hub!FilingIsSound
<1> QED
  BY <1>1, HubHolds, PTL

-----------------------------------------------------------------------------
(* Cadence: the inductive invariant *)

BeatTyped ==
  /\ now \in Nat /\ now <= MaxNow
  /\ next \in Nat /\ sendBy \in Int /\ beats \in Nat
  /\ up \in Seq(Nat) /\ down \in Seq(Nat)
  /\ gen \in Nat /\ gen > 0 /\ committed \subseteq 1 .. gen
  /\ heard \in Nat /\ heard <= now /\ cadenceSeen \in Nat /\ cadenceSeen <= now
  /\ verdict \in {"alive", "dead"} /\ online \in BOOLEAN
  /\ cadenceLink \in {"good", "stalled", "resumed"} /\ stalledAt \in Nat /\ stalledAt <= now

\* Frames are on their way in the order they were sent in.
InOrder(feed) ==
  /\ \A i \in 1 .. Len(feed) : feed[i] <= now
  /\ \A i, j \in 1 .. Len(feed) : i <= j => feed[i] <= feed[j]

\* The next slot is at most a period away, and every beat has had its own.
OnSchedule ==
  /\ next <= now + HeartbeatPeriod
  /\ Beat!Sending =>
       /\ 0 <= sendBy /\ sendBy <= next + Lag /\ sendBy <= now + Lag
       /\ beats + 2 <= next /\ beats + 1 <= now
  /\ ~Beat!Sending => beats + 1 <= next
  /\ beats <= now

\* The clock does not pass what a goroutine has still to do.
NothingOverdue ==
  /\ verdict = "alive" =>
       /\ Beat!Sending => now <= sendBy
       /\ ~Beat!Sending => now <= next + Lag
       /\ now <= Beat!Deadline + Lag
  /\ online => now <= cadenceSeen + TTL + Lag

\* The slots are the multiples of the period.
SlotsAreMultiples ==
  Lag < HeartbeatPeriod /\ verdict = "alive" =>
    /\ Beat!Sending => next = HeartbeatPeriod * (beats + 2) /\ HeartbeatPeriod * (beats + 1) <= now
    /\ ~Beat!Sending => next = HeartbeatPeriod * (beats + 1) /\ HeartbeatPeriod * beats <= now

\* A deadline that has fired was due, and a stalled link brings no news.
FiresAreDueBeats ==
  /\ gen \in committed => Beat!Deadline <= now
  /\ cadenceLink = "stalled" => heard <= stalledAt /\ cadenceSeen <= stalledAt

\* What arrived last, and what was sent last.
Before(feed, first, i) == IF i = 1 THEN first ELSE feed[i - 1]
LastOf(feed, first) == IF feed = <<>> THEN first ELSE feed[Len(feed)]

\* On a link that works every frame is in time and follows the one before it
\* within a period and the delays; so does the next heartbeat.
Flowing ==
  /\ verdict = "alive" /\ online /\ committed = {}
  /\ up # <<>> => now <= up[1] + Latency
  /\ down # <<>> => now <= down[1] + Latency
  /\ \A i \in 1 .. Len(up) : up[i] <= Before(up, cadenceSeen, i) + HeartbeatPeriod + Lag
  /\ \A i \in 1 .. Len(down) :
       down[i] <= Before(down, heard, i) + HeartbeatPeriod + Lag + Latency
  /\ ~Beat!Sending => next <= LastOf(up, cadenceSeen) + HeartbeatPeriod
  /\ Beat!Sending => sendBy <= LastOf(up, cadenceSeen) + HeartbeatPeriod + Lag
  /\ cadenceSeen <= LastOf(down, heard)

BeatInv ==
  /\ BeatTyped /\ InOrder(up) /\ InOrder(down) /\ OnSchedule /\ NothingOverdue
  /\ SlotsAreMultiples /\ FiresAreDueBeats
  /\ Beat!Provisioned /\ cadenceLink = "good" => Flowing

-----------------------------------------------------------------------------
(* Cadence: the operators *)

\* Division rounds down.
LEMMA DivFloor ==
  ASSUME NEW p \in Nat, p > 0, NEW a \in Nat
  PROVE  /\ a \div p \in Nat
         /\ p * (a \div p) <= a /\ a < p * (a \div p) + p
  OBVIOUS

\* The quotient of what lies between two multiples is the lower one.
LEMMA DivIs ==
  ASSUME NEW p \in Nat, p > 0, NEW a \in Nat, NEW q \in Nat,
         p * q <= a, a < p * q + p
  PROVE  a \div p = q
  OBVIOUS

\* What is assumed of the intervals.
LEMMA BeatConstants ==
  /\ HeartbeatPeriod \in Nat /\ DeadPeerInterval \in Nat /\ TTL \in Nat
  /\ Lag \in Nat /\ Latency \in Nat /\ MaxNow \in Nat
  /\ HeartbeatPeriod > 0 /\ DeadPeerInterval > HeartbeatPeriod
  BY ApplicationAssumption DEF Beat!CadenceAssumption, Beat!Valid

\* The next slot is the first one after now: the one that follows when the
\* loop is less than a period late.
LEMMA NextSlotIsNext ==
  ASSUME BeatTyped, next <= now
  PROVE  /\ Beat!NextSlot \in Nat
         /\ now < Beat!NextSlot /\ Beat!NextSlot <= now + HeartbeatPeriod
         /\ next + HeartbeatPeriod <= Beat!NextSlot
         /\ now < next + HeartbeatPeriod => Beat!NextSlot = next + HeartbeatPeriod
<1> DEFINE a == now - next
           q == a \div HeartbeatPeriod
<1>1. a \in Nat /\ next \in Nat /\ now \in Nat /\ now = next + a
  BY DEF BeatTyped
<1>2. HeartbeatPeriod \in Nat /\ HeartbeatPeriod > 0
  BY BeatConstants
<1>3. q \in Nat /\ HeartbeatPeriod * q <= a /\ a < HeartbeatPeriod * q + HeartbeatPeriod
  BY <1>1, <1>2, DivFloor
<1>4. Beat!NextSlot = next + HeartbeatPeriod * (q + 1)
  BY DEF Beat!NextSlot
<1> HIDE DEF a, q
<1>5. HeartbeatPeriod * (q + 1) = HeartbeatPeriod * q + HeartbeatPeriod /\ HeartbeatPeriod * q \in Nat
  BY <1>2, <1>3
<1>6. ASSUME now < next + HeartbeatPeriod PROVE HeartbeatPeriod * q = 0
  <2>1. a < HeartbeatPeriod
    BY <1>1, <1>2, <1>6
  <2>2. q = 0
    <3>1. SUFFICES ASSUME q >= 1 PROVE FALSE
      BY <1>3
    <3>2. HeartbeatPeriod * q >= HeartbeatPeriod
      BY <3>1, <1>2, <1>3
    <3>3. QED
      BY <3>2, <2>1, <1>1, <1>2, <1>3, <1>5
  <2>3. QED
    BY <2>2, <1>2
<1>7. QED
  BY <1>1, <1>2, <1>3, <1>4, <1>5, <1>6

\* A sequence of times until now.
LEMMA FeedIsPast ==
  ASSUME NEW feed \in Seq(Nat), now \in Nat, InOrder(feed)
  PROVE  feed \in Seq(0 .. now)
<1>1. \A i \in 1 .. Len(feed) : feed[i] \in 0 .. now
  BY DEF InOrder
<1>2. QED
  BY <1>1

\* The lists the feeds become when a frame is sent or arrives.
LEMMA FrameSent ==
  ASSUME NEW feed \in Seq(Nat), NEW t \in Nat, NEW sent, sent = Append(feed, t)
  PROVE  /\ sent \in Seq(Nat) /\ sent # <<>> /\ Len(feed) \in Nat
         /\ Len(sent) = Len(feed) + 1
         /\ \A i \in 1 .. Len(feed) : sent[i] = feed[i] /\ sent[i] \in Nat
         /\ sent[Len(feed) + 1] = t
<1>1. sent \in Seq(Nat) /\ Len(feed) \in Nat
  OBVIOUS
<1>2. Len(sent) = Len(feed) + 1
  OBVIOUS
<1>3. \A i \in 1 .. Len(feed) : sent[i] = feed[i] /\ sent[i] \in Nat
  OBVIOUS
<1>4. sent[Len(feed) + 1] = t
  OBVIOUS
<1>5. sent # <<>>
  BY <1>1, <1>2
<1>6. QED
  BY <1>1, <1>2, <1>3, <1>4, <1>5

\* What comes by a delay after the earlier comes by it after the later.
LEMMA LaterStart ==
  ASSUME NEW a \in Nat, NEW b \in Nat, NEW x \in Nat, NEW p \in Nat, NEW l \in Nat,
         a <= b, x <= a + p + l
  PROVE  x <= b + p + l
  OBVIOUS

\* Delays add up.
LEMMA DelaysAdd ==
  ASSUME NEW b \in Nat, NEW x \in Nat, NEW y \in Nat, NEW p \in Nat, NEW l \in Nat, NEW k \in Nat,
         x <= y + k, y <= b + p + l
  PROVE  x <= b + p + l + k
  OBVIOUS

LEMMA FrameArrived ==
  ASSUME NEW feed \in Seq(Nat), feed # <<>>
  PROVE  /\ Tail(feed) \in Seq(Nat) /\ Len(feed) > 0 /\ Len(feed) \in Nat
         /\ Len(Tail(feed)) = Len(feed) - 1
         /\ \A i \in 1 .. Len(Tail(feed)) : Tail(feed)[i] = feed[i + 1]
         /\ Tail(feed) = <<>> <=> Len(feed) = 1
         /\ \A i \in 1 .. Len(feed) : feed[i] \in Nat
         /\ Head(feed) = feed[1]
<1>1. Tail(feed) \in Seq(Nat) /\ Len(feed) > 0 /\ Len(feed) \in Nat
  OBVIOUS
<1>2. Len(Tail(feed)) = Len(feed) - 1
  OBVIOUS
<1>3. \A i \in 1 .. Len(Tail(feed)) : Tail(feed)[i] = feed[i + 1]
  OBVIOUS
<1>4. Tail(feed) = <<>> <=> Len(feed) = 1
  <2>1. Tail(feed) = <<>> <=> Len(Tail(feed)) = 0
    BY <1>1, EmptySeq
  <2>2. \A n \in Nat : n - 1 = 0 <=> n = 1
    OBVIOUS
  <2>3. QED
    BY <1>1, <1>2, <2>1, <2>2, Zenon
<1>5. \A i \in 1 .. Len(feed) : feed[i] \in Nat
  OBVIOUS
<1>6. Head(feed) = feed[1]
  OBVIOUS
<1>7. QED
  BY <1>1, <1>2, <1>3, <1>4, <1>5, <1>6

\* What was sent last is a time.
LEMMA LastOfIsTime ==
  ASSUME NEW feed \in Seq(Nat), NEW first \in Nat
  PROVE  LastOf(feed, first) \in Nat
<1>1. CASE feed = <<>>
  BY <1>1 DEF LastOf
<1>2. CASE feed # <<>>
  BY <1>2, FrameArrived DEF LastOf
<1>3. QED
  BY <1>1, <1>2

-----------------------------------------------------------------------------
(* Cadence: each step keeps the invariant *)

LEMMA BeatInvInit == Beat!Init => BeatInv
<1> SUFFICES ASSUME Beat!Init PROVE BeatInv
  OBVIOUS
<1>1. /\ now = 0 /\ next = HeartbeatPeriod /\ sendBy = -1 /\ beats = 0
      /\ up = <<>> /\ down = <<>>
      /\ gen = 1 /\ heard = 0 /\ committed = {} /\ verdict = "alive"
      /\ cadenceSeen = 0 /\ cadenceLink = "good" /\ stalledAt = 0
  BY DEF Beat!Init, Beat!NoSend
<1>2. online = TRUE
  BY DEF Beat!Init
<1>3. BeatTyped
  BY <1>1, <1>2, BeatConstants DEF BeatTyped
<1>4. InOrder(up) /\ InOrder(down)
  BY <1>1 DEF InOrder
<1>5. ~Beat!Sending
  BY <1>1 DEF Beat!Sending, Beat!NoSend
<1>6. OnSchedule /\ SlotsAreMultiples /\ FiresAreDueBeats
  BY <1>1, <1>5, BeatConstants DEF OnSchedule, SlotsAreMultiples, FiresAreDueBeats
<1>7. NothingOverdue
  BY <1>1, <1>5, BeatConstants DEF NothingOverdue, Beat!Deadline
<1>8. Flowing
  BY <1>1, <1>2, <1>5, BeatConstants DEF Flowing, LastOf
<1>9. QED
  BY <1>3, <1>4, <1>6, <1>7, <1>8 DEF BeatInv

\* On a link that works neither the silence deadline nor the lease runs out.
LEMMA NothingRunsOut ==
  ASSUME BeatTyped, NothingOverdue, Beat!Provisioned, Flowing
  PROVE  now < Beat!Deadline /\ now < cadenceSeen + TTL
<1>1. /\ now \in Nat /\ cadenceSeen \in Nat /\ heard \in Nat /\ next \in Nat /\ sendBy \in Int
      /\ up \in Seq(Nat) /\ down \in Seq(Nat)
  BY DEF BeatTyped
<1>2. /\ DeadPeerInterval > HeartbeatPeriod + Lag + 2 * Latency
      /\ TTL > HeartbeatPeriod + Lag + Latency
  BY DEF Beat!Provisioned
<1>3. now <= cadenceSeen + HeartbeatPeriod + Lag + Latency
  <2>1. CASE up # <<>>
    <3>1. 1 \in 1 .. Len(up) /\ up[1] \in Nat
      BY <2>1, <1>1, FrameArrived
    <3>2. now <= up[1] + Latency /\ up[1] <= cadenceSeen + HeartbeatPeriod + Lag
      BY <2>1, <3>1 DEF Flowing, Before
    <3>3. QED
      BY <3>1, <3>2, <1>1, BeatConstants
  <2>2. CASE up = <<>>
    <3>1. LastOf(up, cadenceSeen) = cadenceSeen
      BY <2>2 DEF LastOf
    <3>2. verdict = "alive"
      BY DEF Flowing
    <3>3. CASE Beat!Sending
      BY <3>1, <3>2, <3>3, <1>1, BeatConstants DEF Flowing, NothingOverdue
    <3>4. CASE ~Beat!Sending
      BY <3>1, <3>2, <3>4, <1>1, BeatConstants DEF Flowing, NothingOverdue
    <3>5. QED
      BY <3>3, <3>4
  <2>3. QED
    BY <2>1, <2>2
<1>4. now <= heard + HeartbeatPeriod + Lag + 2 * Latency
  <2>1. CASE down # <<>>
    <3>1. 1 \in 1 .. Len(down) /\ down[1] \in Nat
      BY <2>1, <1>1, FrameArrived
    <3>2. now <= down[1] + Latency /\ down[1] <= heard + HeartbeatPeriod + Lag + Latency
      BY <2>1, <3>1 DEF Flowing, Before
    <3>3. QED
      BY <3>1, <3>2, <1>1, BeatConstants
  <2>2. CASE down = <<>>
    <3>1. cadenceSeen <= heard
      BY <2>2 DEF Flowing, LastOf
    <3>2. QED
      BY <3>1, <1>1, <1>3, BeatConstants
  <2>3. QED
    BY <2>1, <2>2
<1>5. QED
  BY <1>1, <1>2, <1>3, <1>4, BeatConstants DEF Beat!Deadline

\* The beat loop wakes and arms the slot that follows.
LEMMA BeatArmKeeps ==
  ASSUME BeatInv, Beat!BeatArm
  PROVE  BeatInv'
<1>1. /\ verdict = "alive" /\ sendBy = -1 /\ next <= now
      /\ sendBy' = next + Lag /\ next' = Beat!NextSlot
      /\ now' = now /\ beats' = beats /\ gen' = gen /\ heard' = heard
      /\ committed' = committed /\ verdict' = verdict /\ cadenceSeen' = cadenceSeen
      /\ up' = up /\ down' = down /\ cadenceLink' = cadenceLink /\ stalledAt' = stalledAt
  BY DEF Beat!BeatArm, Beat!Sending, Beat!NoSend, Beat!server, Beat!wire
<1>2. online' = online
  BY DEF Beat!BeatArm, Beat!server
<1>3. BeatTyped /\ OnSchedule /\ NothingOverdue
  BY DEF BeatInv
<1>4. /\ next' \in Nat /\ now < next' /\ next' <= now + HeartbeatPeriod
      /\ next + HeartbeatPeriod <= next'
      /\ now < next + HeartbeatPeriod => next' = next + HeartbeatPeriod
  BY <1>1, <1>3, NextSlotIsNext
<1>5. now \in Nat /\ next \in Nat /\ beats \in Nat /\ sendBy' \in Nat
  BY <1>1, <1>3, BeatConstants DEF BeatTyped
<1>6. ~Beat!Sending /\ Beat!Sending'
  BY <1>1, <1>5 DEF Beat!Sending, Beat!NoSend
<1>7. BeatTyped'
  BY <1>1, <1>2, <1>3, <1>4, <1>5 DEF BeatTyped
<1>8. InOrder(up)' /\ InOrder(down)'
  BY <1>1 DEF BeatInv, InOrder
<1>9. OnSchedule'
  BY <1>1, <1>3, <1>4, <1>5, <1>6, BeatConstants DEF OnSchedule
<1>10. NothingOverdue'
  <2>1. now <= sendBy'
    BY <1>1, <1>3, <1>6 DEF NothingOverdue
  <2>2. QED
    BY <2>1, <1>1, <1>2, <1>3, <1>6 DEF NothingOverdue, Beat!Deadline
<1>11. SlotsAreMultiples'
  <2> SUFFICES ASSUME Lag < HeartbeatPeriod
               PROVE  next' = HeartbeatPeriod * (beats + 2) /\ HeartbeatPeriod * (beats + 1) <= now
    BY <1>1, <1>6 DEF SlotsAreMultiples
  <2>1. next = HeartbeatPeriod * (beats + 1)
    BY <1>1, <1>6 DEF BeatInv, SlotsAreMultiples
  <2>2. now <= next + Lag
    BY <1>1, <1>3, <1>6 DEF NothingOverdue
  <2>3. next' = next + HeartbeatPeriod
    BY <2>2, <1>4, <1>5, BeatConstants
  <2>4. QED
    BY <2>1, <2>3, <1>1, <1>5, BeatConstants
<1>12. FiresAreDueBeats'
  BY <1>1 DEF BeatInv, FiresAreDueBeats, Beat!Deadline
<1>13. ASSUME Beat!Provisioned, cadenceLink = "good" PROVE Flowing'
  <2>1. Flowing
    BY <1>13 DEF BeatInv
  <2>2. next <= LastOf(up, cadenceSeen) + HeartbeatPeriod
    BY <2>1, <1>6 DEF Flowing
  <2>3. LastOf(up, cadenceSeen) \in Nat
    BY <1>3, LastOfIsTime DEF BeatTyped
  <2>4. sendBy' <= LastOf(up, cadenceSeen) + HeartbeatPeriod + Lag
    BY <2>2, <2>3, <1>1, <1>5, BeatConstants
  <2>5. LastOf(up, cadenceSeen)' = LastOf(up, cadenceSeen) /\ LastOf(down, heard)' = LastOf(down, heard)
    BY <1>1 DEF LastOf
  <2>6. QED
    BY <2>1, <2>4, <2>5, <1>1, <1>2, <1>6 DEF Flowing, Before
<1>14. QED
  BY <1>1, <1>7, <1>8, <1>9, <1>10, <1>11, <1>12, <1>13 DEF BeatInv, Beat!Provisioned

\* The beat loop sends: the frame follows the one before it by a period and
\* the loop's delay at most.
LEMMA BeatSendKeeps ==
  ASSUME BeatInv, Beat!BeatSend
  PROVE  BeatInv'
<1>1. /\ verdict = "alive" /\ sendBy # -1
      /\ up' = Append(up, now) /\ beats' = beats + 1 /\ sendBy' = -1
      /\ now' = now /\ next' = next /\ gen' = gen /\ heard' = heard
      /\ committed' = committed /\ verdict' = verdict /\ cadenceSeen' = cadenceSeen
      /\ down' = down /\ cadenceLink' = cadenceLink /\ stalledAt' = stalledAt
  BY DEF Beat!BeatSend, Beat!Sending, Beat!NoSend, Beat!server
<1>2. online' = online
  BY DEF Beat!BeatSend, Beat!server
<1>3. BeatTyped /\ OnSchedule /\ NothingOverdue
  BY DEF BeatInv
<1>4. now \in Nat /\ next \in Nat /\ beats \in Nat /\ sendBy \in Int /\ up \in Seq(Nat) /\ cadenceSeen \in Nat
  BY <1>3 DEF BeatTyped
<1>5. Beat!Sending /\ ~Beat!Sending'
  BY <1>1 DEF Beat!Sending, Beat!NoSend
<1>6. /\ up' \in Seq(Nat) /\ up' # <<>> /\ Len(up) \in Nat /\ Len(up') = Len(up) + 1
      /\ \A i \in 1 .. Len(up) : up'[i] = up[i] /\ up'[i] \in Nat
      /\ up'[Len(up) + 1] = now
  BY <1>1, <1>4, FrameSent
<1>7. BeatTyped'
  BY <1>1, <1>2, <1>3, <1>4, <1>6 DEF BeatTyped
<1>8. InOrder(up)'
  <2>1. \A i \in 1 .. Len(up') : up'[i] <= now /\ up'[i] \in Nat
    <3> TAKE i \in 1 .. Len(up')
    <3>1. CASE i \in 1 .. Len(up)
      BY <3>1, <1>6 DEF BeatInv, InOrder
    <3>2. CASE i = Len(up) + 1
      BY <3>2, <1>4, <1>6
    <3>3. QED
      BY <3>1, <3>2, <1>6
  <2>2. ASSUME NEW i \in 1 .. Len(up'), NEW j \in 1 .. Len(up'), i <= j PROVE up'[i] <= up'[j]
    <3>1. CASE j \in 1 .. Len(up)
      <4>1. i \in 1 .. Len(up)
        BY <2>2, <3>1, <1>6
      <4>2. QED
        BY <4>1, <3>1, <2>2, <1>6 DEF BeatInv, InOrder
    <3>2. CASE j = Len(up) + 1
      BY <3>2, <1>6, <2>1
    <3>3. QED
      BY <3>1, <3>2, <1>6
  <2>3. QED
    BY <2>1, <2>2, <1>1 DEF InOrder
<1>9. InOrder(down)'
  BY <1>1 DEF BeatInv, InOrder
<1>10. OnSchedule'
  BY <1>1, <1>3, <1>4, <1>5, BeatConstants DEF OnSchedule
<1>11. now <= sendBy
  BY <1>1, <1>3, <1>5 DEF NothingOverdue
<1>12. NothingOverdue'
  <2>1. now <= next + Lag
    BY <1>11, <1>3, <1>4, <1>5, BeatConstants DEF OnSchedule
  <2>2. QED
    BY <2>1, <1>1, <1>2, <1>3, <1>5 DEF NothingOverdue, Beat!Deadline
<1>13. SlotsAreMultiples'
  <2> SUFFICES ASSUME Lag < HeartbeatPeriod
               PROVE  next = HeartbeatPeriod * (beats' + 1) /\ HeartbeatPeriod * beats' <= now
    BY <1>1, <1>5 DEF SlotsAreMultiples
  <2>1. next = HeartbeatPeriod * (beats + 2) /\ HeartbeatPeriod * (beats + 1) <= now
    BY <1>1, <1>5 DEF BeatInv, SlotsAreMultiples
  <2>2. beats' + 1 = beats + 2
    BY <1>1, <1>4
  <2>3. QED
    BY <2>1, <2>2, <1>1
<1>14. FiresAreDueBeats'
  BY <1>1 DEF BeatInv, FiresAreDueBeats, Beat!Deadline
<1>15. ASSUME Beat!Provisioned, cadenceLink = "good" PROVE Flowing'
  <2>1. Flowing
    BY <1>15 DEF BeatInv
  <2>2. LastOf(up, cadenceSeen) \in Nat
    BY <1>4, LastOfIsTime
  <2>3. now <= LastOf(up, cadenceSeen) + HeartbeatPeriod + Lag
    BY <2>1, <2>2, <1>4, <1>5, <1>11, BeatConstants DEF Flowing
  <2>4. ASSUME NEW i \in 1 .. Len(up')
        PROVE  up'[i] <= Before(up', cadenceSeen, i) + HeartbeatPeriod + Lag
    <3>1. CASE i \in 1 .. Len(up)
      <4>1. i # 1 => i - 1 \in 1 .. Len(up)
        BY <3>1, <1>6
      <4>2. i # 1 => up'[i - 1] = up[i - 1]
        BY <4>1, <1>6
      <4>3. Before(up', cadenceSeen, i) = Before(up, cadenceSeen, i)
        BY <4>2 DEF Before
      <4>4. QED
        BY <4>3, <3>1, <2>1, <1>6 DEF Flowing
    <3>2. CASE i = Len(up) + 1
      <4>1. Before(up', cadenceSeen, i) = LastOf(up, cadenceSeen)
        <5>1. CASE up = <<>>
          BY <5>1, <3>2 DEF Before, LastOf
        <5>2. CASE up # <<>>
          <6>1. Len(up) > 0 /\ i - 1 = Len(up) /\ i # 1 /\ Len(up) \in 1 .. Len(up)
            BY <5>2, <3>2, <1>4, FrameArrived
          <6>2. QED
            BY <6>1, <5>2, <1>6 DEF Before, LastOf
        <5>3. QED
          BY <5>1, <5>2
      <4>2. QED
        BY <4>1, <3>2, <1>6, <2>3
    <3>3. QED
      BY <3>1, <3>2, <1>6
  <2>5. now <= up'[1] + Latency
    <3>1. CASE up = <<>>
      <4>1. up'[1] = now
        BY <3>1, <1>6
      <4>2. QED
        BY <4>1, <1>4, BeatConstants
    <3>2. CASE up # <<>>
      <4>1. 1 \in 1 .. Len(up)
        BY <3>2, <1>4, FrameArrived
      <4>2. QED
        BY <4>1, <3>2, <1>6, <2>1 DEF Flowing
    <3>3. QED
      BY <3>1, <3>2
  <2>6. LastOf(up', cadenceSeen) = now
    BY <1>6 DEF LastOf
  <2>7. next <= LastOf(up', cadenceSeen) + HeartbeatPeriod
    BY <2>6, <1>3 DEF OnSchedule
  <2>8. \A i \in 1 .. Len(down') : down'[i] <= Before(down', heard', i) + HeartbeatPeriod + Lag + Latency
    BY <2>1, <1>1 DEF Flowing, Before
  <2>9. /\ verdict = "alive" /\ online /\ committed = {}
        /\ down # <<>> => now <= down[1] + Latency
        /\ cadenceSeen <= LastOf(down, heard)
    BY <2>1 DEF Flowing
  <2>10. LastOf(down', heard') = LastOf(down, heard)
    BY <1>1 DEF LastOf
  <2>11. QED
    BY <2>4, <2>5, <2>7, <2>8, <2>9, <2>10, <1>1, <1>2, <1>5 DEF Flowing
<1>16. QED
  BY <1>1, <1>7, <1>8, <1>9, <1>10, <1>12, <1>13, <1>14, <1>15 DEF BeatInv, Beat!Provisioned

\* The silence deadline fires, which a link that works prevents.
LEMMA DeadlineFiresKeeps ==
  ASSUME BeatInv, Beat!DeadlineFires
  PROVE  BeatInv'
<1>1. /\ Beat!Deadline <= now /\ committed' = committed \cup {gen}
      /\ now' = now /\ next' = next /\ sendBy' = sendBy /\ beats' = beats /\ gen' = gen
      /\ heard' = heard /\ verdict' = verdict /\ cadenceSeen' = cadenceSeen
      /\ up' = up /\ down' = down /\ cadenceLink' = cadenceLink /\ stalledAt' = stalledAt
  BY DEF Beat!DeadlineFires, Beat!server, Beat!wire
<1>2. online' = online
  BY DEF Beat!DeadlineFires, Beat!server
<1>3. BeatTyped'
  BY <1>1, <1>2 DEF BeatInv, BeatTyped
<1>4. InOrder(up)' /\ InOrder(down)'
  BY <1>1 DEF BeatInv, InOrder
<1>5. OnSchedule' /\ SlotsAreMultiples'
  BY <1>1 DEF BeatInv, OnSchedule, SlotsAreMultiples, Beat!Sending
<1>6. NothingOverdue'
  BY <1>1, <1>2 DEF BeatInv, NothingOverdue, Beat!Sending, Beat!Deadline
<1>7. FiresAreDueBeats'
  BY <1>1 DEF BeatInv, FiresAreDueBeats, Beat!Deadline
<1>8. ASSUME Beat!Provisioned, cadenceLink = "good" PROVE FALSE
  <2>1. now < Beat!Deadline
    BY <1>8, NothingRunsOut DEF BeatInv
  <2>2. now \in Nat /\ Beat!Deadline \in Nat
    BY BeatConstants DEF BeatInv, BeatTyped, Beat!Deadline
  <2>3. QED
    BY <2>1, <2>2, <1>1
<1>9. QED
  BY <1>1, <1>3, <1>4, <1>5, <1>6, <1>7, <1>8 DEF BeatInv, Beat!Provisioned

\* A watcher runs: it finds its generation overtaken, or the peer is dead.
LEMMA WatchDeadKeeps ==
  ASSUME BeatInv, NEW g \in committed, Beat!WatchDead(g)
  PROVE  BeatInv'
<1>1. /\ committed' = committed \ {g} /\ verdict' = (IF g = gen THEN "dead" ELSE verdict)
      /\ now' = now /\ next' = next /\ sendBy' = sendBy /\ beats' = beats /\ gen' = gen
      /\ heard' = heard /\ cadenceSeen' = cadenceSeen
      /\ up' = up /\ down' = down /\ cadenceLink' = cadenceLink /\ stalledAt' = stalledAt
  BY DEF Beat!WatchDead, Beat!server, Beat!wire
<1>2. online' = online
  BY DEF Beat!WatchDead, Beat!server
<1>3. verdict' \in {"alive", "dead"} /\ (verdict' = "alive" => verdict = "alive")
  BY <1>1 DEF BeatInv, BeatTyped
<1>4. BeatTyped'
  BY <1>1, <1>2, <1>3 DEF BeatInv, BeatTyped
<1>5. InOrder(up)' /\ InOrder(down)'
  BY <1>1 DEF BeatInv, InOrder
<1>6. OnSchedule' /\ SlotsAreMultiples'
  BY <1>1, <1>3 DEF BeatInv, OnSchedule, SlotsAreMultiples, Beat!Sending
<1>7. NothingOverdue'
  BY <1>1, <1>2, <1>3 DEF BeatInv, NothingOverdue, Beat!Sending, Beat!Deadline
<1>8. FiresAreDueBeats'
  BY <1>1 DEF BeatInv, FiresAreDueBeats, Beat!Deadline
<1>9. ASSUME Beat!Provisioned, cadenceLink = "good" PROVE FALSE
  BY <1>9 DEF BeatInv, Flowing
<1>10. QED
  BY <1>1, <1>4, <1>5, <1>6, <1>7, <1>8, <1>9 DEF BeatInv, Beat!Provisioned

\* An answer arrives: the deadline runs from now, and the answers left are no
\* older than the one that came.
LEMMA PongArrivesKeeps ==
  ASSUME BeatInv, Beat!PongArrives
  PROVE  BeatInv'
<1>1. /\ cadenceLink # "stalled" /\ down # <<>> /\ down' = Tail(down)
      /\ now' = now /\ next' = next /\ sendBy' = sendBy /\ beats' = beats
      /\ committed' = committed /\ verdict' = verdict /\ cadenceSeen' = cadenceSeen
      /\ up' = up /\ cadenceLink' = cadenceLink /\ stalledAt' = stalledAt
      /\ verdict = "alive" => gen' = gen + 1 /\ heard' = now
      /\ verdict # "alive" => gen' = gen /\ heard' = heard
  BY DEF Beat!PongArrives, Beat!armDeadlineLocked, Beat!server
<1>2. online' = online
  BY DEF Beat!PongArrives, Beat!server
<1>3. BeatTyped
  BY DEF BeatInv
<1>4. now \in Nat /\ gen \in Nat /\ heard \in Nat /\ heard <= now /\ down \in Seq(Nat) /\ committed \subseteq 1 .. gen
  BY <1>3 DEF BeatTyped
<1>5. /\ down' \in Seq(Nat) /\ Len(down) > 0 /\ Len(down) \in Nat
      /\ Len(down') = Len(down) - 1
      /\ \A i \in 1 .. Len(down') : down'[i] = down[i + 1]
      /\ down' = <<>> <=> Len(down) = 1
      /\ \A i \in 1 .. Len(down) : down[i] \in Nat
  BY <1>1, <1>4, FrameArrived
<1>6. BeatTyped'
  <2>1. gen' \in Nat /\ gen' > 0 /\ heard' \in Nat /\ heard' <= now
    BY <1>1, <1>3, <1>4 DEF BeatTyped
  <2>2. committed \subseteq 1 .. gen'
    BY <1>1, <1>4
  <2>3. QED
    BY <2>1, <2>2, <1>1, <1>2, <1>3, <1>5 DEF BeatTyped
<1>7. InOrder(up)'
  BY <1>1 DEF BeatInv, InOrder
<1>8. InOrder(down)'
  BY <1>1, <1>5 DEF BeatInv, InOrder
<1>9. OnSchedule' /\ SlotsAreMultiples'
  BY <1>1 DEF BeatInv, OnSchedule, SlotsAreMultiples, Beat!Sending
<1>10. NothingOverdue'
  <2>1. verdict = "alive" => now <= heard' + DeadPeerInterval + Lag
    BY <1>1, <1>4, BeatConstants
  <2>2. QED
    BY <2>1, <1>1, <1>2 DEF BeatInv, NothingOverdue, Beat!Sending, Beat!Deadline
<1>11. FiresAreDueBeats'
  <2>1. CASE verdict = "alive"
    <3>1. gen' \notin committed
      BY <2>1, <1>1, <1>4
    <3>2. QED
      BY <3>1, <1>1 DEF FiresAreDueBeats
  <2>2. CASE verdict # "alive"
    BY <2>2, <1>1 DEF BeatInv, FiresAreDueBeats, Beat!Deadline
  <2>3. QED
    BY <2>1, <2>2
<1>12. ASSUME Beat!Provisioned, cadenceLink = "good" PROVE Flowing'
  <2>1. Flowing
    BY <1>12 DEF BeatInv
  <2>2. heard' = now /\ 1 \in 1 .. Len(down)
    BY <2>1, <1>1, <1>5 DEF Flowing
  <2>3. down[1] <= now /\ down[1] \in Nat
    BY <2>2, <1>5 DEF BeatInv, InOrder
  <2>4. ASSUME NEW i \in 1 .. Len(down')
        PROVE  down'[i] <= Before(down', heard', i) + HeartbeatPeriod + Lag + Latency
    <3>1. i + 1 \in 1 .. Len(down) /\ i \in 1 .. Len(down) /\ i + 1 # 1 /\ (i + 1) - 1 = i
      BY <1>5
    <3>2. down[i + 1] <= down[i] + HeartbeatPeriod + Lag + Latency
      BY <3>1, <2>1 DEF Flowing, Before
    <3>3. CASE i = 1
      <4>1. Before(down', heard', i) = now /\ down'[i] = down[i + 1] /\ down[i + 1] \in Nat
        BY <3>1, <3>3, <2>2, <1>5 DEF Before
      <4>2. down[i] <= now /\ down[i] \in Nat /\ down[i + 1] \in Nat
        BY <3>3, <2>3, <4>1
      <4>3. down[i + 1] <= now + HeartbeatPeriod + Lag + Latency
        <5>1. \A a, b \in Nat : a <= b + HeartbeatPeriod + Lag + Latency /\ b <= now
                                => a <= now + HeartbeatPeriod + Lag + Latency
          BY <1>4, BeatConstants
        <5>2. QED
          BY <5>1, <4>2, <3>2, Zenon
      <4>4. QED
        BY <4>1, <4>3
    <3>4. CASE i # 1
      <4>1. i - 1 \in 1 .. Len(down') /\ (i - 1) + 1 = i
        BY <3>4, <1>5
      <4>2. Before(down', heard', i) = down[i]
        BY <4>1, <3>4, <1>5 DEF Before
      <4>3. QED
        BY <4>2, <3>2, <1>5
    <3>5. QED
      BY <3>3, <3>4
  <2>5. down' # <<>> => now <= down'[1] + Latency
    <3> SUFFICES ASSUME down' # <<>> PROVE now <= down'[1] + Latency
      OBVIOUS
    <3>1. 2 \in 1 .. Len(down) /\ down'[1] = down[2] /\ down[2] \in Nat
      BY <1>5
    <3>2. down[1] <= down[2]
      BY <3>1, <2>2 DEF BeatInv, InOrder
    <3>3. now <= down[1] + Latency
      BY <2>1, <1>1 DEF Flowing
    <3>4. QED
      BY <3>1, <3>2, <3>3, <2>3, <1>4, BeatConstants
  <2>6. cadenceSeen <= LastOf(down', heard')
    <3>1. cadenceSeen <= down[Len(down)]
      BY <2>1, <1>1 DEF Flowing, LastOf
    <3>2. CASE Len(down) = 1
      <4>1. LastOf(down', heard') = now
        BY <3>2, <2>2, <1>5 DEF LastOf
      <4>2. cadenceSeen \in Nat /\ cadenceSeen <= now
        BY <1>3 DEF BeatTyped
      <4>3. QED
        BY <4>1, <4>2
    <3>3. CASE Len(down) # 1
      <4>1. Len(down') \in 1 .. Len(down') /\ Len(down') + 1 = Len(down)
        BY <3>3, <1>5
      <4>2. LastOf(down', heard') = down[Len(down)]
        BY <4>1, <3>3, <1>5 DEF LastOf
      <4>3. QED
        BY <3>1, <4>2
    <3>4. QED
      BY <3>2, <3>3
  <2>7. /\ verdict = "alive" /\ online /\ committed = {}
        /\ up # <<>> => now <= up[1] + Latency
        /\ \A i \in 1 .. Len(up) : up[i] <= Before(up, cadenceSeen, i) + HeartbeatPeriod + Lag
        /\ ~Beat!Sending => next <= LastOf(up, cadenceSeen) + HeartbeatPeriod
        /\ Beat!Sending => sendBy <= LastOf(up, cadenceSeen) + HeartbeatPeriod + Lag
    BY <2>1 DEF Flowing
  <2>8. LastOf(up', cadenceSeen') = LastOf(up, cadenceSeen) /\ Beat!Sending' = Beat!Sending
    BY <1>1 DEF LastOf, Beat!Sending
  <2>9. \A i \in 1 .. Len(up') : up'[i] <= Before(up', cadenceSeen', i) + HeartbeatPeriod + Lag
    BY <2>7, <1>1 DEF Before
  <2>10. QED
    BY <2>4, <2>5, <2>6, <2>7, <2>8, <2>9, <1>1, <1>2 DEF Flowing
<1>13. QED
  BY <1>1, <1>6, <1>7, <1>8, <1>9, <1>10, <1>11, <1>12 DEF BeatInv, Beat!Provisioned

\* A heartbeat arrives and is answered.
LEMMA BeatArrivesKeeps ==
  ASSUME BeatInv, Beat!BeatArrives
  PROVE  BeatInv'
<1>1. /\ cadenceLink # "stalled" /\ up # <<>> /\ up' = Tail(up) /\ down' = Append(down, now)
      /\ now' = now /\ next' = next /\ sendBy' = sendBy /\ beats' = beats /\ gen' = gen
      /\ heard' = heard /\ committed' = committed /\ verdict' = verdict /\ cadenceSeen' = now
      /\ cadenceLink' = cadenceLink /\ stalledAt' = stalledAt
  BY DEF Beat!BeatArrives, Beat!client
<1>2. online' = TRUE
  BY DEF Beat!BeatArrives
<1>3. BeatTyped
  BY DEF BeatInv
<1>4. /\ now \in Nat /\ heard \in Nat /\ heard <= now /\ down \in Seq(Nat) /\ up \in Seq(Nat)
      /\ cadenceSeen \in Nat /\ cadenceSeen <= now /\ next \in Nat /\ sendBy \in Int
  BY <1>3 DEF BeatTyped
<1>5. /\ up' \in Seq(Nat) /\ Len(up) > 0 /\ Len(up) \in Nat
      /\ Len(up') = Len(up) - 1
      /\ \A i \in 1 .. Len(up') : up'[i] = up[i + 1]
      /\ up' = <<>> <=> Len(up) = 1
      /\ \A i \in 1 .. Len(up) : up[i] \in Nat
  BY <1>1, <1>4, FrameArrived
<1>6. /\ down' \in Seq(Nat) /\ down' # <<>> /\ Len(down) \in Nat /\ Len(down') = Len(down) + 1
      /\ \A i \in 1 .. Len(down) : down'[i] = down[i] /\ down'[i] \in Nat
      /\ down'[Len(down) + 1] = now
  <2>1. down \in Seq(Nat) /\ now \in Nat /\ down' = Append(down, now)
    BY <1>1, <1>4
  <2>2. QED
    BY <2>1, FrameSent
<1>7. BeatTyped'
  BY <1>1, <1>2, <1>3, <1>4, <1>5, <1>6 DEF BeatTyped
<1>8. InOrder(up)'
  BY <1>1, <1>5 DEF BeatInv, InOrder
<1>9. InOrder(down)'
  <2>1. \A i \in 1 .. Len(down') : down'[i] <= now /\ down'[i] \in Nat
    <3> TAKE i \in 1 .. Len(down')
    <3>1. CASE i \in 1 .. Len(down)
      BY <3>1, <1>6 DEF BeatInv, InOrder
    <3>2. CASE i = Len(down) + 1
      BY <3>2, <1>4, <1>6
    <3>3. QED
      BY <3>1, <3>2, <1>6
  <2>2. ASSUME NEW i \in 1 .. Len(down'), NEW j \in 1 .. Len(down'), i <= j PROVE down'[i] <= down'[j]
    <3>1. CASE j \in 1 .. Len(down)
      <4>1. i \in 1 .. Len(down)
        BY <2>2, <3>1, <1>6
      <4>2. QED
        BY <4>1, <3>1, <2>2, <1>6 DEF BeatInv, InOrder
    <3>2. CASE j = Len(down) + 1
      BY <3>2, <1>6, <2>1
    <3>3. QED
      BY <3>1, <3>2, <1>6
  <2>3. QED
    BY <2>1, <2>2, <1>1 DEF InOrder
<1>10. OnSchedule' /\ SlotsAreMultiples'
  BY <1>1 DEF BeatInv, OnSchedule, SlotsAreMultiples, Beat!Sending
<1>11. NothingOverdue'
  <2>1. now <= now + TTL + Lag
    BY <1>4, BeatConstants
  <2>2. QED
    BY <2>1, <1>1 DEF BeatInv, NothingOverdue, Beat!Sending, Beat!Deadline
<1>12. FiresAreDueBeats'
  BY <1>1 DEF BeatInv, FiresAreDueBeats, Beat!Deadline
<1>13. ASSUME Beat!Provisioned, cadenceLink = "good" PROVE Flowing'
  <2>1. Flowing
    BY <1>13 DEF BeatInv
  <2>2. 1 \in 1 .. Len(up)
    BY <1>5
  <2>3. up[1] <= now /\ up[1] \in Nat
    BY <2>2, <1>5 DEF BeatInv, InOrder
  <2>4. now <= up[1] + Latency /\ up[1] <= cadenceSeen + HeartbeatPeriod + Lag
    BY <2>1, <2>2, <1>1 DEF Flowing, Before
  <2>5. ASSUME NEW i \in 1 .. Len(up')
        PROVE  up'[i] <= Before(up', cadenceSeen', i) + HeartbeatPeriod + Lag
    <3>1. i + 1 \in 1 .. Len(up) /\ i \in 1 .. Len(up) /\ i + 1 # 1 /\ (i + 1) - 1 = i
      BY <1>5
    <3>2. up[i + 1] <= up[i] + HeartbeatPeriod + Lag
      BY <3>1, <2>1 DEF Flowing, Before
    <3>3. CASE i = 1
      <4>1. up'[1] = up[2] /\ up[2] \in Nat /\ up[2] <= up[1] + HeartbeatPeriod + Lag
        BY <3>1, <3>2, <3>3, <1>5
      <4>2. Before(up', cadenceSeen', i) = now
        BY <3>3, <1>1 DEF Before
      <4>3. up[2] <= now + HeartbeatPeriod + Lag
        BY <4>1, <2>3, <1>4, BeatConstants, LaterStart
      <4>4. QED
        BY <4>1, <4>2, <4>3, <3>3
    <3>4. CASE i # 1
      <4>1. i - 1 \in 1 .. Len(up') /\ (i - 1) + 1 = i
        BY <3>4, <1>5
      <4>2. Before(up', cadenceSeen', i) = up[i]
        BY <4>1, <3>4, <1>5 DEF Before
      <4>3. QED
        BY <4>2, <3>2, <1>5
    <3>5. QED
      BY <3>3, <3>4
  <2>6. up' # <<>> => now <= up'[1] + Latency
    <3> SUFFICES ASSUME up' # <<>> PROVE now <= up'[1] + Latency
      OBVIOUS
    <3>1. 2 \in 1 .. Len(up) /\ up'[1] = up[2] /\ up[2] \in Nat
      BY <1>5
    <3>2. up[1] <= up[2]
      BY <3>1, <2>2 DEF BeatInv, InOrder
    <3>3. QED
      BY <3>1, <3>2, <2>3, <2>4, <1>4, BeatConstants
  <2>7. LastOf(up, cadenceSeen) <= LastOf(up', cadenceSeen') /\ LastOf(up, cadenceSeen) \in Nat /\ LastOf(up', cadenceSeen') \in Nat
    <3>1. LastOf(up, cadenceSeen) = up[Len(up)] /\ up[Len(up)] \in Nat
      BY <1>1, <1>5 DEF LastOf
    <3>2. CASE Len(up) = 1
      <4>1. LastOf(up', cadenceSeen') = now
        BY <3>2, <1>1, <1>5 DEF LastOf
      <4>2. QED
        BY <4>1, <3>1, <3>2, <2>3, <1>4
    <3>3. CASE Len(up) # 1
      <4>1. Len(up') \in 1 .. Len(up') /\ Len(up') + 1 = Len(up)
        BY <3>3, <1>5
      <4>2. LastOf(up', cadenceSeen') = up[Len(up)]
        BY <4>1, <3>3, <1>5 DEF LastOf
      <4>3. QED
        BY <3>1, <4>2
    <3>4. QED
      BY <3>2, <3>3
  <2>8. /\ ~Beat!Sending => next <= LastOf(up', cadenceSeen') + HeartbeatPeriod
        /\ Beat!Sending => sendBy <= LastOf(up', cadenceSeen') + HeartbeatPeriod + Lag
    BY <2>1, <2>7, <1>4, BeatConstants DEF Flowing
  <2>9. LastOf(down', heard') = now
    BY <1>6 DEF LastOf
  <2>10. LastOf(down, heard) \in Nat /\ cadenceSeen <= LastOf(down, heard)
    BY <2>1, <1>4, LastOfIsTime DEF Flowing
  <2>11. now <= LastOf(down, heard) + HeartbeatPeriod + Lag + Latency
    <3>1. up[1] <= LastOf(down, heard) + HeartbeatPeriod + Lag
      BY <2>3, <2>4, <2>10, <1>4, BeatConstants, LaterStart
    <3>2. QED
      BY <3>1, <2>3, <2>4, <2>10, <1>4, BeatConstants, DelaysAdd
  <2>12. ASSUME NEW i \in 1 .. Len(down')
        PROVE  down'[i] <= Before(down', heard', i) + HeartbeatPeriod + Lag + Latency
    <3>1. CASE i \in 1 .. Len(down)
      <4>1. Before(down', heard', i) = Before(down, heard, i)
        BY <3>1, <1>1, <1>6 DEF Before
      <4>2. QED
        BY <4>1, <3>1, <2>1, <1>6 DEF Flowing
    <3>2. CASE i = Len(down) + 1
      <4>1. Before(down', heard', i) = LastOf(down, heard)
        <5>1. CASE down = <<>>
          BY <5>1, <3>2, <1>1 DEF Before, LastOf
        <5>2. CASE down # <<>>
          <6>1. Len(down) > 0 /\ i - 1 = Len(down) /\ i # 1 /\ Len(down) \in 1 .. Len(down)
            BY <5>2, <3>2, <1>4, FrameArrived
          <6>2. QED
            BY <6>1, <5>2, <1>6 DEF Before, LastOf
        <5>3. QED
          BY <5>1, <5>2
      <4>2. QED
        BY <4>1, <3>2, <1>6, <2>11
    <3>3. QED
      BY <3>1, <3>2, <1>6
  <2>13. now <= down'[1] + Latency
    <3>1. CASE down = <<>>
      <4>1. down'[1] = now
        BY <3>1, <1>6
      <4>2. QED
        BY <4>1, <1>4, BeatConstants
    <3>2. CASE down # <<>>
      <4>1. 1 \in 1 .. Len(down)
        BY <3>2, <1>4, FrameArrived
      <4>2. QED
        BY <4>1, <3>2, <1>6, <2>1 DEF Flowing
    <3>3. QED
      BY <3>1, <3>2
  <2>14. verdict = "alive" /\ committed = {}
    BY <2>1 DEF Flowing
  <2>15. Beat!Sending' = Beat!Sending /\ cadenceSeen' <= LastOf(down', heard')
    BY <2>9, <1>1, <1>4 DEF Beat!Sending
  <2>16. QED
    BY <2>5, <2>6, <2>8, <2>12, <2>13, <2>14, <2>15, <1>1, <1>2 DEF Flowing
<1>14. QED
  BY <1>1, <1>7, <1>8, <1>9, <1>10, <1>11, <1>12, <1>13 DEF BeatInv, Beat!Provisioned

\* The lease runs out, which a link that works prevents.
LEMMA ExpireKeeps ==
  ASSUME BeatInv, Beat!Expire
  PROVE  BeatInv'
<1>1. /\ cadenceSeen + TTL <= now
      /\ now' = now /\ next' = next /\ sendBy' = sendBy /\ beats' = beats /\ gen' = gen
      /\ heard' = heard /\ committed' = committed /\ verdict' = verdict
      /\ cadenceSeen' = cadenceSeen
      /\ up' = up /\ down' = down /\ cadenceLink' = cadenceLink /\ stalledAt' = stalledAt
  BY DEF Beat!Expire, Beat!client, Beat!wire
<1>2. online' = FALSE
  BY DEF Beat!Expire
<1>3. BeatTyped'
  BY <1>1, <1>2 DEF BeatInv, BeatTyped
<1>4. InOrder(up)' /\ InOrder(down)'
  BY <1>1 DEF BeatInv, InOrder
<1>5. OnSchedule' /\ SlotsAreMultiples'
  BY <1>1 DEF BeatInv, OnSchedule, SlotsAreMultiples, Beat!Sending
<1>6. NothingOverdue'
  BY <1>1, <1>2 DEF BeatInv, NothingOverdue, Beat!Sending, Beat!Deadline
<1>7. FiresAreDueBeats'
  BY <1>1 DEF BeatInv, FiresAreDueBeats, Beat!Deadline
<1>8. ASSUME Beat!Provisioned, cadenceLink = "good" PROVE FALSE
  <2>1. now < cadenceSeen + TTL
    BY <1>8, NothingRunsOut DEF BeatInv
  <2>2. now \in Nat /\ cadenceSeen \in Nat
    BY DEF BeatInv, BeatTyped
  <2>3. QED
    BY <2>1, <2>2, <1>1, BeatConstants
<1>9. QED
  BY <1>1, <1>3, <1>4, <1>5, <1>6, <1>7, <1>8 DEF BeatInv, Beat!Provisioned

\* The link stalls: what was heard was heard by now.
LEMMA StallKeeps ==
  ASSUME BeatInv, Beat!Stall
  PROVE  BeatInv'
<1>1. /\ cadenceLink' = "stalled" /\ stalledAt' = now
      /\ now' = now /\ next' = next /\ sendBy' = sendBy /\ beats' = beats /\ gen' = gen
      /\ heard' = heard /\ committed' = committed /\ verdict' = verdict
      /\ cadenceSeen' = cadenceSeen /\ up' = up /\ down' = down
  BY DEF Beat!Stall, Beat!client, Beat!server
<1>2. online' = online
  BY DEF Beat!Stall, Beat!server
<1>3. BeatTyped'
  BY <1>1, <1>2 DEF BeatInv, BeatTyped
<1>4. InOrder(up)' /\ InOrder(down)'
  BY <1>1 DEF BeatInv, InOrder
<1>5. OnSchedule' /\ SlotsAreMultiples'
  BY <1>1 DEF BeatInv, OnSchedule, SlotsAreMultiples, Beat!Sending
<1>6. NothingOverdue'
  BY <1>1, <1>2 DEF BeatInv, NothingOverdue, Beat!Sending, Beat!Deadline
<1>7. FiresAreDueBeats'
  BY <1>1 DEF BeatInv, BeatTyped, FiresAreDueBeats, Beat!Deadline
<1>8. cadenceLink' # "good"
  BY <1>1
<1>9. QED
  BY <1>3, <1>4, <1>5, <1>6, <1>7, <1>8 DEF BeatInv

LEMMA ResumeKeeps ==
  ASSUME BeatInv, Beat!Resume
  PROVE  BeatInv'
<1>1. /\ cadenceLink' = "resumed" /\ stalledAt' = stalledAt
      /\ now' = now /\ next' = next /\ sendBy' = sendBy /\ beats' = beats /\ gen' = gen
      /\ heard' = heard /\ committed' = committed /\ verdict' = verdict
      /\ cadenceSeen' = cadenceSeen /\ up' = up /\ down' = down
  BY DEF Beat!Resume, Beat!client, Beat!server
<1>2. online' = online
  BY DEF Beat!Resume, Beat!server
<1>3. BeatTyped'
  BY <1>1, <1>2 DEF BeatInv, BeatTyped
<1>4. InOrder(up)' /\ InOrder(down)'
  BY <1>1 DEF BeatInv, InOrder
<1>5. OnSchedule' /\ SlotsAreMultiples'
  BY <1>1 DEF BeatInv, OnSchedule, SlotsAreMultiples, Beat!Sending
<1>6. NothingOverdue'
  BY <1>1, <1>2 DEF BeatInv, NothingOverdue, Beat!Sending, Beat!Deadline
<1>7. FiresAreDueBeats'
  BY <1>1 DEF BeatInv, BeatTyped, FiresAreDueBeats, Beat!Deadline
<1>8. cadenceLink' # "good"
  BY <1>1
<1>9. QED
  BY <1>3, <1>4, <1>5, <1>6, <1>7, <1>8 DEF BeatInv

\* Time passes: nothing that was due is late.
LEMMA TickKeeps ==
  ASSUME BeatInv, Beat!Tick
  PROVE  BeatInv'
<1>1. /\ now < MaxNow /\ now' = now + 1
      /\ next' = next /\ sendBy' = sendBy /\ beats' = beats /\ gen' = gen
      /\ heard' = heard /\ committed' = committed /\ verdict' = verdict
      /\ cadenceSeen' = cadenceSeen /\ up' = up /\ down' = down
      /\ cadenceLink' = cadenceLink /\ stalledAt' = stalledAt
  BY DEF Beat!Tick, Beat!client, Beat!server, Beat!wire
<1>2. online' = online
  BY DEF Beat!Tick, Beat!server
<1>3. /\ verdict = "alive" =>
           /\ Beat!Sending => now < sendBy
           /\ ~Beat!Sending => now < next + Lag
           /\ Beat!Deadline <= now => now < Beat!Deadline + Lag
      /\ online => now < cadenceSeen + TTL + Lag
  BY DEF Beat!Tick
<1>4. BeatTyped
  BY DEF BeatInv
<1>5. /\ now \in Nat /\ now' \in Nat /\ next \in Nat /\ sendBy \in Int /\ beats \in Nat
      /\ heard \in Nat /\ cadenceSeen \in Nat /\ stalledAt \in Nat
      /\ up \in Seq(Nat) /\ down \in Seq(Nat)
  BY <1>1, <1>4 DEF BeatTyped
<1>6. BeatTyped'
  BY <1>1, <1>2, <1>4, BeatConstants DEF BeatTyped
<1>7. InOrder(up)' /\ InOrder(down)'
  <2>1. /\ \A i \in 1 .. Len(up) : up[i] <= now /\ up[i] \in Nat
        /\ \A i \in 1 .. Len(down) : down[i] <= now /\ down[i] \in Nat
    BY <1>5 DEF BeatInv, InOrder
  <2>2. /\ \A i \in 1 .. Len(up) : up[i] <= now'
        /\ \A i \in 1 .. Len(down) : down[i] <= now'
    BY <2>1, <1>1, <1>5
  <2>3. QED
    BY <2>2, <1>1 DEF BeatInv, InOrder
<1>8. Beat!Sending' = Beat!Sending /\ Beat!Deadline' = Beat!Deadline /\ Beat!Deadline \in Nat
  BY <1>1, <1>5, BeatConstants DEF Beat!Sending, Beat!Deadline
<1>9. OnSchedule'
  BY <1>1, <1>5, <1>8, BeatConstants DEF BeatInv, OnSchedule
<1>10. NothingOverdue'
  <2>1. verdict = "alive" =>
          /\ Beat!Sending => now' <= sendBy
          /\ ~Beat!Sending => now' <= next + Lag
    BY <1>1, <1>3, <1>5, BeatConstants
  <2>2. verdict = "alive" => now' <= Beat!Deadline + Lag
    BY <1>1, <1>3, <1>5, <1>8, BeatConstants
  <2>3. online => now' <= cadenceSeen + TTL + Lag
    BY <1>1, <1>3, <1>5, BeatConstants
  <2>4. QED
    BY <2>1, <2>2, <2>3, <1>1, <1>2, <1>8 DEF NothingOverdue
<1>11. SlotsAreMultiples'
  <2>1. HeartbeatPeriod * (beats + 1) \in Nat /\ HeartbeatPeriod * beats \in Nat
    BY <1>5, BeatConstants
  <2>2. /\ HeartbeatPeriod * (beats + 1) <= now => HeartbeatPeriod * (beats + 1) <= now'
        /\ HeartbeatPeriod * beats <= now => HeartbeatPeriod * beats <= now'
    BY <2>1, <1>1, <1>5
  <2>3. QED
    BY <2>2, <1>1, <1>8 DEF BeatInv, SlotsAreMultiples
<1>12. FiresAreDueBeats'
  BY <1>1, <1>5, <1>8 DEF BeatInv, FiresAreDueBeats
<1>13. ASSUME Beat!Provisioned, cadenceLink = "good" PROVE Flowing'
  <2>1. Flowing
    BY <1>13 DEF BeatInv
  <2>2. /\ up # <<>> => now < Head(up) + Latency
        /\ down # <<>> => now < Head(down) + Latency
    BY <1>13 DEF Beat!Tick, Beat!OnTime
  <2>3. up # <<>> => now' <= up[1] + Latency
    <3> SUFFICES ASSUME up # <<>> PROVE now' <= up[1] + Latency
      OBVIOUS
    <3>1. Head(up) = up[1] /\ up[1] \in Nat
      BY <1>5, FrameArrived
    <3>2. QED
      BY <3>1, <2>2, <1>1, <1>5, BeatConstants
  <2>4. down # <<>> => now' <= down[1] + Latency
    <3> SUFFICES ASSUME down # <<>> PROVE now' <= down[1] + Latency
      OBVIOUS
    <3>1. Head(down) = down[1] /\ down[1] \in Nat
      BY <1>5, FrameArrived
    <3>2. QED
      BY <3>1, <2>2, <1>1, <1>5, BeatConstants
  <2>5. QED
    BY <2>1, <2>3, <2>4, <1>1, <1>2, <1>8 DEF Flowing, Before, LastOf
<1>14. QED
  BY <1>1, <1>6, <1>7, <1>9, <1>10, <1>11, <1>12, <1>13 DEF BeatInv, Beat!Provisioned

LEMMA BeatInvNext == BeatInv /\ [Beat!Next]_(Beat!vars) => BeatInv'
<1> SUFFICES ASSUME BeatInv, [Beat!Next]_(Beat!vars) PROVE BeatInv'
  OBVIOUS
<1>1. CASE UNCHANGED Beat!vars
  <2>1. /\ now' = now /\ next' = next /\ sendBy' = sendBy /\ beats' = beats /\ gen' = gen
        /\ heard' = heard /\ committed' = committed /\ verdict' = verdict
        /\ cadenceSeen' = cadenceSeen /\ up' = up /\ down' = down
        /\ cadenceLink' = cadenceLink /\ stalledAt' = stalledAt
    BY <1>1 DEF Beat!vars, Beat!client, Beat!server, Beat!wire
  <2>2. online' = online
    BY <1>1 DEF Beat!vars, Beat!client, Beat!server, Beat!wire
  <2>3. BeatTyped' /\ InOrder(up)' /\ InOrder(down)'
    BY <2>1, <2>2 DEF BeatInv, BeatTyped, InOrder
  <2>4. OnSchedule' /\ SlotsAreMultiples' /\ FiresAreDueBeats'
    BY <2>1 DEF BeatInv, OnSchedule, SlotsAreMultiples, FiresAreDueBeats, Beat!Sending, Beat!Deadline
  <2>5. NothingOverdue'
    BY <2>1, <2>2 DEF BeatInv, NothingOverdue, Beat!Sending, Beat!Deadline
  <2>6. Flowing => Flowing'
    BY <2>1, <2>2 DEF Flowing, Before, LastOf, Beat!Sending
  <2>7. QED
    BY <2>1, <2>3, <2>4, <2>5, <2>6 DEF BeatInv, Beat!Provisioned
<1>2. CASE Beat!BeatArm
  BY <1>2, BeatArmKeeps
<1>3. CASE Beat!BeatSend
  BY <1>3, BeatSendKeeps
<1>4. CASE Beat!DeadlineFires
  BY <1>4, DeadlineFiresKeeps
<1>5. CASE \E g \in committed : Beat!WatchDead(g)
  BY <1>5, WatchDeadKeeps
<1>6. CASE Beat!PongArrives
  BY <1>6, PongArrivesKeeps
<1>7. CASE Beat!BeatArrives
  BY <1>7, BeatArrivesKeeps
<1>8. CASE Beat!Expire
  BY <1>8, ExpireKeeps
<1>9. CASE Beat!Stall
  BY <1>9, StallKeeps
<1>10. CASE Beat!Resume
  BY <1>10, ResumeKeeps
<1>11. CASE Beat!Tick
  BY <1>11, TickKeeps
<1>12. QED
  BY <1>1, <1>2, <1>3, <1>4, <1>5, <1>6, <1>7, <1>8, <1>9, <1>10, <1>11 DEF Beat!Next

-----------------------------------------------------------------------------
(* Cadence: what follows from the invariant *)

LEMMA BeatInvTypes == BeatInv => Beat!TypeOK
<1> SUFFICES ASSUME BeatInv PROVE Beat!TypeOK
  OBVIOUS
<1>1. BeatTyped /\ InOrder(up) /\ InOrder(down) /\ OnSchedule
  BY DEF BeatInv
<1>2. up \in Seq(0 .. now) /\ down \in Seq(0 .. now)
  BY <1>1, FeedIsPast DEF BeatTyped
<1>3. /\ now \in 0 .. MaxNow /\ next \in 1 .. (MaxNow + HeartbeatPeriod)
      /\ beats \in 0 .. MaxNow /\ heard \in 0 .. now /\ cadenceSeen \in 0 .. now
      /\ stalledAt \in 0 .. now
  BY <1>1, BeatConstants DEF BeatTyped, OnSchedule
<1>4. sendBy \in {Beat!NoSend} \cup 0 .. (MaxNow + Lag)
  <2>1. CASE Beat!Sending
    BY <2>1, <1>1, BeatConstants DEF BeatTyped, OnSchedule
  <2>2. CASE ~Beat!Sending
    BY <2>2 DEF Beat!Sending
  <2>3. QED
    BY <2>1, <2>2
<1>5. /\ committed \subseteq 1 .. gen /\ verdict \in {"alive", "dead"}
      /\ cadenceLink \in {"good", "stalled", "resumed"}
  BY <1>1 DEF BeatTyped
<1>6. online \in BOOLEAN
  BY <1>1 DEF BeatTyped
<1>7. QED
  BY <1>2, <1>3, <1>4, <1>5, <1>6 DEF Beat!TypeOK

LEMMA BeatInvAlarms == BeatInv => Beat!NoFalseAlarm /\ Beat!SilenceIsNoticed
<1> SUFFICES ASSUME BeatInv PROVE Beat!NoFalseAlarm /\ Beat!SilenceIsNoticed
  OBVIOUS
<1>1. Beat!NoFalseAlarm
  BY DEF BeatInv, Flowing, Beat!NoFalseAlarm
<1>2. ASSUME cadenceLink = "stalled", now > stalledAt + DeadPeerInterval + Lag
      PROVE  verdict = "dead"
  <2>1. heard <= stalledAt /\ heard \in Nat /\ stalledAt \in Nat /\ now \in Nat
    BY <1>2 DEF BeatInv, FiresAreDueBeats, BeatTyped
  <2>2. verdict = "alive" => now <= heard + DeadPeerInterval + Lag
    BY DEF BeatInv, NothingOverdue, Beat!Deadline
  <2>3. verdict # "alive"
    BY <2>1, <2>2, <1>2, BeatConstants
  <2>4. QED
    BY <2>3 DEF BeatInv, BeatTyped
<1>3. ASSUME cadenceLink = "stalled", now > stalledAt + TTL + Lag
      PROVE  ~online
  <2>1. cadenceSeen <= stalledAt /\ cadenceSeen \in Nat /\ stalledAt \in Nat /\ now \in Nat
    BY <1>3 DEF BeatInv, FiresAreDueBeats, BeatTyped
  <2>2. online => now <= cadenceSeen + TTL + Lag
    BY DEF BeatInv, NothingOverdue
  <2>3. QED
    BY <2>1, <2>2, <1>3, BeatConstants
<1>4. QED
  BY <1>1, <1>2, <1>3 DEF Beat!SilenceIsNoticed

LEMMA BeatInvCadence == BeatInv => Beat!CadenceIsExact
<1> SUFFICES ASSUME BeatInv, Lag < HeartbeatPeriod, verdict = "alive"
             PROVE  /\ beats <= now \div HeartbeatPeriod
                    /\ ~Beat!Sending /\ next > now => beats = (next \div HeartbeatPeriod) - 1
  BY DEF Beat!CadenceIsExact
<1>1. beats \in Nat /\ now \in Nat /\ next \in Nat
  BY DEF BeatInv, BeatTyped
<1>2. HeartbeatPeriod \in Nat /\ HeartbeatPeriod > 0
  BY BeatConstants
<1>3. HeartbeatPeriod * beats <= now
  <2>1. CASE Beat!Sending
    <3>1. HeartbeatPeriod * (beats + 1) <= now
      BY <2>1 DEF BeatInv, SlotsAreMultiples
    <3>2. HeartbeatPeriod * (beats + 1) = HeartbeatPeriod * beats + HeartbeatPeriod /\ HeartbeatPeriod * beats \in Nat
      BY <1>1, <1>2
    <3>3. QED
      BY <3>1, <3>2, <1>1, <1>2
  <2>2. CASE ~Beat!Sending
    BY <2>2 DEF BeatInv, SlotsAreMultiples
  <2>3. QED
    BY <2>1, <2>2
<1>4. beats <= now \div HeartbeatPeriod
  <2> DEFINE q == now \div HeartbeatPeriod
  <2>1. q \in Nat /\ now < HeartbeatPeriod * q + HeartbeatPeriod
    BY <1>1, <1>2, DivFloor
  <2> HIDE DEF q
  <2>2. SUFFICES ASSUME q + 1 <= beats PROVE FALSE
    BY <2>1, <1>1 DEF q
  <2>3. HeartbeatPeriod * (q + 1) <= HeartbeatPeriod * beats
    BY <2>1, <2>2, <1>1, <1>2
  <2>4. HeartbeatPeriod * (q + 1) = HeartbeatPeriod * q + HeartbeatPeriod
    BY <2>1, <1>2
  <2>5. HeartbeatPeriod * q \in Nat /\ HeartbeatPeriod * beats \in Nat
    BY <2>1, <1>1, <1>2
  <2>6. QED
    BY <2>1, <2>3, <2>4, <2>5, <1>1, <1>2, <1>3
<1>5. ASSUME ~Beat!Sending PROVE beats = (next \div HeartbeatPeriod) - 1
  <2>1. next = HeartbeatPeriod * (beats + 1)
    BY <1>5 DEF BeatInv, SlotsAreMultiples
  <2>2. HeartbeatPeriod * (beats + 1) <= next /\ next < HeartbeatPeriod * (beats + 1) + HeartbeatPeriod
    BY <2>1, <1>1, <1>2
  <2>3. beats + 1 \in Nat
    BY <1>1
  <2>4. next \div HeartbeatPeriod = beats + 1
    BY <2>2, <2>3, <1>1, <1>2, DivIs
  <2>5. QED
    BY <2>4, <1>1
<1>6. QED
  BY <1>4, <1>5

\* Only the watcher of the current generation declares the peer dead, and that
\* generation's deadline had passed.
LEMMA BeatInvVerdict ==
  BeatInv /\ [Beat!Next]_(Beat!vars) => (verdict' # verdict => heard + DeadPeerInterval <= now)
<1> SUFFICES ASSUME BeatInv, [Beat!Next]_(Beat!vars), verdict' # verdict
             PROVE  heard + DeadPeerInterval <= now
  OBVIOUS
<1>1. PICK g \in committed : Beat!WatchDead(g)
  BY DEF Beat!vars, Beat!client, Beat!server, Beat!wire, Beat!Next, Beat!BeatArm, Beat!BeatSend, Beat!DeadlineFires, Beat!PongArrives,
     Beat!BeatArrives, Beat!Expire, Beat!Stall, Beat!Resume, Beat!Tick
<1>2. g = gen
  BY <1>1 DEF Beat!WatchDead
<1>3. QED
  BY <1>1, <1>2 DEF BeatInv, FiresAreDueBeats, Beat!Deadline

\* The watchdog of internal/control and the lease of internal/coordinator/presence,
\* for every period, interval, TTL, lateness and latency: no alarm while the
\* link works and the intervals leave room, none late when it stalls, a beat for
\* every slot, and no verdict before a whole interval of silence.
THEOREM AlarmsAreRightAlways == Beat!Spec => AlarmsAreRight
<1>1. Beat!Spec => []BeatInv
  BY BeatInvInit, BeatInvNext, PTL DEF Beat!Spec
<1>2. Beat!Spec => []Beat!TypeOK /\ []Beat!NoFalseAlarm /\ []Beat!SilenceIsNoticed /\ []Beat!CadenceIsExact
  BY <1>1, BeatInvTypes, BeatInvAlarms, BeatInvCadence, PTL
<1>3. Beat!Spec => Beat!VerdictIsTrue
  BY <1>1, BeatInvVerdict, PTL DEF Beat!Spec, Beat!VerdictIsTrue
<1>4. QED
  BY <1>2, <1>3, PTL DEF AlarmsAreRight, Beat!AlarmsAreRight

-----------------------------------------------------------------------------
(* Terminal: the inductive invariant *)

\* What is listed is the broadcast, a conversation of the hub or a device of
\* the roster, so that a rebuild drops at most this device.
ListIsKnown ==
  /\ Term!Broadcast \in list
  /\ list \subseteq {Term!Broadcast} \cup hub \cup roster

\* The change that is handled last brings the status line to the machine's state.
StatusCatchesUp ==
  /\ connFeed = <<>> => connState = machine
  /\ connFeed # <<>> => connFeed[Len(connFeed)] = machine

ScreenInv == Term!TypeOK /\ ListIsKnown /\ StatusCatchesUp /\ Term!LateNeverLost

\* What is assumed of the devices and the channels.
LEMMA ScreenConstants ==
  /\ ScreenDevices \subseteq Nat /\ 0 \notin ScreenDevices /\ ScreenMe \in ScreenDevices
  /\ InboundSize \in Nat /\ InboundSize > 0 /\ RosterSize \in Nat /\ RosterSize > 0
  /\ ScreenMaxFiled \in Nat
  BY ApplicationAssumption DEF Term!TerminalAssumption

\* Every message belongs to a conversation, whoever this device takes itself for.
LEMMA KeyIsKey ==
  ASSUME NEW local, NEW m \in Term!Messages
  PROVE  Term!ConversationKeyFor(local, m) \in Term!Keys
  BY DEF Term!ConversationKeyFor, Term!Messages, Term!Keys, Term!Broadcast

-----------------------------------------------------------------------------
(* Terminal: each step keeps the invariant *)

LEMMA ScreenInvInit == Term!Init => ScreenInv
<1> SUFFICES ASSUME Term!Init PROVE ScreenInv
  OBVIOUS
<1>1. /\ identity = 0 /\ machine = "disconnected" /\ hub = {} /\ roster = {}
      /\ connFeed = <<>> /\ rosterFeed = 0 /\ inbound = <<>> /\ terminalFiled = 0
      /\ unseen = [k \in Term!Keys |-> 0] /\ unread = [k \in Term!Keys |-> 0]
      /\ list = {0} /\ current = 0 /\ connectedAs = 0 /\ connState = "disconnected"
  BY DEF Term!Init, Term!Nobody, Term!Broadcast
<1>2. help \in BOOLEAN /\ text \in BOOLEAN
  BY DEF Term!Init
<1>3. unseen \in [Term!Keys -> Nat] /\ unread \in [Term!Keys -> Nat]
  BY <1>1
<1>4. connFeed \in Seq(Term!ConnStates) /\ inbound \in Seq(Term!Messages)
  BY <1>1
<1>5. Term!TypeOK
  BY <1>1, <1>2, <1>3, <1>4, ScreenConstants
     DEF Term!TypeOK, Term!Nobody, Term!ConnStates, Term!Keys, Term!Broadcast
<1>6. ListIsKnown /\ StatusCatchesUp /\ Term!LateNeverLost
  BY <1>1 DEF ListIsKnown, StatusCatchesUp, Term!LateNeverLost, Term!Broadcast
<1>7. QED
  BY <1>5, <1>6 DEF ScreenInv

\* A step that changes only the input line, the overlay, or the selection
\* within the list.
LEMMA ScreenOnlyKeeps ==
  ASSUME ScreenInv,
         UNCHANGED <<identity, machine, hub, roster, connFeed, rosterFeed, inbound, terminalFiled,
                     list, connectedAs, connState>>,
         current' \in list,
         unread' \in [Term!Keys -> Nat], unseen' \in [Term!Keys -> Nat],
         help' \in BOOLEAN, text' \in BOOLEAN
  PROVE  ScreenInv'
<1>1. Term!TypeOK'
  BY DEF ScreenInv, Term!TypeOK
<1>2. ListIsKnown' /\ StatusCatchesUp'
  BY DEF ScreenInv, ListIsKnown, StatusCatchesUp
<1>3. Term!LateNeverLost'
  BY DEF ScreenInv, Term!LateNeverLost
<1>4. QED
  BY <1>1, <1>2, <1>3 DEF ScreenInv

\* What a switch of conversation does.
LEMMA SwitchEffect ==
  ASSUME ScreenInv, NEW a, NEW k \in list, Term!Switch(a, k), a \in {"nextConv", "prevConv", "jumpConv"}
  PROVE  /\ ScreenInv'
         /\ ~help /\ current' = k
         /\ \A j \in Term!Keys : j # k => unread'[j] = unread[j]
         /\ UNCHANGED <<rosterFeed, inbound>>
<1>1. /\ UNCHANGED <<identity, machine, hub, roster, connFeed, rosterFeed, inbound, terminalFiled,
                     list, connectedAs, connState>>
      /\ UNCHANGED <<help, text>>
      /\ current' = k /\ unread' = [unread EXCEPT ![k] = 0] /\ unseen' = [unseen EXCEPT ![k] = 0]
  BY DEF Term!Switch, Term!Select, Term!feeds
<1>2. unread \in [Term!Keys -> Nat] /\ unseen \in [Term!Keys -> Nat]
  BY DEF ScreenInv, Term!TypeOK
<1>3. help \in BOOLEAN /\ text \in BOOLEAN
  BY DEF ScreenInv, Term!TypeOK
<1>4. ScreenInv'
  <2>1. unread' \in [Term!Keys -> Nat] /\ unseen' \in [Term!Keys -> Nat]
    BY <1>1, <1>2
  <2>2. help' \in BOOLEAN /\ text' \in BOOLEAN
    BY <1>1, <1>3
  <2>3. current' \in list
    BY <1>1
  <2>4. QED
    BY <2>1, <2>2, <2>3, <1>1, ScreenOnlyKeeps
<1>5. ~help
  BY DEF Term!Switch, Term!Acts
<1>6. \A j \in Term!Keys : j # k => unread'[j] = unread[j]
  BY <1>1, <1>2
<1>7. QED
  BY <1>1, <1>4, <1>5, <1>6

\* A rebuild lists what hub and roster hold, and keeps the selection unless it
\* is this device itself.
LEMMA RefreshEffect ==
  ASSUME ScreenInv, NEW local \in {Term!Nobody, ScreenMe}, NEW extra, Term!Refresh(local, extra)
  PROVE  /\ list' \subseteq Term!Keys /\ current' \in list'
         /\ Term!Broadcast \in list' /\ list' \subseteq {Term!Broadcast} \cup hub \cup roster
         /\ hub \subseteq list' /\ roster \ {ScreenMe} \subseteq list'
         /\ unseen' \in [Term!Keys -> Nat]
         /\ current' = current \/ current = ScreenMe
<1>1. /\ list' = {Term!Broadcast} \cup hub \cup (roster \ {local})
      /\ current' = (IF current \in list' THEN current ELSE Term!Broadcast)
      /\ unseen' = [unseen EXCEPT ![current'] = 0]
  BY DEF Term!Refresh
<1>2. /\ hub \subseteq Term!Keys /\ roster \subseteq ScreenDevices /\ unseen \in [Term!Keys -> Nat]
      /\ current \in list
  BY DEF ScreenInv, Term!TypeOK
<1>3. list' \subseteq Term!Keys
  BY <1>1, <1>2 DEF Term!Keys
<1>4. current' \in list'
  BY <1>1
<1>5. unseen' \in [Term!Keys -> Nat]
  BY <1>1, <1>2
<1>6. roster \ {ScreenMe} \subseteq list'
  BY <1>1, <1>2, ScreenConstants DEF Term!Nobody
<1>7. list \subseteq {Term!Broadcast} \cup hub \cup roster
  BY DEF ScreenInv, ListIsKnown
<1>8. current' = current \/ current = ScreenMe
  BY <1>1, <1>2, <1>6, <1>7
<1>9. QED
  BY <1>1, <1>3, <1>4, <1>5, <1>6, <1>8

LEMMA LearnIdentityKeeps ==
  ASSUME ScreenInv, Term!LearnIdentity
  PROVE  ScreenInv'
<1>1. /\ identity' = ScreenMe
      /\ UNCHANGED <<machine, hub, roster, connFeed, rosterFeed, inbound, terminalFiled,
                     unseen, list, current, unread, connectedAs, connState>>
      /\ UNCHANGED <<help, text>>
  BY DEF Term!LearnIdentity, Term!screen
<1>2. help' \in BOOLEAN /\ text' \in BOOLEAN
  BY <1>1 DEF ScreenInv, Term!TypeOK
<1>3. Term!TypeOK'
  BY <1>1, <1>2 DEF ScreenInv, Term!TypeOK
<1>4. ListIsKnown' /\ StatusCatchesUp' /\ Term!LateNeverLost'
  BY <1>1 DEF ScreenInv, ListIsKnown, StatusCatchesUp, Term!LateNeverLost
<1>5. QED
  BY <1>3, <1>4 DEF ScreenInv

LEMMA ChangeKeeps ==
  ASSUME ScreenInv, NEW s \in Term!ConnStates, Term!Change(s)
  PROVE  ScreenInv'
<1>1. /\ machine' = s /\ connFeed' = Append(connFeed, s)
      /\ UNCHANGED <<identity, hub, roster, rosterFeed, inbound, terminalFiled,
                     unseen, list, current, unread, connectedAs, connState>>
      /\ UNCHANGED <<help, text>>
  BY DEF Term!Change, Term!screen
<1>2. help' \in BOOLEAN /\ text' \in BOOLEAN
  BY <1>1 DEF ScreenInv, Term!TypeOK
<1>3. connFeed \in Seq(Term!ConnStates)
  BY DEF ScreenInv, Term!TypeOK
<1>4. /\ connFeed' \in Seq(Term!ConnStates) /\ Len(connFeed') = Len(connFeed) + 1
      /\ Len(connFeed) \in Nat /\ connFeed'[Len(connFeed) + 1] = s
  BY <1>1, <1>3
<1>5. connFeed' # <<>>
  BY <1>4
<1>6. Term!TypeOK'
  BY <1>1, <1>2, <1>4 DEF ScreenInv, Term!TypeOK
<1>7. StatusCatchesUp'
  BY <1>1, <1>4, <1>5 DEF StatusCatchesUp
<1>8. ListIsKnown' /\ Term!LateNeverLost'
  BY <1>1 DEF ScreenInv, ListIsKnown, Term!LateNeverLost
<1>9. QED
  BY <1>6, <1>7, <1>8 DEF ScreenInv

\* A device the view learns of has an event on its way, if only one that was
\* there before.
LEMMA RosterArrivesKeeps ==
  ASSUME ScreenInv, NEW d \in ScreenDevices, Term!RosterArrives(d)
  PROVE  ScreenInv' /\ ~Term!EventHandled /\ unread' = unread
<1>1. /\ roster' = roster \cup {d}
      /\ rosterFeed' = (IF rosterFeed < RosterSize THEN rosterFeed + 1 ELSE rosterFeed)
      /\ UNCHANGED <<identity, machine, hub, connFeed, inbound, terminalFiled,
                     unseen, list, current, unread, connectedAs, connState>>
      /\ UNCHANGED <<help, text>>
  BY DEF Term!RosterArrives, Term!screen
<1>2. help' \in BOOLEAN /\ text' \in BOOLEAN
  BY <1>1 DEF ScreenInv, Term!TypeOK
<1>3. rosterFeed \in 0 .. RosterSize
  BY DEF ScreenInv, Term!TypeOK
<1>4. rosterFeed' \in 0 .. RosterSize /\ rosterFeed' > 0 /\ rosterFeed' >= rosterFeed
  BY <1>1, <1>3, ScreenConstants
<1>5. Term!TypeOK'
  BY <1>1, <1>2, <1>4 DEF ScreenInv, Term!TypeOK
<1>6. ListIsKnown' /\ StatusCatchesUp'
  BY <1>1 DEF ScreenInv, ListIsKnown, StatusCatchesUp
<1>7. Term!LateNeverLost'
  BY <1>1, <1>4 DEF ScreenInv, Term!LateNeverLost
<1>8. inbound \in Seq(Term!Messages) /\ inbound' = inbound
  BY <1>1 DEF ScreenInv, Term!TypeOK
<1>9. ~Term!EventHandled
  BY <1>3, <1>4, <1>8 DEF Term!EventHandled
<1>10. QED
  BY <1>1, <1>5, <1>6, <1>7, <1>9 DEF ScreenInv

\* A message that is filed has an event on its way: a channel without room for
\* it holds another one.
LEMMA DeliverKeeps ==
  ASSUME ScreenInv, NEW m \in Term!Messages, Term!Deliver(m)
  PROVE  ScreenInv' /\ ~Term!EventHandled /\ unread' = unread
<1> DEFINE key == Term!ConversationKeyFor(ScreenMe, m)
<1>1. /\ terminalFiled < ScreenMaxFiled /\ terminalFiled' = terminalFiled + 1
      /\ hub' = hub \cup {key}
      /\ inbound' = (IF Len(inbound) < InboundSize THEN Append(inbound, m) ELSE inbound)
      /\ UNCHANGED <<identity, machine, roster, connFeed, rosterFeed,
                     list, current, unread, connectedAs, connState>>
      /\ UNCHANGED <<help, text>>
  BY DEF Term!Deliver, Term!screen
<1>2. unseen' = [unseen EXCEPT ![key] = IF key = current \/ m.from = ScreenMe THEN @ ELSE @ + 1]
  BY DEF Term!Deliver
<1>3. key \in Term!Keys
  BY KeyIsKey
<1> HIDE DEF key
<1>4. help' \in BOOLEAN /\ text' \in BOOLEAN
  BY <1>1 DEF ScreenInv, Term!TypeOK
<1>5. unseen' \in [Term!Keys -> Nat]
  <2>1. unseen \in [Term!Keys -> Nat]
    BY DEF ScreenInv, Term!TypeOK
  <2>2. unseen[key] \in Nat /\ unseen[key] + 1 \in Nat
    BY <2>1, <1>3
  <2>3. QED
    BY <2>1, <2>2, <1>2
<1>6. inbound \in Seq(Term!Messages) /\ Len(inbound) \in Nat
  BY DEF ScreenInv, Term!TypeOK
<1>7. inbound' \in Seq(Term!Messages) /\ Len(inbound') > 0 /\ Len(inbound') >= Len(inbound)
  <2>1. CASE Len(inbound) < InboundSize
    <3>1. inbound' = Append(inbound, m)
      BY <2>1, <1>1
    <3>2. QED
      BY <3>1, <1>6
  <2>2. CASE ~(Len(inbound) < InboundSize)
    BY <2>2, <1>1, <1>6, ScreenConstants
  <2>3. QED
    BY <2>1, <2>2
<1>8. inbound' # <<>>
  BY <1>7
<1>9. Term!TypeOK'
  BY <1>1, <1>3, <1>4, <1>5, <1>7, ScreenConstants DEF ScreenInv, Term!TypeOK
<1>10. ListIsKnown' /\ StatusCatchesUp'
  BY <1>1 DEF ScreenInv, ListIsKnown, StatusCatchesUp
<1>11. Term!LateNeverLost'
  BY <1>8 DEF Term!LateNeverLost
<1>12. ~Term!EventHandled
  <2>1. rosterFeed \in Nat /\ rosterFeed' = rosterFeed
    BY <1>1 DEF ScreenInv, Term!TypeOK
  <2>2. QED
    BY <2>1, <1>6, <1>7 DEF Term!EventHandled
<1>13. QED
  BY <1>1, <1>9, <1>10, <1>11, <1>12 DEF ScreenInv

LEMMA UpdateConnKeeps ==
  ASSUME ScreenInv, Term!UpdateConn
  PROVE  ScreenInv'
<1>1. /\ Len(connFeed) > 0 /\ connFeed' = Tail(connFeed) /\ connState' = Head(connFeed)
      /\ connectedAs' = (IF Head(connFeed) = "online" THEN identity ELSE connectedAs)
      /\ UNCHANGED <<identity, machine, hub, roster, rosterFeed, inbound, terminalFiled,
                     unseen, list, current, unread>>
      /\ UNCHANGED <<help, text>>
  BY DEF Term!UpdateConn, Term!HasEvent
<1>2. help' \in BOOLEAN /\ text' \in BOOLEAN
  BY <1>1 DEF ScreenInv, Term!TypeOK
<1>3. connFeed \in Seq(Term!ConnStates) /\ connFeed # <<>> /\ Len(connFeed) \in Nat
  BY <1>1 DEF ScreenInv, Term!TypeOK
<1>4. /\ connFeed' \in Seq(Term!ConnStates) /\ connState' \in Term!ConnStates
      /\ connState' = connFeed[1] /\ Len(connFeed') = Len(connFeed) - 1
      /\ \A i \in 1 .. Len(connFeed') : connFeed'[i] = connFeed[i + 1]
  BY <1>1, <1>3
<1>5. connFeed' = <<>> <=> Len(connFeed') = 0
  BY <1>4, EmptySeq
<1>6. Term!TypeOK'
  BY <1>1, <1>2, <1>4 DEF ScreenInv, Term!TypeOK
<1>7. StatusCatchesUp'
  <2>1. connFeed[Len(connFeed)] = machine
    BY <1>3 DEF ScreenInv, StatusCatchesUp
  <2>2. CASE connFeed' = <<>>
    <3>1. Len(connFeed) = 1
      BY <2>2, <1>3, <1>4, <1>5
    <3>2. connState' = machine'
      BY <3>1, <2>1, <1>1, <1>4
    <3>3. QED
      BY <3>2, <2>2 DEF StatusCatchesUp
  <2>3. CASE connFeed' # <<>>
    <3>1. Len(connFeed') \in 1 .. Len(connFeed') /\ Len(connFeed') + 1 = Len(connFeed)
      BY <2>3, <1>3, <1>4, <1>5
    <3>2. connFeed'[Len(connFeed')] = machine
      BY <3>1, <2>1, <1>4
    <3>3. QED
      BY <3>2, <2>3, <1>1 DEF StatusCatchesUp
  <2>4. QED
    BY <2>2, <2>3
<1>8. ListIsKnown' /\ Term!LateNeverLost'
  BY <1>1 DEF ScreenInv, ListIsKnown, Term!LateNeverLost
<1>9. QED
  BY <1>6, <1>7, <1>8 DEF ScreenInv

LEMMA UpdateRosterKeeps ==
  ASSUME ScreenInv, Term!UpdateRoster
  PROVE  ScreenInv' /\ unread' = unread /\ (current' = current \/ current = ScreenMe)
<1>1. /\ rosterFeed > 0 /\ rosterFeed' = rosterFeed - 1 /\ connectedAs' = identity
      /\ UNCHANGED <<identity, machine, hub, roster, connFeed, inbound, terminalFiled, unread, connState>>
      /\ UNCHANGED <<help, text>>
  BY DEF Term!UpdateRoster, Term!HasEvent
<1>2. identity \in {Term!Nobody, ScreenMe} /\ Term!Refresh(identity, {})
  BY DEF ScreenInv, Term!TypeOK, Term!UpdateRoster
<1>3. /\ list' \subseteq Term!Keys /\ current' \in list'
      /\ Term!Broadcast \in list' /\ list' \subseteq {Term!Broadcast} \cup hub \cup roster
      /\ hub \subseteq list' /\ roster \ {ScreenMe} \subseteq list'
      /\ unseen' \in [Term!Keys -> Nat]
      /\ current' = current \/ current = ScreenMe
  BY <1>2, RefreshEffect
<1>4. help' \in BOOLEAN /\ text' \in BOOLEAN
  BY <1>1 DEF ScreenInv, Term!TypeOK
<1>5. rosterFeed' \in 0 .. RosterSize
  BY <1>1, ScreenConstants DEF ScreenInv, Term!TypeOK
<1>6. Term!TypeOK'
  BY <1>1, <1>2, <1>3, <1>4, <1>5 DEF ScreenInv, Term!TypeOK
<1>7. ListIsKnown' /\ StatusCatchesUp' /\ Term!LateNeverLost'
  BY <1>1, <1>3 DEF ScreenInv, ListIsKnown, StatusCatchesUp, Term!LateNeverLost
<1>8. QED
  BY <1>1, <1>3, <1>6, <1>7 DEF ScreenInv

LEMMA UpdateInboundKeeps ==
  ASSUME ScreenInv, Term!UpdateInbound
  PROVE  /\ ScreenInv' /\ (current' = current \/ current = ScreenMe)
         /\ \A j \in Term!Keys : unread'[j] >= unread[j]
<1> DEFINE key == Term!ConversationKeyFor(connectedAs, Head(inbound))
<1>1. /\ Len(inbound) > 0 /\ inbound' = Tail(inbound)
      /\ UNCHANGED <<identity, machine, hub, roster, connFeed, rosterFeed, terminalFiled,
                     connectedAs, connState>>
      /\ UNCHANGED <<help, text>>
  BY DEF Term!UpdateInbound, Term!HasEvent
<1>2. connectedAs \in {Term!Nobody, ScreenMe} /\ Term!Refresh(connectedAs, {key})
  BY DEF ScreenInv, Term!TypeOK, Term!UpdateInbound
<1>3. unread' = [unread EXCEPT ![key] = IF key = current' THEN @ ELSE @ + 1]
  BY DEF Term!UpdateInbound
<1>4. /\ list' \subseteq Term!Keys /\ current' \in list'
      /\ Term!Broadcast \in list' /\ list' \subseteq {Term!Broadcast} \cup hub \cup roster
      /\ hub \subseteq list' /\ roster \ {ScreenMe} \subseteq list'
      /\ unseen' \in [Term!Keys -> Nat]
      /\ current' = current \/ current = ScreenMe
  BY <1>2, RefreshEffect
<1>5. help' \in BOOLEAN /\ text' \in BOOLEAN
  BY <1>1 DEF ScreenInv, Term!TypeOK
<1>6. inbound \in Seq(Term!Messages) /\ inbound # <<>>
  BY <1>1 DEF ScreenInv, Term!TypeOK
<1>7. inbound' \in Seq(Term!Messages) /\ Head(inbound) \in Term!Messages
  BY <1>1, <1>6
<1>8. key \in Term!Keys
  BY <1>7, KeyIsKey
<1> HIDE DEF key
<1>9. unread' \in [Term!Keys -> Nat] /\ \A j \in Term!Keys : unread'[j] >= unread[j]
  <2>1. unread \in [Term!Keys -> Nat]
    BY DEF ScreenInv, Term!TypeOK
  <2>2. unread[key] \in Nat /\ unread[key] + 1 \in Nat
    BY <2>1, <1>8
  <2> DEFINE n == IF key = current' THEN unread[key] ELSE unread[key] + 1
  <2>3. unread' = [unread EXCEPT ![key] = n]
    BY <1>3
  <2>4. n \in Nat /\ n >= unread[key]
    BY <2>2
  <2> HIDE DEF n
  <2>5. unread' \in [Term!Keys -> Nat]
    BY <2>1, <2>3, <2>4
  <2>6. ASSUME NEW j \in Term!Keys PROVE unread'[j] >= unread[j]
    <3>1. unread[j] \in Nat
      BY <2>1
    <3>2. CASE j = key
      BY <3>2, <2>1, <2>3, <2>4
    <3>3. CASE j # key
      BY <3>1, <3>3, <2>1, <2>3
    <3>4. QED
      BY <3>2, <3>3
  <2>7. QED
    BY <2>5, <2>6
<1>10. Term!TypeOK'
  BY <1>1, <1>4, <1>5, <1>7, <1>9 DEF ScreenInv, Term!TypeOK
<1>11. ListIsKnown' /\ StatusCatchesUp' /\ Term!LateNeverLost'
  BY <1>1, <1>4 DEF ScreenInv, ListIsKnown, StatusCatchesUp, Term!LateNeverLost
<1>12. QED
  BY <1>4, <1>9, <1>10, <1>11 DEF ScreenInv

\* A key that switches no conversation changes the line or the overlay.
LEMMA OtherKeysKeep ==
  ASSUME ScreenInv, Term!Type \/ Term!SendLine \/ Term!ToggleHelp \/ Term!CloseHelp
  PROVE  ScreenInv' /\ UNCHANGED <<rosterFeed, inbound, unread, current>>
<1>1. UNCHANGED <<identity, machine, hub, roster, connFeed, rosterFeed, inbound, terminalFiled,
                  unseen, list, current, unread, connectedAs, connState>>
  BY DEF Term!Type, Term!SendLine, Term!ToggleHelp, Term!CloseHelp, Term!feeds
<1>2. help' \in BOOLEAN /\ text' \in BOOLEAN
  BY DEF Term!Type, Term!SendLine, Term!ToggleHelp, Term!CloseHelp, ScreenInv, Term!TypeOK
<1>3. current' \in list /\ unread' \in [Term!Keys -> Nat] /\ unseen' \in [Term!Keys -> Nat]
  BY <1>1 DEF ScreenInv, Term!TypeOK
<1>4. QED
  BY <1>1, <1>2, <1>3, ScreenOnlyKeeps

-----------------------------------------------------------------------------
(* Terminal: the step as a whole *)

\* What every step keeps of the selection and of the markers.
SightHolds ==
  /\ \A k \in Term!Keys : unread'[k] < unread[k] => current' = k /\ ~help
  /\ Term!EventHandled => current' = current \/ current = ScreenMe

LEMMA QuietStepHolds ==
  ASSUME ScreenInv, unread' = unread, current' = current
  PROVE  SightHolds
<1>1. \A k \in Term!Keys : unread[k] \in Nat
  BY DEF ScreenInv, Term!TypeOK
<1>2. QED
  BY <1>1 DEF SightHolds

LEMMA ScreenInvNext == ScreenInv /\ [Term!Next]_(Term!vars) => ScreenInv' /\ SightHolds
<1> SUFFICES ASSUME ScreenInv, [Term!Next]_(Term!vars) PROVE ScreenInv' /\ SightHolds
  OBVIOUS
<1>0. unread \in [Term!Keys -> Nat] /\ inbound \in Seq(Term!Messages) /\ rosterFeed \in Nat
  BY DEF ScreenInv, Term!TypeOK
<1>1. CASE UNCHANGED Term!vars
  <2>1. /\ UNCHANGED <<identity, machine, hub, roster, connFeed, rosterFeed, inbound, terminalFiled,
                       unseen, list, current, unread, connectedAs, connState>>
        /\ UNCHANGED <<help, text>>
    BY <1>1 DEF Term!vars, Term!feeds, Term!screen
  <2>2. help' \in BOOLEAN /\ text' \in BOOLEAN
    BY <2>1 DEF ScreenInv, Term!TypeOK
  <2>3. current' \in list /\ unread' \in [Term!Keys -> Nat] /\ unseen' \in [Term!Keys -> Nat]
    BY <2>1 DEF ScreenInv, Term!TypeOK
  <2>4. QED
    BY <2>1, <2>2, <2>3, ScreenOnlyKeeps, QuietStepHolds
<1>2. CASE Term!LearnIdentity
  <2>1. unread' = unread /\ current' = current
    BY <1>2 DEF Term!LearnIdentity, Term!screen
  <2>2. QED
    BY <1>2, <2>1, LearnIdentityKeeps, QuietStepHolds
<1>3. ASSUME NEW s \in Term!ConnStates, Term!Change(s) PROVE ScreenInv' /\ SightHolds
  <2>1. unread' = unread /\ current' = current
    BY <1>3 DEF Term!Change, Term!screen
  <2>2. QED
    BY <1>3, <2>1, ChangeKeeps, QuietStepHolds
<1>4. ASSUME NEW d \in ScreenDevices, Term!RosterArrives(d) PROVE ScreenInv' /\ SightHolds
  <2>1. unread' = unread /\ current' = current
    BY <1>4 DEF Term!RosterArrives, Term!screen
  <2>2. QED
    BY <1>4, <2>1, RosterArrivesKeeps, QuietStepHolds
<1>5. ASSUME NEW m \in Term!Messages, Term!Deliver(m) PROVE ScreenInv' /\ SightHolds
  <2>1. unread' = unread /\ current' = current
    BY <1>5 DEF Term!Deliver, Term!screen
  <2>2. QED
    BY <1>5, <2>1, DeliverKeeps, QuietStepHolds
<1>6. CASE Term!UpdateConn
  <2>1. unread' = unread /\ current' = current
    BY <1>6 DEF Term!UpdateConn
  <2>2. QED
    BY <1>6, <2>1, UpdateConnKeeps, QuietStepHolds
<1>7. CASE Term!UpdateRoster
  <2>1. ScreenInv' /\ unread' = unread /\ (current' = current \/ current = ScreenMe)
    BY <1>7, UpdateRosterKeeps
  <2>2. \A k \in Term!Keys : ~(unread'[k] < unread[k])
    BY <2>1, <1>0
  <2>3. QED
    BY <2>1, <2>2 DEF SightHolds
<1>8. CASE Term!UpdateInbound
  <2>1. /\ ScreenInv' /\ (current' = current \/ current = ScreenMe)
        /\ \A j \in Term!Keys : unread'[j] >= unread[j]
    BY <1>8, UpdateInboundKeeps
  <2>2. unread' \in [Term!Keys -> Nat]
    BY <2>1 DEF ScreenInv, Term!TypeOK
  <2>3. \A k \in Term!Keys : ~(unread'[k] < unread[k])
    BY <2>1, <2>2, <1>0
  <2>4. QED
    BY <2>1, <2>3 DEF SightHolds
<1>9. ASSUME NEW a \in {"nextConv", "prevConv", "jumpConv"}, NEW k \in list, Term!Switch(a, k)
      PROVE  ScreenInv' /\ SightHolds
  <2>1. /\ ScreenInv' /\ ~help /\ current' = k
        /\ \A j \in Term!Keys : j # k => unread'[j] = unread[j]
        /\ UNCHANGED <<rosterFeed, inbound>>
    BY <1>9, SwitchEffect
  <2>2. \A j \in Term!Keys : unread'[j] < unread[j] => current' = j /\ ~help
    BY <2>1, <1>0
  <2>3. ~Term!EventHandled
    BY <2>1, <1>0 DEF Term!EventHandled
  <2>4. QED
    BY <2>1, <2>2, <2>3 DEF SightHolds
<1>10. CASE Term!NextConv \/ Term!PrevConv \/ \E n \in 1 .. 9 : Term!JumpConv(n)
  BY <1>9, <1>10 DEF Term!NextConv, Term!PrevConv, Term!JumpConv
<1>11. CASE Term!Type \/ Term!SendLine \/ Term!ToggleHelp \/ Term!CloseHelp
  BY <1>11, OtherKeysKeep, QuietStepHolds
<1>12. QED
  BY <1>1, <1>2, <1>3, <1>4, <1>5, <1>6, <1>7, <1>8, <1>10, <1>11 DEF Term!Next

\* The terminal's event loop and its three feeds (internal/tui and cmd/walkie), for
\* every set of devices and every size of the bounded channels: what a full
\* channel drops is listed late and not lost, the status line ends at the
\* machine's state, a marker goes away only on sight, and an event moves the
\* selection off nothing but this device's own name.
THEOREM ScreenIsTrueAlways == Term!Spec => ScreenIsTrue
<1>1. Term!Spec => []ScreenInv
  BY ScreenInvInit, ScreenInvNext, PTL DEF Term!Spec
<1>2. ScreenInv => Term!TypeOK /\ Term!LateNeverLost /\ Term!StatusIsTrue
  BY DEF ScreenInv, StatusCatchesUp, Term!StatusIsTrue
<1>3. SightHolds => \A k \in Term!Keys : unread'[k] < unread[k] => current' = k /\ ~help
  BY DEF SightHolds
<1>4. SightHolds => (Term!EventHandled => current' = current \/ current = ScreenMe)
  BY DEF SightHolds
<1>5. Term!Spec => Term!MarkersClearOnSight
  BY <1>1, <1>3, ScreenInvNext, PTL DEF Term!Spec, Term!MarkersClearOnSight
<1>6. Term!Spec => Term!PeerSelectionStable
  BY <1>1, <1>4, ScreenInvNext, PTL DEF Term!Spec, Term!PeerSelectionStable
<1>7. QED
  BY <1>1, <1>2, <1>5, <1>6, PTL DEF ScreenIsTrue, Term!ScreenIsTrue

=============================================================================
