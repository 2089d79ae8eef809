------------------------ MODULE OfflineQueue_proofs -------------------------
(***************************************************************************)
(* Proofs about OfflineQueue, for every set of recipients and handlers and *)
(* every value of the bounds.                                              *)
(***************************************************************************)
EXTENDS OfflineQueue, FiniteSetTheorems, TLAPS

-----------------------------------------------------------------------------
(* The inductive invariant *)

\* Inboxes are finite, so that counting them means something, and every cursor
\* has left 0 behind.
Countable ==
  \A r \in Recipients : IsFiniteSet(inbox[r]) /\ next[r] >= 1

\* What the sweep collected is expired, and its key still names it or nothing.
DueNamed ==
  \A k \in due :
    /\ Expired(k[2])
    /\ k[2].pos < next[k[1]]
    /\ \A row \in inbox[k[1]] : row.pos = k[2].pos => row = k[2]

\* Where the sweeping goroutine can be in each phase of the process, and what
\* the startup sweep has still to delete.
Booting ==
  /\ phase = "down" => pc = "none"
  /\ phase = "booting" => pc \in {"query", "deleting"}
  /\ phase = "open" => pc # "none"
  /\ bootAt <= now
  /\ phase = "booting" /\ pc = "deleting" =>
       \A r \in Recipients : \A row \in inbox[r] :
         row.at + TTL > bootAt \/ <<r, row>> \in due

Inv ==
  /\ TypeOK
  /\ Countable
  /\ CapRespected
  /\ PositionsOrdered
  /\ DueNamed
  /\ Booting
  /\ NoLapsedAtBoot
  /\ NoMissedDeadline

-----------------------------------------------------------------------------
(* Type correctness *)

\* A wire position converts to a natural number or to a negative one.
LEMMA Int64Type == \A p \in WirePositions : Int64(p) \in Int
  BY QueueAssumption DEF WirePositions, Int64

\* rearmLocked leaves the timer, the nudge, the snapshot and the fault count in
\* their ranges.
LEMMA RearmType ==
  ASSUME NEW table \in [Recipients -> SUBSET Row],
         RearmLocked(table), TypeOK
  PROVE  /\ timer' \in [state : {"nil", "armed", "spent"}, at : Nat]
         /\ wake' \in BOOLEAN
         /\ snap' \in {"none", "current", "stale"}
         /\ faults' \in Nat
<1>1. Rows(table) \subseteq Row
  BY DEF Rows
<1>2. CASE \E first \in EarliestRows(table) :
             timer' = [state |-> "armed", at |-> first.at + TTL] /\ UNCHANGED <<snap, faults>>
  BY <1>1, <1>2, QueueAssumption DEF RearmLocked, Nudge, EarliestRows, Row, TypeOK
<1>3. CASE Disarm /\ (UNCHANGED faults \/ Fault)
  BY <1>3, QueueAssumption DEF RearmLocked, Nudge, Disarm, Fault, NilTimer, TypeOK
<1>4. QED
  BY <1>2, <1>3 DEF RearmLocked

\* The empty queue of a process that is not running is well typed.
LEMMA TypeInit == Init => TypeOK
<1> USE QueueAssumption
<1> SUFFICES ASSUME Init PROVE TypeOK
  OBVIOUS
<1>1. wake \in BOOLEAN
  BY DEF Init
<1>2. /\ timer \in [state : {"nil", "armed", "spent"}, at : Nat]
      /\ inbox \in [Recipients -> SUBSET Row]
      /\ storing \in [Handlers -> {Idle} \cup [to : Recipients, sealed : BOOLEAN]]
  BY DEF Init, NilTimer
<1>3. QED
  BY <1>1, <1>2 DEF Init, TypeOK

\* Every action keeps the types; Ack is where a converted position could make
\* the cursor negative.
LEMMA TypeStep == TypeOK /\ [Next]_vars => TypeOK'
<1> USE QueueAssumption
<1> SUFFICES ASSUME TypeOK, [Next]_vars PROVE TypeOK'
  OBVIOUS
<1>1. ASSUME NEW r \in Recipients, Pin(r) PROVE TypeOK'
  BY <1>1 DEF Pin, TypeOK, watcher
<1>2. ASSUME NEW h \in Handlers, NEW r \in Recipients, EnqueueSeal(h, r) PROVE TypeOK'
  BY <1>2 DEF EnqueueSeal, TypeOK, watcher, durable
<1>3. ASSUME NEW h \in Handlers, EnqueueStore(h) PROVE TypeOK'
  <2>1. storing[h] \in [to : Recipients, sealed : BOOLEAN]
    BY <1>3 DEF EnqueueStore, TypeOK
  <2>2. inbox' \in [Recipients -> SUBSET Row] /\ next' \in [Recipients -> Nat]
    BY <1>3, <2>1 DEF EnqueueStore, TypeOK, Position, AdvanceCursor, Row
  <2>3. RearmLocked(inbox')
    BY <1>3 DEF EnqueueStore
  <2>4. QED
    BY <1>3, <2>2, <2>3, RearmType DEF EnqueueStore, TypeOK
<1>4. ASSUME NEW h \in Handlers, EnqueueRefused(h) PROVE TypeOK'
  BY <1>4 DEF EnqueueRefused, TypeOK, watcher, durable, Fault
<1>5. ASSUME NEW r \in Recipients, NEW position \in WirePositions, Ack(r, position) PROVE TypeOK'
  <2>1. Int64(position) \in Int
    BY Int64Type
  <2>2. inbox' \in [Recipients -> SUBSET Row]
    BY <1>5 DEF Ack, TypeOK, Uncovered
  <2>3. acked' \in [Recipients -> Nat]
    BY <1>5, <2>1 DEF Ack, TypeOK
  <2>4. QED
    BY <1>5, <2>2, <2>3 DEF Ack, TypeOK, watcher
<1>6. ASSUME SweepQuery PROVE TypeOK'
  <2>1. DueRows \subseteq Recipients \X Row
    BY DEF DueRows, Rows, TypeOK
  <2>2. QED
    BY <1>6, <2>1 DEF SweepQuery, TypeOK, durable
<1>7. ASSUME NEW k \in due, SweepDelete(k) PROVE TypeOK'
  BY <1>7 DEF SweepDelete, TypeOK
<1>8. ASSUME SweepDone PROVE TypeOK'
  <2>1. RearmLocked(inbox)
    BY <1>8 DEF SweepDone
  <2>2. QED
    BY <1>8, <2>1, RearmType DEF SweepDone, TypeOK, durable
<1>9. ASSUME SweepFails PROVE TypeOK'
  <2>1. wake' \in BOOLEAN
    BY <1>9 DEF SweepFails, TypeOK, Nudge
  <2>2. pc' \in {"none", "loop"} /\ phase' \in {"down", "booting", "open", "closed"}
    BY <1>9 DEF SweepFails, TypeOK
  <2>3. QED
    BY <1>9, <2>1, <2>2 DEF SweepFails, TypeOK, durable, Fault
<1>10. ASSUME WatchStep PROVE TypeOK'
  BY <1>10 DEF WatchStep, WatchPark, WatchWake, WatchFire, WatchExit, TypeOK, durable
<1>11. ASSUME ProcessStep PROVE TypeOK'
  <2>1. CASE Start
    <3>1. wake' \in BOOLEAN /\ timer' \in [state : {"nil", "armed", "spent"}, at : Nat]
      BY <2>1 DEF Start, NilTimer
    <3>2. QED
      BY <2>1, <3>1 DEF Start, TypeOK, durable
  <2>2. CASE Close
    BY <2>2 DEF Close, Disarm, NilTimer, TypeOK, durable
  <2>3. CASE Terminate
    BY <2>3 DEF Terminate, TypeOK, durable
  <2>4. CASE Tick
    BY <2>4 DEF Tick, TypeOK, durable, watcher
  <2>5. QED
    BY <1>11, <2>1, <2>2, <2>3, <2>4 DEF ProcessStep
<1>12. CASE UNCHANGED vars
  BY <1>12 DEF vars, TypeOK
<1>13. QED
  BY <1>1, <1>2, <1>3, <1>4, <1>5, <1>6, <1>7, <1>8, <1>9, <1>10, <1>11, <1>12
     DEF Next, HandlerStep, SweepStep

\* The type invariant of the queue holds in every reachable state.
THEOREM TypeCorrect == Spec => []TypeOK
  BY TypeInit, TypeStep, PTL DEF Spec

-----------------------------------------------------------------------------
(* What a step does to the tables *)

HoldStep(r, sealed) ==
  /\ Admits(r)
  /\ inbox' = [inbox EXCEPT ![r] =
                 @ \cup {[pos |-> next[r], at |-> now, sealed |-> sealed]}]
  /\ next' = [next EXCEPT ![r] = @ + 1]
  /\ UNCHANGED <<acked, now>>

CoverStep(r, p) ==
  /\ p < HalfRange
  /\ acked' = [acked EXCEPT ![r] = IF @ < p THEN p ELSE @]
  /\ inbox' = [inbox EXCEPT ![r] = {row \in @ : row.pos > p}]
  /\ UNCHANGED <<next, now>>

EvictStep(k) ==
  /\ inbox' = [inbox EXCEPT ![k[1]] = {row \in @ : row.pos # k[2].pos}]
  /\ UNCHANGED <<next, acked, now>>

TableStep ==
  \/ \E r \in Recipients, sealed \in BOOLEAN : HoldStep(r, sealed)
  \/ \E r \in Recipients, p \in Int : CoverStep(r, p)
  \/ \E k \in due : EvictStep(k)
  \/ now' = now + 1 /\ UNCHANGED <<inbox, next, acked>>
  \/ UNCHANGED <<inbox, next, acked, now>>

\* Every step of the system holds one message, covers some, evicts one, lets
\* time pass or leaves the tables and the clock alone.
LEMMA StepsOnTables == TypeOK /\ [Next]_vars => TableStep
<1> SUFFICES ASSUME TypeOK, [Next]_vars PROVE TableStep
  OBVIOUS
<1>1. ASSUME NEW h \in Handlers, EnqueueStore(h) PROVE TableStep
  <2>1. storing[h] \in [to : Recipients, sealed : BOOLEAN]
    BY <1>1 DEF EnqueueStore, TypeOK
  <2>2. HoldStep(storing[h].to, storing[h].sealed)
    BY <1>1, <2>1 DEF EnqueueStore, HoldStep, Position, AdvanceCursor
  <2>3. QED
    BY <2>1, <2>2 DEF TableStep
<1>2. ASSUME NEW r \in Recipients, NEW position \in WirePositions, Ack(r, position)
      PROVE  TableStep
  <2>1. Int64(position) \in Int /\ Int64(position) < HalfRange
    BY QueueAssumption DEF WirePositions, Int64
  <2>2. CoverStep(r, Int64(position))
    BY <1>2, <2>1 DEF Ack, CoverStep, Uncovered, TypeOK
  <2>3. QED
    BY <2>1, <2>2 DEF TableStep
<1>3. ASSUME NEW k \in due, SweepDelete(k) PROVE TableStep
  BY <1>3 DEF SweepDelete, EvictStep, TableStep
<1>4. CASE Tick
  BY <1>4 DEF Tick, TableStep, durable
<1>5. ASSUME \/ \E r \in Recipients : Pin(r)
             \/ \E h \in Handlers, r \in Recipients : EnqueueSeal(h, r)
             \/ \E h \in Handlers : EnqueueRefused(h)
             \/ SweepQuery \/ SweepDone \/ SweepFails \/ WatchStep
             \/ Start \/ Close \/ Terminate
             \/ UNCHANGED vars
      PROVE  TableStep
  BY <1>5 DEF TableStep, Pin, EnqueueSeal, EnqueueRefused, SweepQuery, SweepDone,
              SweepFails, WatchStep, WatchPark, WatchWake, WatchFire, WatchExit,
              Start, Close, Terminate, durable, vars
<1>6. QED
  BY <1>1, <1>2, <1>3, <1>4, <1>5 DEF Next, HandlerStep, SweepStep, ProcessStep

-----------------------------------------------------------------------------
(* Positions and bounds *)

\* A step keeps the tables finite, within the cap and ordered by position.
LEMMA TablesStep ==
  TypeOK /\ Countable /\ CapRespected /\ PositionsOrdered /\ TableStep
    => Countable' /\ CapRespected' /\ PositionsOrdered'
<1> SUFFICES ASSUME TypeOK, Countable, CapRespected, PositionsOrdered, TableStep
             PROVE  Countable' /\ CapRespected' /\ PositionsOrdered'
  OBVIOUS
<1> USE QueueAssumption
<1>1. ASSUME NEW r \in Recipients, NEW sealed \in BOOLEAN, HoldStep(r, sealed)
      PROVE  Countable' /\ CapRespected' /\ PositionsOrdered'
  <2> DEFINE new == [pos |-> next[r], at |-> now, sealed |-> sealed]
  <2>1. /\ inbox'[r] = inbox[r] \cup {new}
        /\ \A q \in Recipients : q # r => inbox'[q] = inbox[q] /\ next'[q] = next[q]
        /\ next'[r] = next[r] + 1
        /\ now' = now
    BY <1>1 DEF HoldStep, TypeOK
  <2>2. IsFiniteSet(inbox[r]) /\ Cardinality(inbox[r]) \in Nat /\ Cardinality(inbox[r]) < MaxSize
    BY <1>1, FS_CardinalityType DEF HoldStep, Admits, Countable
  <2>3. new \notin inbox[r]
    BY DEF PositionsOrdered, TypeOK
  <2>4. IsFiniteSet(inbox'[r]) /\ Cardinality(inbox'[r]) = Cardinality(inbox[r]) + 1
    BY <2>1, <2>2, <2>3, FS_AddElement
  <2>5. Countable' /\ CapRespected'
    <3>1. ASSUME NEW q \in Recipients
          PROVE  IsFiniteSet(inbox'[q]) /\ next'[q] >= 1 /\ Cardinality(inbox'[q]) <= MaxSize
      <4>1. CASE q # r
        BY <2>1, <4>1 DEF Countable, CapRespected
      <4>2. CASE q = r
        <5>1. next[r] \in Nat /\ next'[r] = next[r] + 1
          BY <2>1 DEF TypeOK
        <5>2. QED
          BY <2>2, <2>4, <4>2, <5>1
      <4>3. QED
        BY <4>1, <4>2
    <3>2. QED
      BY <3>1 DEF Countable, CapRespected
  <2>6. ASSUME NEW q \in Recipients
        PROVE  /\ \A row \in inbox'[q] : 1 <= row.pos /\ row.pos < next'[q] /\ row.at <= now'
               /\ \A a, b \in inbox'[q] : /\ a.pos = b.pos => a = b
                                          /\ a.pos < b.pos => a.at <= b.at
    <3>1. CASE q # r
      BY <2>1, <3>1 DEF PositionsOrdered
    <3>2. CASE q = r
      <4>1. \A row \in inbox[r] : row \in Row /\ 1 <= row.pos /\ row.pos < next[r] /\ row.at <= now
        BY DEF PositionsOrdered, TypeOK
      <4>2. next[r] \in Nat /\ next[r] >= 1 /\ now \in Nat /\ new.pos = next[r] /\ new.at = now
        BY DEF TypeOK, Countable
      <4>3. \A a, b \in inbox[r] : (a.pos = b.pos => a = b) /\ (a.pos < b.pos => a.at <= b.at)
        BY DEF PositionsOrdered
      <4> HIDE DEF new
      <4>4. \A a, b \in inbox[r] \cup {new} :
               (a.pos = b.pos => a = b) /\ (a.pos < b.pos => a.at <= b.at)
        BY <4>1, <4>2, <4>3 DEF Row
      <4>5. QED
        BY <2>1, <3>2, <4>1, <4>2, <4>4 DEF Row
    <3>3. QED
      BY <3>1, <3>2
  <2>7. PositionsOrdered'
    BY <2>6 DEF PositionsOrdered
  <2>8. QED
    BY <2>5, <2>7
<1>2. ASSUME \A r \in Recipients : inbox'[r] \subseteq inbox[r],
             next' = next, now' \in Nat, now <= now'
      PROVE  Countable' /\ CapRespected' /\ PositionsOrdered'
  <2>1. ASSUME NEW r \in Recipients
        PROVE  /\ IsFiniteSet(inbox'[r])
               /\ Cardinality(inbox'[r]) <= MaxSize
    <3>1. IsFiniteSet(inbox[r]) /\ Cardinality(inbox[r]) <= MaxSize
      BY DEF Countable, CapRespected
    <3>2. /\ IsFiniteSet(inbox'[r])
          /\ Cardinality(inbox'[r]) <= Cardinality(inbox[r])
      BY <1>2, <3>1, FS_Subset
    <3>3. Cardinality(inbox[r]) \in Nat /\ Cardinality(inbox'[r]) \in Nat
      BY <3>1, <3>2, FS_CardinalityType
    <3>4. QED
      BY <3>1, <3>2, <3>3
  <2>2. Countable' /\ CapRespected'
    BY <1>2, <2>1 DEF Countable, CapRespected
  <2>3. \A r \in Recipients : \A row \in inbox[r] : row \in Row
    BY DEF TypeOK
  <2>4. PositionsOrdered'
    BY <1>2, <2>3 DEF PositionsOrdered, Row, TypeOK
  <2>5. QED
    BY <2>2, <2>4
<1>3. ASSUME NEW r \in Recipients, NEW p \in Int, CoverStep(r, p)
      PROVE  /\ \A q \in Recipients : inbox'[q] \subseteq inbox[q]
             /\ next' = next /\ now' = now
  BY <1>3 DEF CoverStep, TypeOK
<1>4. ASSUME NEW k \in due, EvictStep(k)
      PROVE  /\ \A q \in Recipients : inbox'[q] \subseteq inbox[q]
             /\ next' = next /\ now' = now
  BY <1>4 DEF EvictStep, TypeOK
<1>5. QED
  BY <1>1, <1>2, <1>3, <1>4 DEF TableStep, TypeOK

-----------------------------------------------------------------------------
(* The sweep in progress *)

\* Only the query of a sweep adds to what a sweep has collected.
LEMMA StepsOnDue == [Next]_vars => SweepQuery \/ due' \subseteq due
<1> SUFFICES ASSUME [Next]_vars, ~SweepQuery PROVE due' \subseteq due
  OBVIOUS
<1>1. CASE HandlerStep
  BY <1>1 DEF HandlerStep, Pin, EnqueueSeal, EnqueueStore, EnqueueRefused, Ack, watcher
<1>2. CASE SweepStep \/ SweepFails
  BY <1>2 DEF SweepStep, SweepDelete, SweepDone, SweepFails
<1>3. CASE WatchStep \/ ProcessStep \/ UNCHANGED vars
  BY <1>3 DEF WatchStep, WatchPark, WatchWake, WatchFire, WatchExit,
              ProcessStep, Start, Close, Terminate, Tick, watcher, vars
<1>4. QED
  BY <1>1, <1>2, <1>3 DEF Next

\* What a sweep has collected keeps naming expired rows, whatever runs between
\* its query and its deletions.
LEMMA DueStep ==
  TypeOK /\ PositionsOrdered /\ DueNamed /\ [Next]_vars => DueNamed'
<1> SUFFICES ASSUME TypeOK, PositionsOrdered, DueNamed, [Next]_vars PROVE DueNamed'
  OBVIOUS
<1> USE QueueAssumption
<1>1. CASE SweepQuery
  <2>1. /\ due' = DueRows
        /\ inbox' = inbox /\ next' = next /\ now' = now
    BY <1>1 DEF SweepQuery, durable
  <2>2. ASSUME NEW k \in DueRows
        PROVE  /\ k[1] \in Recipients
               /\ k[2] \in inbox[k[1]]
               /\ Expired(k[2])
    BY DEF DueRows
  <2>3. QED
    BY <2>1, <2>2 DEF DueNamed, PositionsOrdered, Expired
<1>2. CASE due' \subseteq due
  <2>1. TableStep
    BY StepsOnTables
  <2>2. ASSUME NEW k \in due
        PROVE  /\ k[1] \in Recipients
               /\ k[2] \in Row
               /\ Expired(k[2])
               /\ k[2].pos < next[k[1]]
               /\ \A row \in inbox[k[1]] : row.pos = k[2].pos => row = k[2]
    BY DEF DueNamed, TypeOK
  <2>3. ASSUME NEW r \in Recipients
        PROVE  /\ now \in Nat /\ now' \in Nat /\ now <= now'
               /\ next[r] \in Nat /\ next'[r] \in Nat /\ next[r] <= next'[r]
               /\ \A row \in inbox'[r] : row \in inbox[r] \/ row.pos = next[r]
    <3>1. CASE \E q \in Recipients, sealed \in BOOLEAN : HoldStep(q, sealed)
      BY <3>1 DEF HoldStep, TypeOK
    <3>2. CASE \E q \in Recipients, p \in Int : CoverStep(q, p)
      BY <3>2 DEF CoverStep, TypeOK
    <3>3. CASE \E k \in due : EvictStep(k)
      BY <3>3 DEF EvictStep, TypeOK
    <3>4. CASE (now' = now + 1 \/ now' = now) /\ UNCHANGED <<inbox, next, acked>>
      BY <3>4 DEF TypeOK
    <3>5. QED
      BY <2>1, <3>1, <3>2, <3>3, <3>4 DEF TableStep
  <2>4. ASSUME NEW k \in due'
        PROVE  /\ Expired(k[2])'
               /\ k[2].pos < next'[k[1]]
               /\ \A row \in inbox'[k[1]] : row.pos = k[2].pos => row = k[2]
    <3>1. k \in due
      BY <1>2
    <3>2. /\ k[1] \in Recipients
          /\ k[2] \in Row
          /\ Expired(k[2])
          /\ k[2].pos < next[k[1]]
          /\ \A row \in inbox[k[1]] : row.pos = k[2].pos => row = k[2]
      BY <2>2, <3>1
    <3>3. QED
      BY <2>3, <3>2 DEF Expired, Row
  <2>5. QED
    BY <2>4 DEF DueNamed, Expired
<1>3. QED
  BY <1>1, <1>2, StepsOnDue

-----------------------------------------------------------------------------
(* The startup sweep *)

\* Between the startup sweep's query and the end of newQueue nothing is
\* accepted, so what had lapsed is gone when the queue opens.
LEMMA BootStep ==
  TypeOK /\ Booting /\ NoLapsedAtBoot /\ [Next]_vars => Booting' /\ NoLapsedAtBoot'
<1> SUFFICES ASSUME TypeOK, Booting, NoLapsedAtBoot, [Next]_vars
             PROVE  Booting' /\ NoLapsedAtBoot'
  OBVIOUS
<1> USE QueueAssumption
<1>1. CASE HandlerStep
  <2>1. /\ phase \in {"open", "closed", "booting", "down"} /\ phase' = phase /\ pc' = pc
        /\ bootAt' = bootAt /\ now' = now /\ due' = due
    BY <1>1 DEF HandlerStep, Pin, EnqueueSeal, EnqueueStore, EnqueueRefused, Ack, watcher, TypeOK
  <2>2. phase # "open" => inbox' = inbox
    BY <1>1 DEF HandlerStep, Pin, EnqueueSeal, EnqueueStore, EnqueueRefused, Ack, durable
  <2>3. ASSUME NEW r \in Recipients, NEW row \in inbox'[r]
        PROVE  row \in inbox[r] \/ row.at = now
    <3>1. TableStep
      BY StepsOnTables DEF Next
    <3>2. QED
      BY <3>1 DEF TableStep, HoldStep, CoverStep, EvictStep, TypeOK
  <2>4. NoLapsedAtBoot'
    BY <2>1, <2>3 DEF NoLapsedAtBoot, Booting, TypeOK
  <2>5. Booting'
    BY <2>1, <2>2 DEF Booting
  <2>6. QED
    BY <2>4, <2>5
<1>2. CASE SweepQuery
  <2>1. /\ inbox' = inbox /\ phase' = phase /\ now' = now
        /\ pc = "query" /\ pc' = "deleting" /\ due' = DueRows
        /\ bootAt' = IF phase = "booting" THEN now ELSE bootAt
    BY <1>2 DEF SweepQuery, durable
  <2>2. ASSUME NEW r \in Recipients, NEW row \in inbox[r]
        PROVE  row.at + TTL > now \/ <<r, row>> \in DueRows
    BY DEF DueRows, Rows, Expired, TypeOK, Row
  <2>3. QED
    BY <2>1, <2>2 DEF Booting, NoLapsedAtBoot, TypeOK
<1>3. ASSUME NEW k \in due, SweepDelete(k) PROVE Booting' /\ NoLapsedAtBoot'
  <2>1. /\ phase' = phase /\ now' = now /\ pc' = pc /\ bootAt' = bootAt
        /\ due' = due \ {k}
        /\ k[1] \in Recipients
        /\ k = <<k[1], k[2]>>
        /\ \A r \in Recipients : inbox'[r] \subseteq inbox[r]
        /\ inbox'[k[1]] = {row \in inbox[k[1]] : row.pos # k[2].pos}
    BY <1>3 DEF SweepDelete, TypeOK
  <2>2. \A r \in Recipients : \A row \in inbox'[r] : <<r, row>> # k
    BY <2>1
  <2>3. QED
    BY <2>1, <2>2 DEF Booting, NoLapsedAtBoot
<1>4. CASE SweepDone
  BY <1>4 DEF SweepDone, durable, Booting, NoLapsedAtBoot, TypeOK
<1>5. CASE SweepFails
  BY <1>5 DEF SweepFails, durable, Booting, NoLapsedAtBoot
<1>6. CASE WatchStep
  BY <1>6 DEF WatchStep, WatchPark, WatchWake, WatchFire, WatchExit, durable, Booting, NoLapsedAtBoot
<1>7. CASE Start \/ Close \/ Terminate
  BY <1>7 DEF Start, Close, Terminate, durable, Booting, NoLapsedAtBoot
<1>8. CASE Tick
  BY <1>8 DEF Tick, durable, watcher, Booting, NoLapsedAtBoot, TypeOK
<1>9. CASE UNCHANGED vars
  BY <1>9 DEF vars, Booting, NoLapsedAtBoot
<1>10. QED
  BY <1>1, <1>2, <1>3, <1>4, <1>5, <1>6, <1>7, <1>8, <1>9 DEF Next, SweepStep, ProcessStep

-----------------------------------------------------------------------------
(* The wake protocol *)

\* Re-arming without a storage fault leaves a nudge and, when rows remain, a
\* timer that is armed no later than the earliest deadline.
LEMMA RearmArms ==
  ASSUME NEW table \in [Recipients -> SUBSET Row],
         RearmLocked(table), faults' = 0, TypeOK, Rows(table) # {}
  PROVE  /\ wake'
         /\ timer'.state = "armed"
         /\ \A row \in Rows(table) : timer'.at <= row.at + TTL
<1>1. faults \in Nat /\ ~Fault
  BY DEF Fault, TypeOK
<1>2. PICK first \in EarliestRows(table) :
             timer' = [state |-> "armed", at |-> first.at + TTL]
  BY <1>1 DEF RearmLocked
<1>3. Rows(table) \subseteq Row
  BY DEF Rows
<1>4. \A row \in Rows(table) : first.at + TTL <= row.at + TTL
  BY <1>2, <1>3, QueueAssumption DEF EarliestRows, Row
<1>5. wake'
  BY DEF RearmLocked, Nudge
<1>6. QED
  BY <1>2, <1>4, <1>5

\* A step keeps an armed timer, or a nudge, or a sweep under way for the
\* earliest deadline.
LEMMA DeadlineStep ==
  TypeOK /\ TypeOK' /\ Booting /\ Booting' /\ NoMissedDeadline /\ [Next]_vars
    => NoMissedDeadline'
<1> SUFFICES ASSUME TypeOK, TypeOK', Booting, Booting', NoMissedDeadline, [Next]_vars,
                    phase' = "open", faults' = 0, Rows(inbox') # {}
             PROVE  \/ pc' \in {"query", "deleting"}
                    \/ /\ timer'.state = "armed"
                       /\ \A row \in Rows(inbox') : timer'.at <= row.at + TTL
                       /\ pc' = "loop" \/ (pc' = "parked" /\ (wake' \/ snap' = "current"))
  BY DEF NoMissedDeadline, Rows
<1> DEFINE Goal == \/ pc' \in {"query", "deleting"}
                   \/ /\ timer'.state = "armed"
                      /\ \A row \in Rows(inbox') : timer'.at <= row.at + TTL
                      /\ pc' = "loop" \/ (pc' = "parked" /\ (wake' \/ snap' = "current"))
<1>1. ASSUME NEW h \in Handlers, EnqueueStore(h) PROVE Goal
  <2>1. RearmLocked(inbox') /\ pc' = pc
    BY <1>1 DEF EnqueueStore
  <2>2. /\ wake'
        /\ timer'.state = "armed"
        /\ \A row \in Rows(inbox') : timer'.at <= row.at + TTL
    BY <2>1, RearmArms DEF TypeOK
  <2>3. pc' \in {"query", "deleting", "loop", "parked"}
    BY DEF Booting, TypeOK
  <2>4. QED
    BY <2>2, <2>3
<1>2. CASE SweepDone
  <2>1. RearmLocked(inbox) /\ pc' = "loop" /\ inbox' = inbox
    BY <1>2 DEF SweepDone, durable
  <2>2. /\ timer'.state = "armed"
        /\ \A row \in Rows(inbox) : timer'.at <= row.at + TTL
    BY <2>1, RearmArms DEF TypeOK
  <2>3. QED
    BY <2>1, <2>2
<1>3. ASSUME UNCHANGED <<timer, wake, pc, snap, phase, faults>>,
             \A r \in Recipients : inbox'[r] \subseteq inbox[r]
      PROVE  Goal
  <2>1. Rows(inbox') \subseteq Rows(inbox)
    BY <1>3 DEF Rows
  <2>2. QED
    BY <1>3, <2>1 DEF NoMissedDeadline
<1>4. ASSUME \/ \E r \in Recipients : Pin(r)
             \/ \E h \in Handlers, r \in Recipients : EnqueueSeal(h, r)
             \/ Tick
             \/ UNCHANGED vars
      PROVE  Goal
  <2>1. UNCHANGED <<timer, wake, pc, snap, phase, faults>> /\ inbox' = inbox
    BY <1>4 DEF Pin, EnqueueSeal, Tick, vars, durable, watcher
  <2>2. QED
    BY <1>3, <2>1
<1>5. ASSUME NEW h \in Handlers, EnqueueRefused(h) PROVE Goal
  <2>1. UNCHANGED <<timer, wake, pc, snap, phase, faults>> /\ inbox' = inbox
    BY <1>5 DEF EnqueueRefused, Fault, durable, watcher, TypeOK
  <2>2. QED
    BY <1>3, <2>1
<1>6. ASSUME NEW r \in Recipients, NEW position \in WirePositions, Ack(r, position) PROVE Goal
  <2>1. UNCHANGED <<timer, wake, pc, snap, phase, faults>>
    BY <1>6 DEF Ack, watcher
  <2>2. \A q \in Recipients : inbox'[q] \subseteq inbox[q]
    BY <1>6 DEF Ack, Uncovered, TypeOK
  <2>3. QED
    BY <1>3, <2>1, <2>2
<1>7. ASSUME SweepQuery \/ \E k \in due : SweepDelete(k) PROVE Goal
  BY <1>7 DEF SweepQuery, SweepDelete
<1>8. CASE SweepFails
  BY <1>8 DEF SweepFails, Fault, TypeOK
<1>9. CASE WatchStep
  <2>1. inbox' = inbox /\ faults' = faults /\ phase' = phase
    BY <1>9 DEF WatchStep, WatchPark, WatchWake, WatchFire, WatchExit, durable
  <2>2. CASE WatchFire
    BY <2>2 DEF WatchFire
  <2>3. CASE WatchPark
    BY <2>1, <2>3 DEF WatchPark, NoMissedDeadline
  <2>4. CASE WatchWake
    BY <2>1, <2>4 DEF WatchWake, NoMissedDeadline
  <2>5. CASE WatchExit
    BY <2>1, <2>5 DEF WatchExit
  <2>6. QED
    BY <1>9, <2>2, <2>3, <2>4, <2>5 DEF WatchStep
<1>10. CASE Start \/ Close \/ Terminate
  BY <1>10 DEF Start, Close, Terminate
<1>11. QED
  BY <1>1, <1>2, <1>4, <1>5, <1>6, <1>7, <1>8, <1>9, <1>10
     DEF Next, HandlerStep, SweepStep, ProcessStep

-----------------------------------------------------------------------------
(* The invariant, and what follows from it *)

\* The conjunction of all parts is an invariant of the specification.
LEMMA Inductive == Spec => []Inv
<1>1. Init => Inv
  <2> SUFFICES ASSUME Init PROVE Countable /\ CapRespected /\ PositionsOrdered /\ DueNamed
                                 /\ Booting /\ NoLapsedAtBoot /\ NoMissedDeadline
    BY TypeInit DEF Inv
  <2>1. Countable /\ CapRespected
    BY FS_EmptySet, QueueAssumption DEF Init, Countable, CapRespected
  <2>2. PositionsOrdered /\ DueNamed /\ Booting /\ NoLapsedAtBoot /\ NoMissedDeadline
    BY DEF Init, PositionsOrdered, DueNamed, Booting, NoLapsedAtBoot, NoMissedDeadline
  <2>3. QED
    BY <2>1, <2>2
<1>2. Inv /\ [Next]_vars => Inv'
  <2> SUFFICES ASSUME Inv, [Next]_vars PROVE Inv'
    OBVIOUS
  <2>1. TypeOK'
    BY TypeStep DEF Inv
  <2>2. Countable' /\ CapRespected' /\ PositionsOrdered'
    BY TablesStep, StepsOnTables DEF Inv
  <2>3. DueNamed'
    BY DueStep DEF Inv
  <2>4. Booting' /\ NoLapsedAtBoot'
    BY BootStep DEF Inv
  <2>5. NoMissedDeadline'
    BY <2>1, <2>4, DeadlineStep DEF Inv
  <2>6. QED
    BY <2>1, <2>2, <2>3, <2>4, <2>5 DEF Inv
<1>3. QED
  BY <1>1, <1>2, PTL DEF Spec

\* No interleaving of enqueues, acks, partial sweeps and restarts takes an inbox
\* past the cap the queue was configured with (Enqueue's admission check).
THEOREM CapHolds == Spec => []CapRespected
  BY Inductive, PTL DEF Inv

\* Positions are unique, below the cursor and in order of acceptance (Enqueue).
THEOREM PositionsHold == Spec => []PositionsOrdered
  BY Inductive, PTL DEF Inv

\* A sweep that other operations interrupt still deletes expired messages only.
THEOREM SweepIsPrecise == Spec => []SweepHitsOnlyExpired
<1>1. Inv => SweepHitsOnlyExpired
  BY DEF Inv, DueNamed, SweepHitsOnlyExpired
<1>2. QED
  BY <1>1, Inductive, PTL

\* After newQueue returns nothing is retained that had lapsed at startup.
THEOREM BootIsClean == Spec => []NoLapsedAtBoot
  BY Inductive, PTL DEF Inv

\* The watcher cannot sleep through a deadline while storage works
\* (rearmLocked, nudge and watch).
THEOREM WakeIsNotLost == Spec => []NoMissedDeadline
  BY Inductive, PTL DEF Inv

-----------------------------------------------------------------------------
(* What a step may never do *)

\* A message leaves only when its TTL has passed or an ack covers it.
THEOREM LeavingIsJustified == Spec => LeavesOnlyExpiredOrAcked
<1>1. Inv /\ [Next]_vars =>
        \A r \in Recipients : \A row \in inbox[r] \ inbox'[r] :
          Expired(row) \/ row.pos <= acked'[r]
  <2> SUFFICES ASSUME Inv, [Next]_vars, NEW r \in Recipients,
                      NEW row \in inbox[r] \ inbox'[r]
               PROVE  Expired(row) \/ row.pos <= acked'[r]
    OBVIOUS
  <2>1. TypeOK /\ TableStep /\ row \in Row /\ acked[r] \in Nat
    BY StepsOnTables DEF Inv, TypeOK
  <2>2. ASSUME NEW q \in Recipients, NEW p \in Int, CoverStep(q, p)
        PROVE  row.pos <= acked'[r]
    <3>1. q = r
      BY <2>1, <2>2 DEF CoverStep, TypeOK
    <3>2. row.pos <= p
      BY <2>1, <2>2, <3>1 DEF CoverStep, TypeOK, Row
    <3>3. p <= acked'[r]
      BY <2>1, <2>2, <3>1 DEF CoverStep, TypeOK
    <3>4. acked'[r] \in Int
      BY <2>1, <2>2, <3>1 DEF CoverStep, TypeOK
    <3>5. QED
      BY <2>1, <3>2, <3>3, <3>4 DEF Row
  <2>3. ASSUME NEW k \in due, EvictStep(k) PROVE Expired(row)
    <3>1. k[1] = r /\ row.pos = k[2].pos
      BY <2>1, <2>3 DEF EvictStep, TypeOK
    <3>2. QED
      BY <3>1 DEF Inv, DueNamed
  <2>4. ASSUME \/ \E q \in Recipients, sealed \in BOOLEAN : HoldStep(q, sealed)
               \/ UNCHANGED inbox
        PROVE  FALSE
    BY <2>1, <2>4 DEF HoldStep, TypeOK
  <2>5. QED
    BY <2>1, <2>2, <2>3, <2>4 DEF TableStep
<1>2. QED
  BY <1>1, Inductive, PTL DEF Spec, LeavesOnlyExpiredOrAcked

\* No position is handed out twice and nothing that left comes back.
THEOREM NothingResurrected == Spec => NeverResurrected
<1>1. Inv /\ [Next]_vars =>
        \A r \in Recipients :
          /\ next'[r] >= next[r]
          /\ \A row \in inbox'[r] \ inbox[r] : row.pos >= next[r] /\ row.pos < next'[r]
  <2> SUFFICES ASSUME Inv, [Next]_vars, NEW r \in Recipients
               PROVE  /\ next'[r] >= next[r]
                      /\ \A row \in inbox'[r] \ inbox[r] :
                           row.pos >= next[r] /\ row.pos < next'[r]
    OBVIOUS
  <2>1. TypeOK /\ TableStep
    BY StepsOnTables DEF Inv
  <2>2. CASE \E q \in Recipients, sealed \in BOOLEAN : HoldStep(q, sealed)
    BY <2>1, <2>2 DEF HoldStep, TypeOK
  <2>3. CASE \E q \in Recipients, p \in Int : CoverStep(q, p)
    BY <2>1, <2>3 DEF CoverStep, TypeOK
  <2>4. CASE \E k \in due : EvictStep(k)
    BY <2>1, <2>4 DEF EvictStep, TypeOK
  <2>5. CASE UNCHANGED <<inbox, next>>
    BY <2>1, <2>5 DEF TypeOK
  <2>6. QED
    BY <2>1, <2>2, <2>3, <2>4, <2>5 DEF TableStep
<1>2. QED
  BY <1>1, Inductive, PTL DEF Spec, NeverResurrected

\* The ack cursor moves forward only, together with the deletion it stands for.
THEOREM AckingIsAtomic == Spec => AckIsAtomic
<1>1. Inv /\ [Next]_vars =>
        \A r \in Recipients :
          acked'[r] # acked[r] =>
            /\ acked'[r] > acked[r]
            /\ \A row \in inbox'[r] : row.pos > acked'[r]
  <2> SUFFICES ASSUME Inv, [Next]_vars, NEW r \in Recipients, acked'[r] # acked[r]
               PROVE  /\ acked'[r] > acked[r]
                      /\ \A row \in inbox'[r] : row.pos > acked'[r]
    OBVIOUS
  <2>1. TypeOK /\ TableStep
    BY StepsOnTables DEF Inv
  <2>2. PICK q \in Recipients, p \in Int : CoverStep(q, p)
    BY <2>1 DEF TableStep, HoldStep, EvictStep
  <2>3. q = r /\ acked'[r] = p /\ acked[r] < p
    BY <2>1, <2>2 DEF CoverStep, TypeOK
  <2>4. QED
    BY <2>1, <2>2, <2>3 DEF CoverStep, TypeOK
<1>2. QED
  BY <1>1, Inductive, PTL DEF Spec, AckIsAtomic

-----------------------------------------------------------------------------
(* Refinement *)

\* The queue with its goroutines, timer, partial sweeps, faults and crashes
\* implements the inbox promise.
THEOREM QueueKeepsPromise == Spec => KeepsPromise
<1>1. Init => Promise!Init
  BY DEF Init, Promise!Init
<1>2. Inv /\ [Next]_vars => [Promise!Next]_(Promise!promiseVars)
  <2> SUFFICES ASSUME Inv, [Next]_vars
               PROVE  Promise!Next \/ UNCHANGED Promise!promiseVars
    OBVIOUS
  <2>1. TypeOK /\ TableStep
    BY StepsOnTables DEF Inv
  <2>2. ASSUME NEW r \in Recipients, NEW sealed \in BOOLEAN, HoldStep(r, sealed)
        PROVE  Promise!Hold(r)
    <3>1. Promise!Cardinality(inbox[r]) = Cardinality(inbox[r])
      BY Zenon DEF Cardinality, Promise!Cardinality
    <3>2. Promise!Cardinality(inbox[r]) < MaxSize
      BY <2>2, <3>1, Zenon DEF HoldStep, Admits
    <3>3. \E s \in BOOLEAN :
            inbox' = [inbox EXCEPT ![r] = @ \cup {[pos |-> next[r], at |-> now, sealed |-> s]}]
      BY <2>2, Zenon DEF HoldStep
    <3>4. QED
      BY <2>2, <3>2, <3>3, Zenon DEF HoldStep, Promise!Hold
  <2>3. ASSUME NEW r \in Recipients, NEW p \in Int, CoverStep(r, p)
        PROVE  Promise!Cover(r) \/ UNCHANGED Promise!promiseVars
    <3>1. CASE p \in 0 .. (HalfRange - 1)
      <4>1. /\ acked' = [acked EXCEPT ![r] = IF p > @ THEN p ELSE @]
            /\ inbox' = [inbox EXCEPT ![r] = {row \in @ : row.pos > p}]
            /\ UNCHANGED <<next, now>>
        BY <2>1, <2>3 DEF CoverStep, TypeOK
      <4>2. QED
        BY <3>1, <4>1 DEF Promise!Cover
    <3>2. CASE p < 0
      <4>1. acked' = acked
        BY <2>1, <2>3, <3>2 DEF CoverStep, TypeOK
      <4>2. inbox' = inbox
        <5>1. \A row \in inbox[r] : row.pos > p
          BY <2>1, <3>2 DEF TypeOK, Row
        <5>2. QED
          BY <2>1, <2>3, <5>1 DEF CoverStep, TypeOK
      <4>3. QED
        BY <2>3, <4>1, <4>2 DEF CoverStep, Promise!promiseVars
    <3>3. QED
      BY <2>3, <3>1, <3>2, QueueAssumption DEF CoverStep
  <2>4. ASSUME NEW k \in due, EvictStep(k)
        PROVE  Promise!Lapse(k[1]) \/ UNCHANGED Promise!promiseVars
    <3>1. /\ k[1] \in Recipients
          /\ Expired(k[2])
          /\ \A row \in inbox[k[1]] : row.pos = k[2].pos => row = k[2]
      BY <2>1 DEF Inv, DueNamed, TypeOK
    <3>2. {row \in inbox[k[1]] : row.pos # k[2].pos} = inbox[k[1]] \ {k[2]}
      BY <3>1
    <3>3. inbox' = [inbox EXCEPT ![k[1]] = inbox[k[1]] \ {k[2]}]
      BY <2>1, <2>4, <3>1, <3>2 DEF EvictStep, TypeOK
    <3>4. CASE k[2] \in inbox[k[1]]
      BY <2>4, <3>1, <3>3, <3>4 DEF EvictStep, Promise!Lapse, Expired
    <3>5. CASE k[2] \notin inbox[k[1]]
      <4>1. inbox' = inbox
        BY <2>1, <3>1, <3>3, <3>5 DEF TypeOK
      <4>2. QED
        BY <2>4, <4>1 DEF EvictStep, Promise!promiseVars
    <3>6. QED
      BY <3>4, <3>5
  <2>5. QED
    BY <2>1, <2>2, <2>3, <2>4
       DEF TableStep, Promise!Next, Promise!Tick, Promise!promiseVars, TypeOK
<1>3. QED
  BY <1>1, <1>2, Inductive, PTL DEF Spec, KeepsPromise, Promise!Spec
=============================================================================
