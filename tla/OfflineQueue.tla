---------------------------- MODULE OfflineQueue ----------------------------
(***************************************************************************)
(* internal/coordinator/queue: the coordinator's per-recipient inbox.      *)
(*                                                                         *)
(* The tables queue_inbox and queue_cursor are durable; the sweep timer,   *)
(* the wake channel, the watcher goroutine and the handler goroutines that *)
(* are inside Enqueue die with the process.  Enqueue and Ack each run one  *)
(* transaction under q.mu and are one step.  The TTL sweep is not: it      *)
(* reads the expired rows, deletes them one statement at a time and only   *)
(* then takes q.mu, so every other operation can run in between.           *)
(*                                                                         *)
(* Message bodies are opaque to this component: a row keeps its position,  *)
(* its enqueue time and whether its body rests sealed.                     *)
(***************************************************************************)
EXTENDS Integers, FiniteSets

CONSTANTS
  Recipients,   \* devices that own an inbox
  Handlers,     \* coordinator goroutines that may be inside Enqueue
  TTL,          \* q.ttl
  MaxSize,      \* q.maxSize
  HalfRange,    \* 2^63: where uint64 -> int64 conversion turns negative
  MaxPosition,  \* bound: positions handed out per recipient
  MaxTime,      \* bound: the clock stops here
  MaxFaults,    \* bound: storage statements that fail
  MaxCrashes    \* bound: crashes of the process

ASSUME QueueAssumption ==
  /\ TTL \in Nat \ {0}
  /\ MaxSize \in Nat \ {0}
  /\ HalfRange \in Nat \ {0}
  /\ MaxPosition \in Nat
  /\ MaxPosition < HalfRange
  /\ MaxTime \in Nat
  /\ MaxFaults \in Nat
  /\ MaxCrashes \in Nat

VARIABLES
  inbox,    \* table queue_inbox, per recipient
  next,     \* queue_cursor.next_position
  acked,    \* queue_cursor.acked_position
  pinned,   \* recipients whose public key the keystore has pinned
  now,      \* q.clk
  phase,    \* of the process: "down", "booting", "open", "closed"
  bootAt,   \* when the startup sweep of this process read the clock
  timer,    \* q.timer
  wake,     \* TRUE when q.wake (capacity 1) holds a nudge
  pc,       \* where the goroutine that sweeps is
  snap,     \* the watcher's snapshot of q.timer
  due,      \* rows collected by the sweep in progress
  storing,  \* storing[h]: the sealed body handler h is about to store
  faults,   \* storage failures so far
  crashes   \* crashes so far

durable == <<inbox, next, acked, pinned>>
watcher == <<timer, wake, pc, snap, due>>
vars == <<inbox, next, acked, pinned, now, phase, bootAt, timer, wake, pc,
          snap, due, storing, faults, crashes>>

-----------------------------------------------------------------------------
(* Values *)

Row == [pos : Nat, at : Nat, sealed : BOOLEAN]

\* The rows of every recipient, as statements without a recipient see them.
Rows(table) == UNION {table[r] : r \in Recipients}

Expired(row) == row.at + TTL <= now

\* The rows with the smallest enqueue time (SELECT MIN(enqueued_at)).
\* Variant LatestRows: MAX in place of MIN.
LatestRows(table) == {row \in Rows(table) : \A other \in Rows(table) : row.at >= other.at}
EarliestRows(table) == {row \in Rows(table) : \A other \in Rows(table) : row.at <= other.at}

\* The rows past the cutoff (enqueued_at <= now - ttl), with their recipients.
\* Variant DueTooSoon: a cutoff that is off by one.
DueTooSoon ==
  {k \in Recipients \X Rows(inbox) : k[2] \in inbox[k[1]] /\ k[2].at + TTL <= now + 1}
DueRows ==
  {k \in Recipients \X Rows(inbox) : k[2] \in inbox[k[1]] /\ Expired(k[2])}

\* Admission: retained rows are counted before anything is inserted.
\* Variant AdmitsOneMore: retained > maxSize refuses, instead of >=.
AdmitsOneMore(r) == Cardinality(inbox[r]) <= MaxSize
Admits(r) == Cardinality(inbox[r]) < MaxSize

\* The position of the next message comes from the cursor, not from the table.
\* Variant PositionFromTable: one more than the largest retained position.
PositionFromTable(r) ==
  IF inbox[r] = {} THEN 1
  ELSE (CHOOSE p \in {row.pos : row \in inbox[r]} : \A row \in inbox[r] : row.pos <= p) + 1
Position(r) == next[r]

\* UPDATE queue_cursor SET next_position = next_position + 1.
\* Variant CursorStays: the update is missing.
CursorStays(r) == UNCHANGED next
AdvanceCursor(r) == next' = [next EXCEPT ![r] = @ + 1]

\* What DELETE ... WHERE position <= p leaves of r's rows.
\* Variants: an off-by-one in the comparison; no deletion.
UncoveredOffByOne(r, p) == {row \in inbox[r] : row.pos > p + 1}
UncoveredAll(r, p) == inbox[r]
Uncovered(r, p) == {row \in inbox[r] : row.pos > p}

\* Positions travel as uint64 and reach SQLite as int64.
WirePositions == 0 .. (2 * HalfRange - 1)
Int64(p) == IF p < HalfRange THEN p ELSE p - 2 * HalfRange

Idle == [to |-> "nobody", sealed |-> FALSE]

NilTimer == [state |-> "nil", at |-> 0]

-----------------------------------------------------------------------------
(* The sweep timer *)

\* q.nudge: a second nudge coalesces with the first.
\* Variant NoNudge: a new timer is not announced to the watcher.
NoNudge == UNCHANGED wake
Nudge == wake' = TRUE

\* Stop the timer and forget it.  A watcher that holds a snapshot of it keeps
\* a channel that never fires again.
Disarm ==
  /\ timer' = NilTimer
  /\ snap' = IF snap = "current" THEN "stale" ELSE snap

\* A statement fails; the caller sees an error.
Fault ==
  /\ faults < MaxFaults
  /\ faults' = faults + 1

\* rearmLocked over the given table: point the timer at the earliest deadline,
\* or disarm when there is none or when the MIN query fails.
RearmLocked(table) ==
  /\ Nudge
  /\ \/ /\ \E first \in EarliestRows(table) :
             timer' = [state |-> "armed", at |-> first.at + TTL]
        /\ UNCHANGED <<snap, faults>>
     \/ /\ Rows(table) = {}
        /\ Disarm
        /\ UNCHANGED faults
     \/ /\ Fault
        /\ Disarm

-----------------------------------------------------------------------------
(* Handler goroutines *)

\* A key announcement pins r (crypto.Keystore.Authorize); pins never go away.
Pin(r) ==
  /\ phase = "open"
  /\ r \notin pinned
  /\ pinned' = pinned \cup {r}
  /\ UNCHANGED <<inbox, next, acked, now, phase, bootAt, watcher, storing, faults, crashes>>

\* Enqueue up to q.mu.Lock: the body is sealed when r's key is pinned NOW.
EnqueueSeal(h, r) ==
  /\ phase = "open"
  /\ storing[h] = Idle
  /\ storing' = [storing EXCEPT ![h] = [to |-> r, sealed |-> r \in pinned]]
  /\ UNCHANGED <<durable, now, phase, bootAt, watcher, faults, crashes>>

\* Enqueue from q.mu.Lock on: admission, cursor, insert and commit, then the
\* timer is pointed at the earliest deadline.
EnqueueStore(h) ==
  LET r == storing[h].to IN
  /\ phase = "open"
  /\ storing[h] # Idle
  /\ Admits(r)
  /\ next[r] <= MaxPosition
  /\ inbox' = [inbox EXCEPT ![r] =
                 @ \cup {[pos |-> Position(r), at |-> now, sealed |-> storing[h].sealed]}]
  /\ AdvanceCursor(r)
  /\ RearmLocked(inbox')
  /\ storing' = [storing EXCEPT ![h] = Idle]
  /\ UNCHANGED <<acked, pinned, now, phase, bootAt, pc, due, crashes>>

\* Enqueue returns an error and the transaction rolls back: the queue is
\* closed, the inbox is at its cap, or a statement failed.
EnqueueRefused(h) ==
  /\ storing[h] # Idle
  /\ \/ phase = "closed" /\ UNCHANGED faults
     \/ ~Admits(storing[h].to) /\ UNCHANGED faults
     \/ Fault
  /\ storing' = [storing EXCEPT ![h] = Idle]
  /\ UNCHANGED <<durable, now, phase, bootAt, watcher, crashes>>

\* Ack: the cursor moves forward only, and every covered row goes in the same
\* transaction.  The timer is left alone.
\* Variant AckAssigns: the forward-only guard of the UPDATE is missing.
AckAssigns(r, position) ==
  LET p == Int64(position) IN
  /\ phase = "open"
  /\ acked' = [acked EXCEPT ![r] = p]
  /\ inbox' = [inbox EXCEPT ![r] = Uncovered(r, p)]
  /\ UNCHANGED <<next, pinned, now, phase, bootAt, watcher, storing, faults, crashes>>
Ack(r, position) ==
  LET p == Int64(position) IN
  /\ phase = "open"
  /\ acked' = [acked EXCEPT ![r] = IF @ < p THEN p ELSE @]
  /\ inbox' = [inbox EXCEPT ![r] = Uncovered(r, p)]
  /\ UNCHANGED <<next, pinned, now, phase, bootAt, watcher, storing, faults, crashes>>

-----------------------------------------------------------------------------
(* The sweep, run by newQueue at startup and by the watcher afterwards *)

\* Read the clock and collect the rows past the cutoff.
SweepQuery ==
  /\ pc = "query"
  /\ due' = DueRows
  /\ pc' = "deleting"
  /\ bootAt' = IF phase = "booting" THEN now ELSE bootAt
  /\ UNCHANGED <<durable, now, phase, timer, wake, snap, storing, faults, crashes>>

\* Delete one collected row by its key; it may be gone already.
SweepDelete(k) ==
  /\ pc = "deleting"
  /\ k \in due
  /\ due' = due \ {k}
  /\ inbox' = [inbox EXCEPT ![k[1]] = {row \in @ : row.pos # k[2].pos}]
  /\ UNCHANGED <<next, acked, pinned, now, phase, bootAt, timer, wake, pc, snap,
                 storing, faults, crashes>>

\* Re-arm under q.mu.  At startup newQueue then starts the watcher and returns.
SweepDone ==
  /\ pc = "deleting"
  /\ due = {}
  /\ RearmLocked(inbox)
  /\ pc' = "loop"
  /\ phase' = IF phase = "booting" THEN "open" ELSE phase
  /\ UNCHANGED <<durable, now, bootAt, due, storing, crashes>>

\* A statement of the sweep fails.  The watcher logs it, nudges itself and
\* loops; at startup newQueue returns the error and the process exits.
\* Variant SweepFailsQuietly: newQueue logs the error and carries on.
SweepFailsQuietly ==
  /\ pc \in {"query", "deleting"}
  /\ Fault
  /\ due' = {}
  /\ phase' = IF phase = "booting" THEN "open" ELSE phase
  /\ pc' = "loop"
  /\ Nudge
  /\ UNCHANGED <<durable, now, bootAt, timer, snap, storing, crashes>>
SweepFails ==
  /\ pc \in {"query", "deleting"}
  /\ Fault
  /\ due' = {}
  /\ IF phase = "booting"
     THEN phase' = "down" /\ pc' = "none" /\ UNCHANGED wake
     ELSE pc' = "loop" /\ Nudge /\ UNCHANGED phase
  /\ UNCHANGED <<durable, now, bootAt, timer, snap, storing, crashes>>

-----------------------------------------------------------------------------
(* The watcher goroutine *)

\* Snapshot q.timer under the lock and park on its channel.
WatchPark ==
  /\ pc = "loop"
  /\ snap' = IF timer.state = "nil" THEN "none" ELSE "current"
  /\ pc' = "parked"
  /\ UNCHANGED <<durable, now, phase, bootAt, timer, wake, due, storing, faults, crashes>>

\* The select takes the nudge.
WatchWake ==
  /\ pc = "parked"
  /\ wake
  /\ wake' = FALSE
  /\ pc' = "loop"
  /\ UNCHANGED <<durable, now, phase, bootAt, timer, snap, due, storing, faults, crashes>>

\* The select takes the fire of the timer the watcher holds: the channel is
\* drained, and a timer fires once per arming.
WatchFire ==
  /\ pc = "parked"
  /\ snap = "current"
  /\ timer.state = "armed"
  /\ timer.at <= now
  /\ timer' = [timer EXCEPT !.state = "spent"]
  /\ pc' = "query"
  /\ UNCHANGED <<durable, now, phase, bootAt, wake, snap, due, storing, faults, crashes>>

\* The select takes the closed channel.
WatchExit ==
  /\ pc = "parked"
  /\ phase = "closed"
  /\ pc' = "none"
  /\ UNCHANGED <<durable, now, phase, bootAt, timer, wake, snap, due, storing, faults, crashes>>

-----------------------------------------------------------------------------
(* The process and its clock *)

\* newQueue: fresh volatile state, then the startup sweep.
Start ==
  /\ phase = "down"
  /\ phase' = "booting"
  /\ timer' = NilTimer
  /\ wake' = FALSE
  /\ snap' = "none"
  /\ pc' = "query"
  /\ UNCHANGED <<durable, now, bootAt, due, storing, faults, crashes>>

\* Close: no operation is admitted any more, the timer stops.
Close ==
  /\ phase = "open"
  /\ phase' = "closed"
  /\ Disarm
  /\ UNCHANGED <<durable, now, bootAt, wake, pc, due, storing, faults, crashes>>

\* The process ends, after Close or by a crash: the tables are what is left.
Terminate ==
  /\ \/ phase = "closed" /\ UNCHANGED crashes
     \/ /\ phase \in {"booting", "open"}
        /\ crashes < MaxCrashes
        /\ crashes' = crashes + 1
  /\ phase' = "down"
  /\ pc' = "none"
  /\ due' = {}
  /\ storing' = [h \in Handlers |-> Idle]
  /\ UNCHANGED <<durable, now, bootAt, timer, wake, snap, faults>>

Tick ==
  /\ now < MaxTime
  /\ now' = now + 1
  /\ UNCHANGED <<durable, phase, bootAt, watcher, storing, faults, crashes>>

-----------------------------------------------------------------------------
(* The specification *)

Init ==
  /\ inbox = [r \in Recipients |-> {}]
  /\ next = [r \in Recipients |-> 1]
  /\ acked = [r \in Recipients |-> 0]
  /\ pinned = {}
  /\ now = 0
  /\ phase = "down"
  /\ bootAt = 0
  /\ timer = NilTimer
  /\ wake = FALSE
  /\ pc = "none"
  /\ snap = "none"
  /\ due = {}
  /\ storing = [h \in Handlers |-> Idle]
  /\ faults = 0
  /\ crashes = 0

HandlerStep ==
  \/ \E r \in Recipients : Pin(r)
  \/ \E h \in Handlers, r \in Recipients : EnqueueSeal(h, r)
  \/ \E h \in Handlers : EnqueueStore(h) \/ EnqueueRefused(h)
  \/ \E r \in Recipients, position \in WirePositions : Ack(r, position)

\* What the sweeping goroutine does when no statement of its own fails.
SweepStep ==
  \/ SweepQuery
  \/ \E k \in due : SweepDelete(k)
  \/ SweepDone

WatchStep == WatchPark \/ WatchWake \/ WatchFire \/ WatchExit

ProcessStep == Start \/ Close \/ Terminate \/ Tick

Next == HandlerStep \/ SweepStep \/ SweepFails \/ WatchStep \/ ProcessStep

Spec == Init /\ [][Next]_vars

\* The Go scheduler runs a ready goroutine eventually and a due timer fires:
\* the sweep and each case of the watcher's select get weak fairness.  Nothing
\* makes a client send, the clock advance, or the process start.
Fairness ==
  /\ WF_vars(SweepStep)
  /\ WF_vars(WatchPark)
  /\ WF_vars(WatchWake)
  /\ WF_vars(WatchFire)

FairSpec == Spec /\ Fairness

-----------------------------------------------------------------------------
(* Properties *)

\* Every variable stays in its range; positions and cursors are naturals.
TypeOK ==
  /\ inbox \in [Recipients -> SUBSET Row]
  /\ next \in [Recipients -> Nat]
  /\ acked \in [Recipients -> Nat]
  /\ pinned \subseteq Recipients
  /\ now \in Nat
  /\ phase \in {"down", "booting", "open", "closed"}
  /\ bootAt \in Nat
  /\ timer \in [state : {"nil", "armed", "spent"}, at : Nat]
  /\ wake \in BOOLEAN
  /\ pc \in {"none", "query", "deleting", "loop", "parked"}
  /\ snap \in {"none", "current", "stale"}
  /\ due \subseteq Recipients \X Row
  /\ storing \in [Handlers -> {Idle} \cup [to : Recipients, sealed : BOOLEAN]]
  /\ faults \in Nat
  /\ crashes \in Nat

\* Retention is bounded at every moment: no interleaving of enqueues, partial
\* sweeps, acks and restarts takes an inbox past q.maxSize.
CapRespected == \A r \in Recipients : Cardinality(inbox[r]) <= MaxSize

\* Within one inbox a position names one message, all positions handed out lie
\* below the cursor, and order of position is order of acceptance in time.
PositionsOrdered ==
  \A r \in Recipients :
    /\ \A row \in inbox[r] : 1 <= row.pos /\ row.pos < next[r] /\ row.at <= now
    /\ \A a, b \in inbox[r] :
         /\ a.pos = b.pos => a = b
         /\ a.pos < b.pos => a.at <= b.at

\* The rows a sweep has collected and not yet deleted stay deletable: whatever
\* ran since the query, the key of a collected row still names that row or none,
\* so the sweep never removes a message that was accepted after it began.
SweepHitsOnlyExpired ==
  \A k \in due : \A row \in inbox[k[1]] : row.pos = k[2].pos => Expired(row)

\* A message leaves the table because its TTL passed or because an
\* acknowledgement at or above its position was recorded, and for no other
\* reason: not by a restart, a half-done sweep or another message's arrival.
LeavesOnlyExpiredOrAcked ==
  [][\A r \in Recipients : \A row \in inbox[r] \ inbox'[r] :
       Expired(row) \/ row.pos <= acked'[r]]_vars

\* Nothing that left comes back, under its own or a reused position: a row that
\* appears carries the position the cursor showed, and the cursor moves past it.
NeverResurrected ==
  [][\A r \in Recipients :
       /\ next'[r] >= next[r]
       /\ \A row \in inbox'[r] \ inbox[r] : row.pos >= next[r] /\ row.pos < next'[r]]_vars

\* The high-water mark never falls, and at the step that raises it nothing it
\* covers is left: a crash cannot separate the cursor from the deletion.
AckIsAtomic ==
  [][\A r \in Recipients :
       acked'[r] # acked[r] =>
         /\ acked'[r] > acked[r]
         /\ \A row \in inbox'[r] : row.pos > acked'[r]]_vars

\* Expired during downtime counts as expired: once newQueue has returned, no
\* message that had lapsed when its startup sweep ran is left to be delivered.
NoLapsedAtBoot ==
  phase = "open" => \A r \in Recipients : \A row \in inbox[r] : row.at + TTL > bootAt

\* The wake protocol loses no deadline: while messages are retained and no
\* statement has failed, either a sweep is under way or the timer is armed no
\* later than every deadline, and a parked watcher holds that timer or a nudge.
NoMissedDeadline ==
  phase = "open" /\ faults = 0 /\ Rows(inbox) # {} =>
    \/ pc \in {"query", "deleting"}
    \/ /\ timer.state = "armed"
       /\ \A row \in Rows(inbox) : timer.at <= row.at + TTL
       /\ pc = "loop" \/ (pc = "parked" /\ (wake \/ snap = "current"))

\* TTL removal happens even when no traffic touches the queue: an expired
\* message is removed, unless the process stops.
ExpiryHappens ==
  \A r \in Recipients : \A p \in 1 .. MaxPosition :
    (phase = "open" /\ \E row \in inbox[r] : row.pos = p /\ Expired(row))
      ~> (phase # "open" \/ \A row \in inbox[r] : row.pos # p)

\* A failed sweep is retried on the next wake: a watcher back at its loop with
\* its timer fired and messages still retained sweeps again.
FailedSweepRetried ==
  (phase = "open" /\ pc = "loop" /\ timer.state = "spent" /\ Rows(inbox) # {})
    ~> (phase # "open" \/ pc = "query" \/ Rows(inbox) = {})

\* Bodies rest sealed from the first pin onward: once a sealed message is in an
\* inbox, every later position is sealed too.
SealedFromFirstPin ==
  \A r \in Recipients : \A a, b \in inbox[r] :
    a.sealed /\ a.pos < b.pos => b.sealed

\* The inbox promise, over the same tables.
Promise == INSTANCE InboxPromise WITH Positions <- 0 .. (HalfRange - 1)

\* The queue keeps the promise of InboxPromise: every step of handlers, sweep,
\* watcher and process is an accept, a cover, a lapse, a tick, or invisible.
KeepsPromise == Promise!Spec
=============================================================================
