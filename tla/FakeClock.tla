----------------------------- MODULE FakeClock ------------------------------
(***************************************************************************)
(* internal/clock: the clock that moves only when a test advances it.      *)
(*                                                                         *)
(* One goroutine advances the clock; others arm, stop, reset and read      *)
(* timers and sleep.  Advance decides under the lock which waiters are due *)
(* and writes to their channels after it has released the lock, so that    *)
(* what its caller sees of a timer and what is still on its way to the     *)
(* timer's channel are two things.  A channel holds one value.             *)
(*                                                                         *)
(* The delay 0 stands for every delay that is not positive.                *)
(***************************************************************************)
EXTENDS Naturals, Sequences, FiniteSets

CONSTANTS
  Timers,    \* timers of NewTimer
  Sleepers,  \* goroutines that wait with After, Until or Sleep
  MaxNow,    \* bound: the latest time the clock is advanced to
  MaxDelay   \* bound: the longest delay asked for

\* What the constants have to satisfy; every instance assumes it.
FakeClockAssumption ==
  /\ Timers \cap Sleepers = {}
  /\ MaxNow \in Nat /\ MaxNow > 1 /\ MaxDelay \in Nat /\ MaxDelay > 0

Empty == 0
Start == 1
Owners == Timers \cup Sleepers
Delays == 0 .. MaxDelay

VARIABLES
  now,      \* Fake.now
  waiters,  \* Fake.waiters, oldest first
  st,       \* st[t]: the state of timer t, "none" before NewTimer
  ch,       \* ch[o]: the value in o's channel
  due,      \* waiters Advance has claimed and not delivered yet
  firing,   \* firing[t]: the value a Reset is about to write to its timer
  bed,      \* bed[s]: the time sleeper s waits for, Empty when it is awake
  heard     \* heard[t]: t's channel was read since t was last armed

vars == <<now, waiters, st, ch, due, firing, bed, heard>>

Waiter(o, at) == [owner |-> o, at |-> at]
OnItsWay(o) == \E i \in DOMAIN due : due[i].owner = o

-----------------------------------------------------------------------------
\* The timer's waiter is appended to what is there.
Arm(t, d, rest) ==
  /\ st' = [st EXCEPT ![t] = IF d = 0 THEN "fired" ELSE "pending"]
  /\ waiters' = IF d = 0 THEN rest ELSE Append(rest, Waiter(t, now + d))
  /\ heard' = [heard EXCEPT ![t] = FALSE]

\* The list without the first waiter of t.
removeWaiter(t) ==
  LET first == CHOOSE i \in DOMAIN waiters :
                 waiters[i].owner = t /\ \A j \in 1 .. (i - 1) : waiters[j].owner # t
  IN IF \E i \in DOMAIN waiters : waiters[i].owner = t
     THEN [j \in 1 .. (Len(waiters) - 1) |-> IF j < first THEN waiters[j] ELSE waiters[j + 1]]
     ELSE waiters

\* The channel is new, so the immediate fire finds room in it.
NewTimer(t, d) ==
  /\ st[t] = "none"
  /\ Arm(t, d, waiters)
  /\ ch' = [ch EXCEPT ![t] = IF d = 0 THEN now ELSE Empty]
  /\ UNCHANGED <<now, due, firing, bed>>

\* Stop cancels a pending fire and says so; in any other state it says no.
Stop(t) ==
  /\ st[t] = "pending" /\ firing[t] = Empty
  /\ st' = [st EXCEPT ![t] = "stopped"]
  /\ waiters' = removeWaiter(t)
  /\ UNCHANGED <<now, ch, due, firing, bed, heard>>

\* Reset that leaves the waiter of the previous arming in place.
ResetAppends(t, d) ==
  /\ st[t] # "none" /\ firing[t] = Empty
  /\ Arm(t, d, waiters)
  /\ firing' = [firing EXCEPT ![t] = IF d = 0 THEN now ELSE Empty]
  /\ UNCHANGED <<now, ch, due, bed>>

\* Reset under the lock; the immediate fire is written after it.  A timer has
\* one owner, which resets and stops it: two of its calls do not overlap.
Reset(t, d) ==
  /\ st[t] # "none" /\ firing[t] = Empty
  /\ Arm(t, d, IF st[t] = "pending" THEN removeWaiter(t) ELSE waiters)
  /\ firing' = [firing EXCEPT ![t] = IF d = 0 THEN now ELSE Empty]
  /\ UNCHANGED <<now, ch, due, bed>>

\* Reset's write that takes the value in its way out instead of leaving it.
ResetFiresDraining(t) ==
  /\ firing[t] # Empty
  /\ ch' = [ch EXCEPT ![t] = IF @ = Empty THEN firing[t] ELSE Empty]
  /\ firing' = [firing EXCEPT ![t] = Empty]
  /\ UNCHANGED <<now, waiters, st, due, bed, heard>>

\* Reset's write does not wait: a full channel keeps the value it has.
ResetFires(t) ==
  /\ firing[t] # Empty
  /\ ch' = [ch EXCEPT ![t] = IF @ = Empty THEN firing[t] ELSE @]
  /\ firing' = [firing EXCEPT ![t] = Empty]
  /\ UNCHANGED <<now, waiters, st, due, bed, heard>>

\* The user of the timer reads its channel.
Receive(t) ==
  /\ st[t] # "none" /\ ch[t] # Empty
  /\ ch' = [ch EXCEPT ![t] = Empty]
  /\ heard' = [heard EXCEPT ![t] = TRUE]
  /\ UNCHANGED <<now, waiters, st, due, firing, bed>>

-----------------------------------------------------------------------------
\* A goroutine waits for a time, on a channel of its own.
Park(s, at) ==
  /\ bed[s] = Empty
  /\ bed' = [bed EXCEPT ![s] = at]
  /\ IF at <= now
     THEN ch' = [ch EXCEPT ![s] = now] /\ UNCHANGED waiters
     ELSE waiters' = Append(waiters, Waiter(s, at)) /\ UNCHANGED ch
  /\ UNCHANGED <<now, st, due, firing, heard>>

After(s, d) == Park(s, now + d)
Until(s, at) == Park(s, at)

\* Sleep returns.
Wake(s) ==
  /\ ch[s] # Empty
  /\ ch' = [ch EXCEPT ![s] = Empty]
  /\ bed' = [bed EXCEPT ![s] = Empty]
  /\ UNCHANGED <<now, waiters, st, due, firing, heard>>

-----------------------------------------------------------------------------
\* A waiter whose time has come is due one tick later.
IsDueLate(w, time) == w.at < time

IsDue(w, time) == w.at <= time

\* The waiters at some places of the list, in the order of the list.
Nth(places, n) == CHOOSE i \in places : Cardinality({j \in places : j <= i}) = n
Pick(places) == [n \in 1 .. Cardinality(places) |-> waiters[Nth(places, n)]]

\* Advance under the lock: the waiters that are due are taken out of the list,
\* and the timers among them have fired from here on.
Advance(d) ==
  /\ due = <<>> /\ now + d <= MaxNow
  /\ now' = now + d
  /\ due' = Pick({i \in DOMAIN waiters : IsDue(waiters[i], now')})
  /\ waiters' = Pick({i \in DOMAIN waiters : ~IsDue(waiters[i], now')})
  /\ st' = [t \in Timers |-> IF \E i \in DOMAIN due' : due'[i].owner = t
                             THEN "fired" ELSE st[t]]
  /\ UNCHANGED <<ch, firing, bed, heard>>

\* Advance's writes, in the order the waiters were armed; each waits for room.
Deliver ==
  /\ due # <<>>
  /\ ch[Head(due).owner] = Empty
  /\ ch' = [ch EXCEPT ![Head(due).owner] = now]
  /\ due' = Tail(due)
  /\ UNCHANGED <<now, waiters, st, firing, bed, heard>>

-----------------------------------------------------------------------------
Init ==
  /\ now = Start /\ waiters = <<>> /\ due = <<>>
  /\ st = [t \in Timers |-> "none"]
  /\ ch = [o \in Owners |-> Empty]
  /\ firing = [t \in Timers |-> Empty]
  /\ bed = [s \in Sleepers |-> Empty]
  /\ heard = [t \in Timers |-> FALSE]

Next ==
  \/ \E t \in Timers, d \in Delays : NewTimer(t, d) \/ Reset(t, d)
  \/ \E t \in Timers : Stop(t) \/ ResetFires(t) \/ Receive(t)
  \/ \E s \in Sleepers : Wake(s)
  \/ \E s \in Sleepers, d \in Delays : After(s, d)
  \/ \E s \in Sleepers, at \in Start .. MaxNow : Until(s, at)
  \/ \E d \in 1 .. MaxNow : Advance(d)
  \/ Deliver

Spec == Init /\ [][Next]_vars

-----------------------------------------------------------------------------
(* Properties *)

IsWaiter(w) == w.owner \in Owners /\ w.at \in Start .. (MaxNow + MaxDelay)

TypeOK ==
  /\ now \in Start .. MaxNow
  /\ \A i \in DOMAIN waiters : IsWaiter(waiters[i]) /\ waiters[i].at > now
  /\ \A i \in DOMAIN due : IsWaiter(due[i])
  /\ st \in [Timers -> {"none", "pending", "fired", "stopped"}]
  /\ ch \in [Owners -> 0 .. MaxNow]
  /\ firing \in [Timers -> 0 .. MaxNow]
  /\ bed \in [Sleepers -> 0 .. (MaxNow + MaxDelay)]
  /\ heard \in [Timers -> BOOLEAN]

\* A timer is pending exactly when the list has a waiter of it, and then one:
\* a refreshed deadline leaves none of the old ones, and no armed timer is
\* forgotten.
OneWaiterPerTimer ==
  \A t \in Timers :
    Cardinality({i \in DOMAIN waiters : waiters[i].owner = t}) =
      IF st[t] = "pending" THEN 1 ELSE 0

\* A sleeper has its wake-up in its channel or on its way from the moment its
\* time has come and not before.
WakesOnTime ==
  \A s \in Sleepers :
    bed[s] # Empty => (bed[s] <= now <=> ch[s] # Empty \/ OnItsWay(s))

\* A timer that fired and was not read since it was armed has a value for its
\* reader: dropping a write at a full channel loses no wake-up.
FireIsNotLost ==
  \A t \in Timers :
    st[t] = "fired" /\ ~heard[t] => ch[t] # Empty \/ OnItsWay(t) \/ firing[t] # Empty

\* Nobody who waits is forgotten: an armed timer has its one place in the list,
\* a sleeper is woken when its time has come and not before, and a fire reaches
\* its reader, whatever Stop, Reset and Advance do meanwhile.
WaitersAreServed == TypeOK /\ OneWaiterPerTimer /\ WakesOnTime /\ FireIsNotLost

\* While a fire that Advance has claimed is on its way, an immediate one of Reset
\* is dropped, so that "the receiver still gets exactly one wake-up" (Reset).
ExactlyOneWakeUp ==
  [][\A t \in Timers : ResetFires(t) /\ OnItsWay(t) => UNCHANGED ch]_vars

\* After a Stop that reports a cancelled fire, no fire is on its way: Stop does
\* not pretend to cancel what Advance has claimed.
StopIsHonest ==
  \A t \in Timers : st[t] = "stopped" => ~OnItsWay(t)

\* Advance never waits for a reader: the channel it writes to has room.
AdvanceNeverStalls ==
  due # <<>> => ch[Head(due).owner] = Empty
=============================================================================
