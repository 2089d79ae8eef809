------------------------------ MODULE History ------------------------------
(***************************************************************************)
(* internal/history: the client's durable message history and its          *)
(* retention.                                                              *)
(*                                                                         *)
(* Append is one INSERT followed by enforceRetention, which is three more  *)
(* statements: delete what is older than the TTL, count, delete the oldest *)
(* rows above the cap.  Nothing holds a lock across them.  The read loop   *)
(* and the terminal interface append from one process, and every "walkie   *)
(* history" opens the same file from another and sweeps it.  The store     *)
(* serialises single statements, so a statement is a step; the clock is    *)
(* read before the statement gets its turn, so that is a step too, and     *)
(* rows may be stored out of clock order.                                  *)
(*                                                                         *)
(* A row keeps its message id and its stored_at.  Its seq comes from       *)
(* AUTOINCREMENT and is never used again, so a seq names one of the rows   *)
(* that ever arrived, and the table is the set of the seqs still there.    *)
(***************************************************************************)
EXTENDS Integers, Sequences, FiniteSets

CONSTANTS
  Writers,    \* goroutines that append or sweep
  TTL,        \* Store.ttl
  Cap,        \* Store.maxRows
  MaxIds,     \* bound: distinct messages
  MaxArrived, \* bound: rows ever stored
  MaxTime,    \* bound: the clock stops here
  MaxFaults   \* bound: statements that fail, and crashes between statements

\* What the constants have to satisfy; every instance assumes it.
HistoryAssumption ==
  /\ IsFiniteSet(Writers)
  /\ TTL \in Nat /\ TTL > 0
  /\ Cap \in Nat /\ Cap > 0
  /\ MaxIds \in Nat /\ MaxArrived \in Nat /\ MaxTime \in Nat /\ MaxFaults \in Nat

VARIABLES
  rows,     \* table history_message: the seqs in it
  now,      \* Store.clk
  pc,       \* pc[w]: the statement w runs next
  hand,     \* hand[w]: the row w is about to insert, with its stored_at
  cutoff,   \* cutoff[w]: the cutoff of w's TTL sweep
  swept,    \* swept[w]: the last row that had arrived when w swept
  reading,  \* the callers of Open, which query once it has swept
  excess,   \* excess[w]: the rows w has decided to evict
  arrived,  \* arrived[seq]: every row ever stored
  faults    \* failures so far

vars == <<rows, now, pc, hand, cutoff, swept, reading, excess, arrived, faults>>

NoRow == [id |-> 0, at |-> 0]

Goto(w, s) == pc' = [pc EXCEPT ![w] = s]

\* A call ends, and its locals with it.
Leave(w) ==
  /\ Goto(w, "idle")
  /\ cutoff' = [cutoff EXCEPT ![w] = -TTL]
  /\ swept' = [swept EXCEPT ![w] = 0]

\* enforceRetention returns to Append, which returns, or to Open.
Return(w) ==
  IF w \in reading THEN Goto(w, "query") /\ UNCHANGED <<cutoff, swept>> ELSE Leave(w)

-----------------------------------------------------------------------------
(* Append and Open *)

\* The call begins: stored_at is read, the statement waits for its turn.
Stamp(w, id) ==
  /\ pc[w] = "idle"
  /\ Goto(w, "insert")
  /\ hand' = [hand EXCEPT ![w] = [id |-> id, at |-> now]]
  /\ UNCHANGED <<rows, now, cutoff, swept, reading, excess, arrived, faults>>

\* A plain INSERT.
InsertTwice(w) ==
  /\ pc[w] = "insert"
  /\ Goto(w, "ttl")
  /\ Len(arrived) < MaxArrived
  /\ rows' = rows \cup {Len(arrived) + 1}
  /\ arrived' = Append(arrived, hand[w])
  /\ hand' = [hand EXCEPT ![w] = NoRow]
  /\ UNCHANGED <<now, cutoff, swept, reading, excess, faults>>

\* The insert of a message that is not there yet; a duplicate changes nothing.
\* Either way the retention pass follows.
Insert(w) ==
  /\ pc[w] = "insert"
  /\ Goto(w, "ttl")
  /\ LET new == \A s \in rows : arrived[s].id # hand[w].id
     IN /\ new => Len(arrived) < MaxArrived
        /\ rows' = IF new THEN rows \cup {Len(arrived) + 1} ELSE rows
        /\ arrived' = IF new THEN Append(arrived, hand[w]) ELSE arrived
  /\ hand' = [hand EXCEPT ![w] = NoRow]
  /\ UNCHANGED <<now, cutoff, swept, reading, excess, faults>>

\* "walkie history": Open sweeps before it returns, then Query reads.
Open(w) ==
  /\ pc[w] = "idle"
  /\ Goto(w, "ttl")
  /\ reading' = reading \cup {w}
  /\ UNCHANGED <<rows, now, hand, cutoff, swept, excess, arrived, faults>>

-----------------------------------------------------------------------------
(* enforceRetention *)

\* The TTL sweep that spares a row lapsing at this instant.
Fresh(row, c) == row.at >= c

\* The rows a TTL sweep with cutoff c keeps.
Unlapsed(row, c) == row.at > c

\* The cutoff is read, the statement waits for its turn.
ReadCutoff(w) ==
  /\ pc[w] = "ttl"
  /\ cutoff' = [cutoff EXCEPT ![w] = now - TTL]
  /\ Goto(w, "sweep")
  /\ UNCHANGED <<rows, now, hand, swept, reading, excess, arrived, faults>>

TTLSweep(w) ==
  /\ pc[w] = "sweep"
  /\ rows' = {s \in rows : Unlapsed(arrived[s], cutoff[w])}
  /\ swept' = [swept EXCEPT ![w] = Len(arrived)]
  /\ Goto(w, "count")
  /\ UNCHANGED <<now, hand, cutoff, reading, excess, arrived, faults>>

\* Count that tolerates a row more than the cap.
CountLenient(w) ==
  /\ pc[w] = "count"
  /\ IF Cardinality(rows) <= Cap + 1
     THEN Return(w) /\ UNCHANGED excess
     ELSE /\ Goto(w, "evict")
          /\ excess' = [excess EXCEPT ![w] = Cardinality(rows) - Cap]
          /\ UNCHANGED <<cutoff, swept>>
  /\ UNCHANGED <<rows, now, hand, reading, arrived, faults>>

Count(w) ==
  /\ pc[w] = "count"
  /\ IF Cardinality(rows) <= Cap
     THEN Return(w) /\ UNCHANGED excess
     ELSE /\ Goto(w, "evict")
          /\ excess' = [excess EXCEPT ![w] = Cardinality(rows) - Cap]
          /\ UNCHANGED <<cutoff, swept>>
  /\ UNCHANGED <<rows, now, hand, reading, arrived, faults>>

\* The newest n rows deleted in place of the oldest.
DropNewest(n) == {s \in rows : Cardinality({t \in rows : t > s}) >= n}

\* The oldest n rows deleted, or all of them when there are fewer.
DropOldest(n) == {s \in rows : Cardinality({t \in rows : t < s}) >= n}

\* Deletes as many rows as were counted too many; when it finds fewer, the
\* caller gets an error although its row was stored.
Evict(w) ==
  /\ pc[w] = "evict"
  /\ rows' = DropOldest(excess[w])
  /\ excess' = [excess EXCEPT ![w] = 0]
  /\ Return(w)
  /\ UNCHANGED <<now, hand, reading, arrived, faults>>

\* Store.Query returns the rows in seq order, filtered, and changes none.
Query(w) ==
  /\ pc[w] = "query"
  /\ reading' = reading \ {w}
  /\ Leave(w)
  /\ UNCHANGED <<rows, now, hand, excess, arrived, faults>>

\* The next statement of w fails and ends its call, or the process dies.
Abandon(w) ==
  /\ pc[w] # "idle"
  /\ faults < MaxFaults
  /\ faults' = faults + 1
  /\ excess' = [excess EXCEPT ![w] = 0]
  /\ hand' = [hand EXCEPT ![w] = NoRow]
  /\ reading' = reading \ {w}
  /\ Leave(w)
  /\ UNCHANGED <<rows, now, arrived>>

Tick ==
  /\ now < MaxTime
  /\ now' = now + 1
  /\ UNCHANGED <<rows, pc, hand, cutoff, swept, reading, excess, arrived, faults>>

Init ==
  /\ rows = {} /\ arrived = <<>>
  /\ now = 0
  /\ pc = [w \in Writers |-> "idle"]
  /\ hand = [w \in Writers |-> NoRow]
  /\ cutoff = [w \in Writers |-> -TTL]
  /\ swept = [w \in Writers |-> 0]
  /\ excess = [w \in Writers |-> 0]
  /\ reading = {}
  /\ faults = 0

Next ==
  \/ \E w \in Writers :
       \/ \E id \in 1 .. MaxIds : Stamp(w, id)
       \/ Insert(w) \/ Open(w) \/ ReadCutoff(w) \/ TTLSweep(w) \/ Count(w) \/ Evict(w) \/ Query(w) \/ Abandon(w)
  \/ Tick

Spec == Init /\ [][Next]_vars

-----------------------------------------------------------------------------
(* Properties *)

Row == [id : 1 .. MaxIds, at : 0 .. MaxTime]

TypeOK ==
  /\ arrived \in Seq(Row) /\ Len(arrived) <= MaxArrived /\ rows \subseteq 1 .. Len(arrived)
  /\ now \in 0 .. MaxTime
  /\ pc \in [Writers -> {"idle", "insert", "ttl", "sweep", "count", "evict", "query"}]
  /\ hand \in [Writers -> Row \cup {NoRow}]
  /\ \A w \in Writers : pc[w] = "insert" => hand[w] \in Row
  /\ cutoff \in [Writers -> -TTL .. MaxTime]
  /\ swept \in [Writers -> 0 .. MaxArrived]
  /\ excess \in [Writers -> 0 .. MaxArrived]
  /\ \A w \in Writers : pc[w] = "evict" => excess[w] > 0
  /\ reading \subseteq Writers
  /\ faults \in 0 .. MaxFaults

Busy == {w \in Writers : pc[w] # "idle"}

\* The cap holds up to one row per append in flight and one per append that
\* failed or died before its own sweep.
CapBound == Cardinality(rows) <= Cap + Cardinality(Busy) + faults

\* Behind its TTL sweep a caller finds no row that had arrived and lapsed when
\* it swept: a query shows one only if it was inserted behind the sweep, by a
\* call that had stamped it before.
NoLapsedAfterSweep ==
  \A w \in Writers : pc[w] \in {"count", "evict", "query"} =>
    \A s \in rows : s <= swept[w] => arrived[s].at > cutoff[w]

\* A row that is gone while an earlier one is there has lapsed: the cap takes
\* from the old end only, however the sweeps of several writers interleave, and
\* only a row stamped before an earlier one can leave a hole.
NoHoles ==
  \A s \in rows : \A t \in s .. Len(arrived) :
    t \in rows \/ arrived[t].at <= now - TTL

\* Every message is stored once, although it may be delivered again.
StoredOnce == \A s, t \in rows : arrived[s].id = arrived[t].id => s = t

\* Retention holds under concurrent writers: bounded by the cap and the appends
\* in flight, nothing lapsed survives a sweep, no row goes before an earlier one
\* unless it has lapsed, and each message is there once.
RetentionHolds ==
  TypeOK /\ CapBound /\ NoLapsedAfterSweep /\ NoHoles /\ StoredOnce

\* Enforcing the cap removes what exceeds it and no more: after an eviction the
\* history is full.
EvictKeepsCap == [][\A w \in Writers : Evict(w) => Cardinality(rows') >= Cap]_vars
=============================================================================
