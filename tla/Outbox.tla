------------------------------- MODULE Outbox -------------------------------
(***************************************************************************)
(* internal/outbox and its driver in cmd/walkie/app.go: the messages a     *)
(* device composes while it cannot reach its coordinator.                  *)
(*                                                                         *)
(* SendFromUI composes a message, tries to send it and holds what it could *)
(* not send.  The terminal calls it, and so does every connection of the   *)
(* control socket: any number of calls run at once, one per message.       *)
(* WatchConn consumes the changes of the connection and starts one drain   *)
(* per online transition.  A drain reads the table once and sends what it  *)
(* read; the draining flag lets one run at a time.  The connection itself  *)
(* is ControlClient's subject: here it is down, has a session installed,   *)
(* or has been announced online.                                           *)
(*                                                                         *)
(* Messages are numbered in the order they are composed, all of them in    *)
(* one conversation.  A row of the table is the number of its message and  *)
(* the seq it got when it was inserted: calls that overtake each other     *)
(* make the two orders differ.                                             *)
(***************************************************************************)
EXTENDS Naturals, Sequences, SequencesExt, FiniteSets

CONSTANTS
  MaxMessages,  \* bound: messages composed
  MaxFaults,    \* bound: write errors and storage failures
  MaxCrashes,   \* bound: crashes of the client process
  MaxOwed,      \* bound: online transitions or drains waiting at one time
  LongSessions  \* TRUE when a session outlives the drain it starts

ASSUME OutboxAssumption ==
  /\ MaxMessages \in Nat
  /\ MaxFaults \in Nat
  /\ MaxCrashes \in Nat
  /\ MaxOwed \in Nat
  /\ LongSessions \in BOOLEAN

Ids == 1 .. MaxMessages

VARIABLES
  conn,      \* "down", "installed" (c.sess is set) or "up" (the machine is online)
  known,     \* the identity of the first HelloAck, without which no hub exists
  owed,      \* online changes WatchConn has not consumed
  spawned,   \* drainOutbox goroutines that have not reached the swap
  draining,  \* a.draining
  drain,     \* where the drain that holds the flag is
  todo,      \* what is left of its snapshot of the table
  box,       \* table outbox_message: the messages of its rows
  seq,       \* the seq of a message's row
  last,      \* the last seq AUTOINCREMENT gave out
  composed,  \* messages composed so far
  sending,   \* messages whose SendFromUI has still to try the connection
  holding,   \* messages whose SendFromUI failed to send and has still to hold
  refused,   \* messages whose loss SendFromUI has reported to the caller
  lost,      \* messages in the hands of a call that died with the process
  wire,      \* frames the transport carried, in order
  faults,    \* write errors and storage failures so far
  crashes    \* crashes so far

drainer == <<draining, drain, todo>>
table == <<box, seq, last>>
composer == <<composed, sending, holding, refused, lost>>
link == <<conn, known, owed, spawned>>
budget == <<faults, crashes>>
vars == <<link, drainer, table, composer, wire, budget>>

Fail ==
  /\ faults < MaxFaults
  /\ faults' = faults + 1

-----------------------------------------------------------------------------
(* The connection, as the app sees it *)

\* installSession and setIdentity: sends work from here on.
Install ==
  /\ conn = "down"
  /\ conn' = "installed"
  /\ known' = TRUE
  /\ UNCHANGED <<owed, spawned, drainer, table, composer, wire, budget>>

\* The transition to online, which the app's subscription never drops.
Online ==
  /\ conn = "installed"
  /\ owed < MaxOwed
  /\ conn' = "up"
  /\ owed' = owed + 1
  /\ UNCHANGED <<known, spawned, drainer, table, composer, wire, budget>>

\* The session dies and serve detaches it, which is always after the machine
\* has been online.
Drop ==
  /\ conn = "up"
  /\ LongSessions => owed = 0 /\ spawned = 0 /\ drain = "idle"
  /\ conn' = "down"
  /\ UNCHANGED <<known, owed, spawned, drainer, table, composer, wire, budget>>

\* Client.Send of m: refused without a session; with one it is carried, or the
\* write fails and the frame may have left all the same.
Send(m, ok) ==
  \/ /\ ok
     /\ conn # "down"
     /\ wire' = Append(wire, m)
     /\ UNCHANGED faults
  \/ /\ ~ok
     /\ conn = "down"
     /\ UNCHANGED <<wire, faults>>
  \/ /\ ~ok
     /\ conn # "down"
     /\ Fail
     /\ wire' \in {wire, Append(wire, m)}

-----------------------------------------------------------------------------
(* SendFromUI *)

\* The hub files the message, history and the panes get it; it has not been
\* sent.  Before the first handshake there is no hub and nothing is composed.
Compose ==
  /\ known
  /\ composed < MaxMessages
  /\ composed' = composed + 1
  /\ sending' = sending \cup {composed + 1}
  /\ UNCHANGED <<link, drainer, table, holding, refused, lost, wire, budget>>

\* A failed send is dropped when the connection is up: the bug of a sender that
\* treats only ErrOffline as a reason to hold.
UISendNoHold(m) ==
  /\ m \in sending
  /\ sending' = sending \ {m}
  /\ \/ Send(m, TRUE) /\ UNCHANGED holding
     \/ Send(m, FALSE) /\ holding' = IF conn = "down" THEN holding \cup {m} ELSE holding
  /\ UNCHANGED <<link, drainer, table, composed, refused, lost, crashes>>

UISend(m) ==
  /\ m \in sending
  /\ sending' = sending \ {m}
  /\ \/ Send(m, TRUE) /\ UNCHANGED holding
     \/ Send(m, FALSE) /\ holding' = holding \cup {m}
  /\ UNCHANGED <<link, drainer, table, composed, refused, lost, crashes>>

\* Outbox.Enqueue: durable when it returns, or refused loudly.
Enqueue(m) ==
  /\ m \in holding
  /\ holding' = holding \ {m}
  /\ \/ /\ box' = box \cup {m}
        /\ last' = last + 1
        /\ seq' = [seq EXCEPT ![m] = last + 1]
        /\ UNCHANGED <<refused, faults>>
     \/ Fail /\ refused' = refused \cup {m} /\ UNCHANGED table
  /\ UNCHANGED <<link, drainer, composed, sending, lost, wire, crashes>>

-----------------------------------------------------------------------------
(* WatchConn and drainOutbox *)

\* Announce the key, whose failure is only logged, and start a drain.
Watch ==
  /\ owed > 0
  /\ spawned < MaxOwed
  /\ owed' = owed - 1
  /\ spawned' = spawned + 1
  /\ UNCHANGED <<conn, known, drainer, table, composer, wire, budget>>

\* The flag is held by a drain that runs: this one returns.
Collapse ==
  /\ spawned > 0
  /\ draining
  /\ spawned' = spawned - 1
  /\ UNCHANGED <<conn, known, owed, drainer, table, composer, wire, budget>>

\* StartDrain without the compare-and-swap.
StartDrainUnguarded ==
  /\ spawned > 0
  /\ spawned' = spawned - 1
  /\ draining' = TRUE
  /\ drain' = "read"
  /\ todo' = {}
  /\ UNCHANGED <<conn, known, owed, table, composer, wire, budget>>

StartDrain ==
  /\ spawned > 0
  /\ ~draining
  /\ spawned' = spawned - 1
  /\ draining' = TRUE
  /\ drain' = "read"
  /\ todo' = {}
  /\ UNCHANGED <<conn, known, owed, table, composer, wire, budget>>

\* Outbox.Pending: one snapshot, or a failed query that ends the drain.
ReadPending ==
  /\ drain = "read"
  /\ \/ drain' = "send" /\ todo' = box /\ UNCHANGED faults
     \/ Fail /\ drain' = "end" /\ UNCHANGED todo
  /\ UNCHANGED <<link, draining, table, composer, wire, crashes>>

\* Pending ordered by seq DESC, newest first.
NewestRow(m, rows) == m \in rows /\ \A k \in rows : seq[k] <= seq[m]

\* ORDER BY seq: the row of the snapshot the loop is at.
OldestRow(m, rows) == m \in rows /\ \A k \in rows : seq[m] <= seq[k]

\* DrainSend that goes on to the removal when the write failed.
DrainSendIgnoringError ==
  /\ drain = "send"
  /\ \E m \in todo : OldestRow(m, todo) /\ \E ok \in BOOLEAN : Send(m, ok)
  /\ drain' = "remove"
  /\ UNCHANGED <<link, draining, todo, table, composer, crashes>>

\* Send the oldest; the first failure ends the drain with the rest still held.
DrainSend ==
  /\ drain = "send"
  /\ \E m \in todo :
       /\ OldestRow(m, todo)
       /\ \/ Send(m, TRUE) /\ drain' = "remove"
          \/ Send(m, FALSE) /\ drain' = "end"
  /\ UNCHANGED <<link, draining, todo, table, composer, crashes>>

\* Outbox.Remove of what was sent; a failed statement ends the drain.
DrainRemove ==
  /\ drain = "remove"
  /\ \/ /\ \E m \in todo :
             OldestRow(m, todo) /\ box' = box \ {m} /\ todo' = todo \ {m}
        /\ drain' = "send"
        /\ UNCHANGED faults
     \/ Fail /\ drain' = "end" /\ UNCHANGED <<box, todo>>
  /\ UNCHANGED <<link, draining, seq, last, composer, wire, crashes>>

DrainDone ==
  /\ drain = "send" /\ todo = {}
  /\ drain' = "end"
  /\ UNCHANGED <<link, draining, todo, table, composer, wire, budget>>

\* EndDrain without the release, as on a return path that misses it.
EndDrainHoldingFlag ==
  /\ drain = "end"
  /\ drain' = "idle"
  /\ todo' = {}
  /\ UNCHANGED <<link, draining, table, composer, wire, budget>>

\* The deferred release of the flag.
EndDrain ==
  /\ drain = "end"
  /\ draining' = FALSE
  /\ drain' = "idle"
  /\ todo' = {}
  /\ UNCHANGED <<link, table, composer, wire, budget>>

-----------------------------------------------------------------------------
(* The client dies and is started again: the table is all that is left.     *)
Crash ==
  /\ crashes < MaxCrashes
  /\ crashes' = crashes + 1
  /\ conn' = "down" /\ known' = FALSE /\ owed' = 0 /\ spawned' = 0
  /\ draining' = FALSE /\ drain' = "idle" /\ todo' = {}
  /\ sending' = {} /\ holding' = {}
  /\ lost' = lost \cup sending \cup holding
  /\ UNCHANGED <<table, composed, refused, wire, faults>>

Init ==
  /\ conn = "down" /\ known = FALSE /\ owed = 0 /\ spawned = 0
  /\ draining = FALSE /\ drain = "idle" /\ todo = {}
  /\ box = {} /\ seq = [m \in Ids |-> 0] /\ last = 0
  /\ composed = 0 /\ sending = {} /\ holding = {} /\ refused = {} /\ lost = {}
  /\ wire = <<>>
  /\ faults = 0 /\ crashes = 0

Next ==
  \/ Install \/ Online \/ Drop \/ Crash
  \/ Compose
  \/ \E m \in Ids : UISend(m) \/ Enqueue(m)
  \/ Watch \/ Collapse \/ StartDrain \/ ReadPending
  \/ DrainSend \/ DrainRemove \/ DrainDone \/ EndDrain

Spec == Init /\ [][Next]_vars

\* The supervisor reconnects for ever and every goroutine is scheduled.
Fairness ==
  /\ WF_vars(Install) /\ WF_vars(Online)
  /\ \A m \in Ids : WF_vars(UISend(m)) /\ WF_vars(Enqueue(m))
  /\ WF_vars(Watch) /\ WF_vars(Collapse) /\ WF_vars(StartDrain)
  /\ WF_vars(ReadPending) /\ WF_vars(DrainSend) /\ WF_vars(DrainRemove)
  /\ WF_vars(DrainDone) /\ WF_vars(EndDrain)

FairSpec == Spec /\ Fairness

-----------------------------------------------------------------------------
(* Properties *)

Sent == ToSet(wire)

TypeOK ==
  /\ conn \in {"down", "installed", "up"}
  /\ known \in BOOLEAN
  /\ owed \in 0 .. MaxOwed /\ spawned \in 0 .. MaxOwed
  /\ draining \in BOOLEAN
  /\ drain \in {"idle", "read", "send", "remove", "end"}
  /\ todo \subseteq Ids /\ box \subseteq Ids /\ wire \in Seq(Ids)
  /\ seq \in [Ids -> Nat] /\ last \in Nat
  /\ composed \in 0 .. MaxMessages
  /\ sending \subseteq Ids /\ holding \subseteq Ids
  /\ refused \subseteq Ids /\ lost \subseteq Ids
  /\ faults \in 0 .. MaxFaults /\ crashes \in 0 .. MaxCrashes

\* A message leaves the outbox only when the transport has carried it, whatever
\* fails and whenever the process dies (outbox.go, Remove).
HeldUntilSent == [][box \ box' \subseteq Sent]_vars

\* A drain goes on to the removal only with a frame that was carried, the one
\* of the table's first row: a failure blocks the line, it never skips, and the
\* rows that calls add meanwhile come behind it (drainOutbox).
HeadOfLine ==
  [][drain = "send" /\ drain' = "remove" =>
       /\ Len(wire) < Len(wire')
       /\ \A m \in box : seq[wire'[Len(wire')]] <= seq[m]]_vars

\* Held messages leave in the order they were held, each once the transport
\* has carried it.
LeavesInTurn == HeldUntilSent /\ HeadOfLine

\* Every copy of a frame beyond the first is owed to a fault or a crash: two
\* drains never send the same row (the draining flag).
DuplicatesNeedFaults == Len(wire) <= Cardinality(Sent) + faults + crashes

\* The row a running drain is about to send or to remove is in the table: the
\* snapshot is a prefix of the table, although calls of SendFromUI add to it.
SnapshotIsPrefix ==
  drain \in {"send", "remove"} =>
    todo \subseteq box /\ \A m \in box \ todo, k \in todo : seq[k] < seq[m]

\* What was composed is on the wire, held, in the hands of a call, or reported
\* to the caller as lost; a crash costs the messages in hand and no other.
Accounted ==
  \A m \in 1 .. composed :
    m \in Sent \cup box \cup sending \cup holding \cup refused \cup lost

\* Every composed message is held, carried or refused, as often as faults
\* and crashes explain, and a drain works on a prefix of what is held.
OutboxAccounts ==
  TypeOK /\ Accounted /\ DuplicatesNeedFaults /\ SnapshotIsPrefix

\* Where sessions outlive the drain they start and the connection keeps breaking
\* and coming back, every held message is sent: none starves behind the head,
\* and no way out of drainOutbox leaves the flag set.
HeldIsSent ==
  []<>(conn = "down") => \A m \in Ids : m \in box ~> m \notin box

\* A drain that finds the flag set returns because the running one "sees the
\* same pending set" (drainOutbox).
CollapseSeesAll ==
  [][Collapse => box \subseteq todo \/ drain = "read"]_vars

\* Within a conversation a message is not carried before an earlier one.
SentInOrder ==
  \A m \in Sent : \A k \in 1 .. m - 1 : k \in Sent \cup refused
=============================================================================
