# Walkie, modelled in TLA+

Walkie is a push-to-talk and messaging tool for the devices of one tailnet. A
**coordinator** (`cmd/walkie-coordinator`) authenticates devices, tells them who
is online, routes messages between them and keeps messages for devices that are
away. A **client** (`cmd/walkie`) keeps one control connection to the
coordinator, files what arrives, holds what it cannot send yet, and serves a
local control socket for the terminal interface and for scripts.

This directory holds the models of its stateful parts, the TLC configurations
that check them on small instances, and proofs for all instances. Definitions
keep the names of the Go functions they model. `PROJECT.json` maps every
definition to its lines.

    tlc -config OfflineQueue_safety.cfg MCOfflineQueue     # one run
    tlapm OfflineQueue_proofs.tla                          # one set of proofs

## Inventory

### Coordinator

| Part | State | Operations | What is hard | What makes it correct |
|---|---|---|---|---|
| Offline queue (`coordinator/queue`) | tables `queue_inbox`, `queue_cursor`; timer, wake channel, watcher | `Enqueue`, `Ack`, `Resume`, `PendingCount`, `sweep`, `watch`, `Close`, `newQueue` | sweep without the mutex, stale timer snapshots, crashes, failing statements, `uint64` to `int64` | messages leave by expiry or acknowledgement only; positions are used once; the cap holds; nothing expired is kept for ever |
| Presence tracker (`coordinator/presence`) | connection count, lease with generation, last seen, status label, subscribers; two tables | `ConnectionEstablished`, `ConnectionLost`, `ObserveHeartbeat`, `SetStatus`, `expire`, `Subscribe`, `Snapshot`, `Close` | late fires, overlapping connections, dropped changes | no ghosts, no flicker, silence is noticed, labels survive |
| Connection handling (`coordinator/server.go`, `presence.go`) | tracked connections, drain flag, routes | `ServeHTTP`, `serveConn`, `pumpPresence`, `dispatch`, `handleHello`, `handleQueueAck`, `shutdown` | snapshot against pump, exit order, drain with a grace period | a roster converges; every accepted connection is released |
| Routing (`coordinator/routing.go`) | routes per device | `handleDirect`, `handleBroadcast`, `deliverUnroutable`, `addRoute`, `removeRoute` | half-open routes, swallowed write errors, full inboxes | a message is delivered, held or refused, never silently gone |
| Key directory (`coordinator/keys.go`, `crypto/keystore.go`) | pinned keys, saved file | `Authorize`, `PinnedKey`, `Entries`, broadcast | change of a pinned key, failing save | first use pins, in memory as on disk; a changed key is refused unless the operator confirms it |

### Client

| Part | State | Operations | What is hard | What makes it correct |
|---|---|---|---|---|
| Control client (`control/client.go`) | supervisor, session, in-flight dial, ack position | `Start`, `Stop`, `run`, `handshake`, `serve`, `readLoop`, `Send`, `Acknowledge` | Stop against every phase, redial against the old session | one session at a time, no socket left behind, dead sessions are left |
| Watchdog (`control/heartbeat.go`) | `stopped`, generation, timers | `Activity`, `SendFailed`, `Stop`, `watchDead`, `beatLoop` | three observers of one death | one verdict per death |
| Machine (`control/state.go`) | connection state, subscribers with unbounded queues | `Transition`, `Subscribe`, `Close` | panics on an illegal edge | no illegal edge is ever taken |
| Backoff (`control/backoff.go`) | random stream | `Delay` | overflow of the doubling | delay below the cap |
| Application (`cmd/walkie/app.go`) | drain flag, names of peers | `OnEnvelope`, `WatchConn`, `drainOutbox`, `SendFromUI` | wake-ups lost during a drain, overtaking, acknowledging before filing | nothing held is forgotten; nothing acknowledged is lost |
| Outbox (`outbox`) | FIFO table | `Enqueue`, `Pending`, `Remove` | crash between send and remove, several senders at once | at-least-once, in the order of the table |
| Message log and dedup (`message`, `messagehub`) | ring of ids, bounded log | `First`, `Append`, `Apply`, `SendDirect` | redelivery beyond the ring | a redelivery inside the window is dropped |
| History (`history`) | table with retention | `Append`, `enforceRetention` | two appends that evict, the clock read ahead of the statement | the newest messages are kept |
| Control socket (`ctlsocket`) | subscriber queues, drop counts | `publish`, `subscribe`, `enqueue`, `take` | full queues, subscribe against publish | a gap is reported where it happened |
| Presence view (`presenceview`) | last roster line per device | `Apply`, `Subscribe` | dropped changes | agrees with the tracker once it is quiet |
| Terminal interface (`tui`) | conversation list, selection, markers, overlay | `Update`, `handleKey`, `refreshConversations` | three feeds in any order, two of them lossy | late at worst; never moves the user to another peer |
| Store and migrations (`store`) | schema ledger, tables | `Open`, `applyMigrations`, `applyOne` | two processes, two binaries, crashes | a step is there as a whole or not at all |
| Clock (`clock`) | waiters, timers | `NewTimer`, `Stop`, `Reset`, `Sleep`, `Advance` | fires claimed under the lock and delivered after it | no fire is lost, nobody is woken early |

The remaining parts (identity through the tailnet daemon, sealed boxes and
fingerprints, audio, observability, flag parsing, the test network and generated
code) are I/O, computation on bytes or wiring; `PROJECT.json` gives the reason for
each.

### How they meet

A device's client dials and says hello with the position it has processed. The
server's handler calls `ConnectionEstablished`, streams roster changes, registers
a route and, on hello, `Resume`s the inbox. A direct message goes to the
recipient's routes or into its queue. The client acknowledges positions, the
server calls `Ack`. Heartbeats feed the tracker's leases on the server and the
watchdog on the client. When a handler exits, its defers remove the route and call
`ConnectionLost`. On the client each online transition starts a drain of the outbox.
What the coordinator persists, pinned keys apart, is in one SQLite database behind
a single connection, so that a statement or a transaction is one step of the
models.

## Modules

| Module | Models | Status |
|---|---|---|
| `InboxPromise` | what a store-and-forward inbox promises, without processes or failures | abstract specification |
| `OfflineQueue` | `coordinator/queue` | checked, proved, shown to implement `InboxPromise` |
| `PresenceTracker` | `coordinator/presence/tracker.go`, `status.go`: leases, connection count, labels | checked, safety proved |
| `Roster` | `coordinator/presence/view.go`, the snapshot and the pump of `server.go` and `presence.go`, the client's `presenceview` | checked, safety proved |
| `Delivery` | `coordinator/routing.go`, the read loop, `handleHello`, `handleQueueAck` and teardown of `server.go`, the client's handshake, `Acknowledge` and `OnEnvelope` | checked, safety proved |
| `KeyDirectory` | `crypto/keystore.go`, `coordinator/keys.go`, the identity file of `crypto/keys.go` | checked, safety proved |
| `ServerDrain` | `Serve`, `shutdown`, `ServeHTTP`, `track`, `release`, `abortConn` of `server.go` | checked, safety proved |
| `ControlClient` | `control`: supervisor, session, watchdog, machine, `Stop` | checked, safety proved |
| `Cadence` | `control/heartbeat.go` and the lease in time | checked, safety proved |
| `Backoff` | `control/backoff.go` and the attempt count of `run` | checked |
| `Outbox` | `outbox`, and `SendFromUI`, `WatchConn`, `drainOutbox` of `cmd/walkie/app.go` | checked, safety proved |
| `MessageHub` | `messagehub`, `message/dedup.go`, `message/log.go`, the filing of `app.go` | checked, safety proved |
| `Terminal` | `tui/model.go`, `notify` of `app.go` | checked, safety proved |
| `History` | `history` | checked, safety proved |
| `Migrations` | `store/store.go`, `store/migrate.go` | checked, safety proved |
| `CtlSocket` | `ctlsocket/server.go`: subscriptions, pump, publish, `Close` | checked, safety proved |
| `SocketListen` | `ctlsocket/listen_unix.go`, `startControlSocket` of `cmd/walkie` | checked, safety proved |
| `FakeClock` | `clock/fake.go` | checked, safety proved |
| `MC*` | instances for TLC | |
| `*_proofs` | theorems and proofs: of one component, or of the components of a suite (`Coordinator_proofs`, `Application_proofs`, `LocalHost_proofs`) | |

Where two modules meet, one takes the other's result and not its steps. `Delivery`
has the inbox as the set of rows `InboxPromise` allows; `Outbox` and `Terminal` have
the connection as what `ControlClient`'s machine announces; `Roster` lets a device
change its line whenever `PresenceTracker` might; `MessageHub` appends to a history
whose retention is `History`'s.

A **suite** is an MC module that puts several components side by side. It extends
one of them and instantiates the others. The first three suites declare the
constants of all their parts and assume of them what the parts ask for, so that the
proofs about a suite's parts hold for all values; the cfg gives the small ones TLC
checks. The two suites for progress fix the constants of the parts they
instantiate:

| Suite | Extends | Instantiates |
|---|---|---|
| `MCCoordinator` | `PresenceTracker` | `Roster`, `KeyDirectory` |
| `MCApplication` | `Outbox` | `MessageHub`, `Terminal`, `Backoff`, `Cadence` |
| `MCLocalHost` | `Migrations` | `History`, `SocketListen`, `FakeClock` |
| `MCCoordinatorProgress` | `ServerDrain` | `OfflineQueue`, `PresenceTracker`, `Delivery`, `KeyDirectory` |
| `MCClientProgress` | `CtlSocket` | `ControlClient`, `Outbox` |

The
components of a suite share no variable. A behaviour chooses in its initial state
the `part` that runs and leaves the others at rest, so TLC explores the sum of
their state spaces and not the product; a property of one component is checked
over all of that component's behaviours and is constant in the others.

A component's safety properties are stated one by one and then collected under
one name that the run checks, the type invariant among them; for instance
`DrainIsExact` is `TypeOK`, `WaitGroupIsExact`, `NobodyIsMissed` and `CleanIsQuiet`. The
parts are the properties to read.

**OfflineQueue.** The tables are `inbox`, `next` and `acked`; they and the pinned
keys survive `Terminate`. `Enqueue` is two steps, as in the code: the body is
sealed before `q.mu` is taken (`EnqueueSeal`) and stored in one transaction
(`EnqueueStore`, or `EnqueueRefused` at the cap, after `Close` or on a failing
statement). `Ack` is one transaction; the position it gets from the wire is a
`uint64` that is converted to `int64`, with `HalfRange` in place of 2^63. The
sweep is a query (`SweepQuery`), one deletion per step (`SweepDelete`) and the
re-arming under the mutex (`SweepDone`), each of which can fail (`SweepFails`).
The watcher takes a snapshot of the timer (`WatchPark`), which `RearmLocked` may
replace at any time, and waits for it, for a nudge or for `Close`. `Start` runs the
startup sweep with the same steps. Bodies are one bit: sealed or not. `bootAt`
remembers when the startup sweep read the clock; the code keeps it in a local.

**ControlClient.** One action per step of `run`, `handshake`, `serve`, `readLoop`,
`watchDead`, `beatLoop` and `Stop` between two points where another goroutine can
interfere: a lock, a channel operation, a network call. Sessions are numbered by
dial attempts. Time is abstract: an armed timer may fire at any moment, which
covers every relation between the intervals. A connection is open, silent (half
open: reads block, writes succeed), broken or closed. `Transition` panics on an
edge that its table lacks; the panic is the state `panicked`, in which the process
is gone. `CloseFirst` is the order of `cmd/walkie`'s defers, which close the
machine before they stop the client. `owed` counts the changes the supervisor has
not yet read from its subscription.

**PresenceTracker.** Every method runs under `t.mu` and is one step. A lease is
the time its timer fires; a watcher whose timer has fired waits for the mutex as a
member of `fires[d]`, told apart by its generation. `sockets` counts the connection
handlers that really run, `conns` is the tracker's own count. Writes of last-seen
times may fail and are forgotten, the write of a label fails before memory takes
it.

**Roster.** The tracker's `Subscribe` and `Snapshot` are two steps of the handler; its
pump runs from then on and writes to the same connection as the snapshot's loop,
line by line. The code sorts the snapshot by device; the model writes the lines that
are left (`rest`) in any order, since no property depends on how devices are named.
Buffers are bounded and a change that finds one full is dropped.
A device that vanishes is last seen now when its connection was lost and at its latest
observation when its lease lapsed.
`missed`, `late` and `unshown` record, for the properties, whose line was dropped,
overtaken by an older one, or not shown.

**Delivery.** A message is dispatched by the handler of its sender's connection:
the routes are listed, then written to one by one, and only if none existed is the
message held. Every connection of the recipient has its handler, which adds the
route, answers the hello with the suffix of the inbox, and on exit removes the
route before it reports the connection lost. A socket may be half open, storage may
fail, and the client may crash between acknowledging and keeping a message. A stored
row may be damaged (`Damage`): unreadable, so that `Resume` skips it and a later
cumulative acknowledgement deletes it, or garbled, so that it is delivered and the
client cannot open its box. `OnEnvelope` forfeits such a box and acknowledges it all the
same; a history append that fails (`Keep`) is only logged, after the acknowledgement.
What a hello is answered with is a set, `replay[k]`, written in the order of
`WrittenFirst`: the HelloAck, then the rows by position. `cause` collects, per message,
the events that can make it disappear: a broadcast to an empty room, a write to a dead
socket, a live frame in flight when its connection dies, a frame dropped ahead of the
HelloAck, a failed hold, an unreadable row, a forfeited box, a failed append, a crash.
`LossHasCause` says that there are no others, and `Settled` which of them may stand in
for the history once a row is acknowledged. A box that fails to open because the
client's key changed is a garbled one.

**KeyDirectory.** `Authorize` holds its lock from the look-up to the rename of the file
and is one step, with the failing save as an alternative. `handleKeyAnnounce`
renders the table, lists the routes and writes, in that order and unlocked. A
device that lost its identity file announces a new key.

**ServerDrain.** Handlers (accepting, tracked, serving, leaving), the shutdown
goroutine and one closing goroutine per connection. `wg` is the wait group's
counter. Time has the unit of the close budget, the grace window is two units, and
timers may be late. Some peers never answer a close frame (those outside
`Responsive`).

**Cadence.** The same heartbeat as in `ControlClient`, with time: a goroutine whose
timer fired runs at most `Lag` later, a frame travels at most `Latency`, unless the
link is stalled. `committed` holds the generations whose deadline fired and whose
watcher has not run yet; comparing them with `gen` is what makes a late fire harmless.

**Backoff.** Durations are two's complement numbers of `Width` bits. `Envelope` is the
loop of `Delay`; the property compares it with the definition without overflow.

**Outbox.** Calls of `SendFromUI`, `WatchConn` and up to one drain per online
transition. The terminal and every connection of the control socket call `SendFromUI`,
each in its own goroutine, so any number of calls is on its way between composing,
sending and holding (`sending`, `holding`). Messages are numbered as they are composed; a
row gets its `seq` when it is inserted, and calls that overtake each other make the two
orders differ. The drain takes the row of the smallest `seq` (`OldestRow`), as
`ORDER BY` does; the frames the transport took are a sequence. A crash loses what only
memory holds (`lost`). With `LongSessions` a session breaks only when no drain is running or
owed; only the liveness property assumes it.

**MessageHub.** The dedup ring with its set and its head index, the bounded log, and
the history written after it, from the read loop and from any number of `SendFromUI`
calls, each a record of where it is and of its message (`Call`). What a conversation
should hold is said by counting: a message displayed with the peer is as far from the
end of the conversation as there are later ones (`Exchanged`, `Since`).

**Terminal.** One event loop over three feeds; the list of conversations is rebuilt
from hub and roster on events. Conversation keys are numbers in list order, so that
inserting and removing entries moves the selection as it does in the code; `Place(k)`,
the index of an entry, is the number of entries up to it.

**History.** `Append` reads the clock (`Stamp`), inserts, reads the cutoff and runs the
three statements of the retention pass. Between any two of these another writer may run,
since a statement waits for the store's one connection; so rows are stored out of clock
order, and a sweep works with a cutoff of the past. `swept` remembers, for the
properties, what had arrived when a writer swept. The table is the set of the sequence numbers it holds, and the statements that drop the oldest or
keep the newest count what is on either side of a row, as `LIMIT` and `OFFSET` do.

**Migrations.** Each process has its own list of steps (`List`), of several
statements each. `schema` has, per version, the statements that were committed, and
`ledger` the versions recorded; the refusal of a store that is newer than the binary
compares the ledger with the end of the list (`Beyond`). SQLite's write lock, busy timeout and rollback after a crash are
external.

**CtlSocket.** One connection: its read loop with `subscribe`, its pump, the
publishers and `Close`. A dropped event is remembered until a gap reports it.

**SocketListen.** `Listen` as the system calls it makes: stat, dial, unlink, bind.
`net.Listen` is one of them. An unlink that fails for another reason than absence ends
the start.

**FakeClock.** `Advance` claims due waiters under the lock and delivers them to
channels of capacity one afterwards; `Stop`, `Reset` and readers run in between. The
list of waiters is split by the places that are due and those that are kept
(`Pick`), which leaves the order of the list as the loop does. A timer has one
owner: two `Reset`s of one timer at the same time are left out.

## Runs

| Run | Shows |
|---|---|
| `queue_safety` | Two enqueueing handlers, acknowledgements of any wire position, sweep, watcher, `Close`, a crash and a failing statement in every order: a sweep hits expired messages only, nothing lapsed survives a restart, no deadline is missed while storage works, and every step is a step of `InboxPromise` (messages leave by expiry or acknowledgement, positions are used once, the cap holds). |
| `queue_failed_sweep` | **Violated.** A sweep that failed is not retried. |
| `client_shutdown` | Three dial attempts, every failure, `Machine.Close` and `Stop` at every point: one verdict per death, verdicts take legal edges, no connection is left behind, only the redial can panic. |
| `client_verdict_race` | **Violated.** A redial can panic on an illegal edge. |
| `client_stop` | **Violated.** `Stop` can miss a session, which is then served for good. |
| `coordinator_safety` | `Truthful` and `OfflineIsJustified`: no ghosts, no flicker, labels are on disk, although connections overlap, fires are late, writes fail and the process restarts. `RosterAgrees`: no send on a closed channel, and a client's view differs from the tracker only where a change was dropped or overtaken. `PinsEndure`: failed saves and restarts neither forget nor replace a pin. |
| `delivery_safety` | Two messages, two connections of the recipient, a crash, a failing statement, a damaged row or box, inboxes of one and of two: replay comes after the HelloAck and is the suffix, an acknowledgement deletes only what the client has settled, the offline verdict follows the route's removal, every loss has a named cause. |
| `delivery_durable` | **Violated.** A delivery is acknowledged before it is on disk. |
| `application_safety` | `OutboxAccounts`, `LeavesInTurn`: held messages leave in the order of the table and after the transport took them, with several senders at once; duplicates and losses need a fault or a crash. `DedupIsWindow`, `FilingIsSound`: ring, set, log and history agree under redelivery and concurrent senders. `ScreenIsTrue`: dropped events make the screen late and no more. `DelayIsPromised`: the envelope of the backoff, also where the doubling overflows. `AlarmsAreRight`: at the default intervals no alarm is false and none is late. |
| `localhost_safety` | `AllOrNothing`, `RetentionHolds`, `PathIsHandedOver`, `WaitersAreServed`: several processes on one store and one socket path, and the fake clock, which loses no fire and wakes nobody early. |
| `coordinator_progress` | `DrainIsExact`: every handler is counted once, every connection is closed or refused, a clean verdict means quiet. Under fairness: a stop ends, and its stragglers too; expired messages go; silent devices are noticed; a replayed suffix arrives; a pin is told to every connection that stays. |
| `client_progress` | `StreamIsHonest`: a script that reads too slowly while the client publishes and shuts down gets every event in order or counted in a gap, and `Close` leaves nothing open. Under fairness: drops of the control socket are reported and its goroutines end; dead and condemned sessions end; the shutdown returns once it has closed the machine, unless the supervisor spins in its drain (`DrainEnds` below); held messages are sent. |

### Bounds

`queue_safety`: three positions with a cap of two let the inbox fill, refuse,
empty and fill again; a TTL of 1 on a clock of 2 lets a message expire while a later
one is alive, and again during downtime; `HalfRange` 4 makes wire positions 4 to 7
the ones that turn negative. One crash and one failing statement reach every pair
of a failure and the recovery from it.

`client_shutdown`: a race between sessions needs an old and a new one; the third
attempt follows a session that failed in the second.

`coordinator_safety`: four observations of a device with two connections, a TTL of 2
on a clock of 6, so that a lease can lapse, be renewed and lapse again; devices
share nothing but the process, so one is enough. `Roster`: a buffer of two and a
view buffer of one overflow with the changes two devices can make. `KeyDirectory`:
three keys for two devices, so that one loses its file and comes back with another
key, a failing save, a lost connection and a restart.

`coordinator_progress`: for `ServerDrain` two peers that answer a close and one that
does not; one more of either kind repeats a role. The other parts are smaller than
in their safety runs, and without crashes, which their liveness excludes anyway.

`client_progress`: for `CtlSocket` a queue of two with five events, so that it fills,
drops, is taken and fills again. Two sessions for the client, which shuts down in the
order of `cmd/walkie`, the machine first (`CloseFirst`); three messages, a fault and a
crash for the outbox.

`delivery_safety`: order, overtaking and a cumulative acknowledgement need two
messages, a stale handler needs two connections; an inbox of one is full with the
first message. The two sizes are chosen in the initial state (`tight`). A damaged row
counts as a fault.

`application_safety`: three messages, so that one is held, one in the drain and one
composed past it, or all three are in the hands of concurrent calls; one online
transition waiting at a time. A ring of two with two received ids and two composed, so
that the oldest is evicted and comes back, and two calls run beside the read loop; three devices on both sides of the selected entry; all pairs of base
and cap of 5 bits with 7 attempts, past every overflow; heartbeat 3, dead-peer
interval 9 and TTL 9 in units of 5 seconds, the defaults of 15, 45 and 45, on a
clock of two dead-peer intervals and a lag.

`localhost_safety`: a cap of one with two writers and three messages, which is where
each evicts from its own count and one stores behind the other's later stamp, and a TTL
of 1 on a clock of 2, which is where a cutoff is stale; four processes (today's binary twice, an older one, and one whose
list lost an entry in a merge) and steps of one and two statements; four starts; two timers and a sleeper.

The bounded systems stop when clocks and counters are used up, programs end and
peers may stay away; those runs do not look for deadlock. The runs
of `OfflineQueue` and `ControlClient` do.

### Fairness

Weak fairness, of goroutines that are runnable and of timers that are due, which
the Go scheduler and runtime guarantee: the sweep and the watcher (`OfflineQueue`);
the supervisor, `Stop` after the owner has closed the machine, the rest of a `Stop` under
way, the pump, the read loop's end, the deadline and
the heartbeat's end (`ControlClient`); the clock, timers and watchers
(`PresenceTracker`); handlers, the shutdown goroutine, aborts and the clock
(`ServerDrain`); dispatch, handlers, the client's read loop and its redial
(`Delivery`); the handlers' writing (`KeyDirectory`); the callers' send and hold, `WatchConn`
and the drain (`Outbox`); the read loop, the pump and `Close` (`CtlSocket`). Nothing
is assumed of peers, users or the process staying up. Two properties assume more, as
part of their statement: `HeldIsSent`, that the supervisor reconnects and sessions
outlive the drain they start (without that a link that always breaks early keeps a
message held, rightly), and `SuffixArrives`, that the connection lives. In a suite each
liveness property is `Fairness => Property` with the fairness of its own part, written
in the suite for the parts it instantiates and in the component for the one it
extends (`StopCompletes`, `PumpServes`).

### Findings

- **A failed sweep is not retried** (`queue.go:531`, run `queue_failed_sweep`). The
  watcher nudges itself, loops and parks on the timer that has already fired. Expired
  messages stay, and count against the cap, until an `Enqueue` re-arms the timer. The
  comment says the sweep is retried on the next wake.
- **A claimed verdict is delivered late** (`heartbeat.go:216`, `:358`, run
  `client_verdict_race`). `SendFailed` and `watchDead` claim the death under `w.mu` and
  call `Transition` after unlocking. The reader that lost the claim returns, `serve`
  returns, the back-off may be as short as zero, and `Transition(connecting)` finds the
  machine online or degraded: it panics.
- **`Stop` misses a session** (`client.go:367`, run `client_stop`). Between the dial's
  return and `setInflight` neither field names the session; the handshake then may
  prefer a reply over `quit`.
- **Acknowledged before durable** (`app.go:156`, run `delivery_durable`). `OnEnvelope`
  acknowledges and then appends to the history; the coordinator deletes the row, a
  crash in between loses the message on both sides.

### Where code and comments part

While modelling, other statements of the comments turned out not to hold of the
code in every interleaving. Each is a definition at the end of its module and no
run checks it, since it fails. To see the counterexample name it in
the cfg, as INVARIANT or, where the claim starts with `[]` or has `~>`, as PROPERTY;
where the last column names an instance, add `X == <Instance>!<Claim>` to the suite
and name `X`. Most of them are harmless.

| Claim | Said at | What happens | Where |
|---|---|---|---|
| `CollapseSeesAll` | `cmd/walkie/app.go:273` "it sees the same pending set" | the running drain has read the table before the message was held | `MCApplication` |
| `SentInOrder` | `outbox/outbox.go:38` per-recipient ordering; `cmd/walkie/app.go:266` "in composition order" | a message composed online passes those the drain still holds, and calls of `SendFromUI` may hold in another order than they composed | `MCApplication` |
| `SelectionStable` | `tui/model.go:333` "the current selection pointed at the same conversation" | a conversation that leaves the list takes the selection elsewhere | `MCApplication`, `Term` |
| `UnreadIsTrue` | `tui/model.go:35` "a dropped notification costs one late repaint" | a dropped message event never sets its marker | `MCApplication`, `Term` |
| `EvictKeepsCap` | `history/history.go:66` "cap enforcement is eventually exact" | two writers evict from the same count and remove more than the excess | `MCLocalHost`, `Hist` |
| `RanIsSkipped` | `store/migrate.go:237` "Steps that already ran are skipped" | a process that read the ledger before the other committed runs the step and fails on the existing table | `MCLocalHost` |
| `GapIsOlder` | `ctlsocket/server.go:517` "everything it describes is older" | what was dropped is newer than what was in the full queue | `MCClientProgress` |
| `SnapshotIsSent` | `ctlsocket/server.go:409` "the snapshot can never be dropped" | publishers fill the queue between registration and seeding | `MCClientProgress` |
| `RunningKeepsSocket` | `ctlsocket/listen_unix.go:17` "silently steals the socket" is what probing avoids | two starts probe the same dead file, and the second unlinks the first one's socket | `MCLocalHost`, `Lis` |
| `StopIsHonest` | `clock/fake.go:35` "instead of pretending to cancel a fire" | after a `Reset` the earlier fire is still on its way | `MCLocalHost`, `Clock` |
| `ExactlyOneWakeUp` | `clock/fake.go:123` "the receiver still gets exactly one wake-up" | `Reset` fires at once and is heard, then the fire that `Advance` had claimed arrives: two | `MCLocalHost`, `Clock` |
| `AdvanceNeverStalls` | `clock/clock.go:66` "never lost or blocked" | `Advance` sends to a channel that still holds a fire | `MCLocalHost`, `Clock` |
| `SnapshotConverges` | `presence/view.go:54` "always converge on the same roster line" | the snapshot's older line is written after the pump's newer one | `MCCoordinator`, `Pump` |
| `HeartbeatRestates` | `presence/view.go:112` "the next heartbeat refresh ... re-states the device's full current state" | a heartbeat of an online device notifies nobody | `Roster` with `Buffer` 1, `ViewBuffer` 3, `MaxTime` 4 |
| `RestatedIsShown` | `presenceview/view.go:140` "a dropped notification costs a late repaint" | an unchanged line is not announced again | `MCCoordinator`, `Pump` |
| `DirectoriesConverge` | `coordinator/keys.go:148` "every connection sees the same table" | two broadcasts cross and the older table arrives last | `MCCoordinator`, `Dir` |
| `QuietWhenUnchanged` | `coordinator/keys.go:138` "An unchanged key ... reaches neither branch" | the broadcast follows in that case too | `MCCoordinator`, `Dir` |
| `NoHandlerOutlivesServe` | `coordinator/server.go:331` "no handler can outlive Serve itself" | contexts are cancelled and Serve returns without waiting | `MCCoordinatorProgress` |
| `DrainHasItsBudget` | `coordinator/server.go:295` "the WebSocket drain below is bounded separately" | a slow request uses up the grace period they share | `MCCoordinatorProgress` |
| `FailedServeReleases` | `coordinator/server.go:252` "so nothing per-connection outlives this call" | a connection tracked after the snapshot is released by nobody | `MCCoordinatorProgress` |
| `RoutedEarlyArrives` | `coordinator/server.go:588` the message "can reach the socket before the gap-queued message" | the client's handshake drops what comes ahead of the HelloAck, presence apart | `MCDelivery` |
| `NoGhostDelivery` | `coordinator/server.go:582` "no window in which presence says offline while a write into a dying socket still counts" | the lease lapses while the route is still there | `MCDelivery` |
| `CountMatchesResume` | `queue/queue.go:401` "Same filter as Resume; the two can never disagree" | a row that `Resume` cannot read and skips is counted | `MCDelivery` |
| `RestartKeepsPosition` | `control/client.go:294` what `RestoreAckPosition` prevents | no caller restores the position | `MCDelivery` |
| `HoldFailureIsRetried` | `coordinator/routing.go:340` "the sender's outbox retransmits" | the outbox let go of the message when the transport took it | `MCDelivery` |
| `ReplayIsAcked` | `proto/walkie/v1/control.proto:61` "resumes from there instead of replaying the whole queue" | only sealed deliveries are acknowledged | `MCDelivery` |
| `SealedFromFirstPin` | `queue/sealed.go:49` "sealed from the first pin onward" | the pin is looked up before the mutex that orders positions | `MCOfflineQueue` |
| `DrainEnds` | `control/client.go:550` drains "history left over" | with the machine closed first, `serve` spins on a closed channel | `MCControlClient`, `CloseFirst`, fair |

## Proofs

The theorems hold for every set of recipients, handlers, devices, sockets, messages
and processes, every TTL, cap and list of migrations, and every value of the bounds;
what they ask of the constants is the assumption their component names. Every
invariant `Inv` below was first checked by TLC on the bounds of the runs.

**OfflineQueue_proofs.** `Inv` is `TypeOK`, `CapRespected`, `PositionsOrdered`,
`NoLapsedAtBoot` and `NoMissedDeadline` with three facts they rest on. `Countable`:
inboxes are finite, so that the cap's count grows by one. `DueNamed`: a key that
the sweep collected names the expired row or nothing, because positions below the
cursor are not handed out again; this is what makes it safe to delete without
the mutex. `Booting`: where the sweeping goroutine is in each phase, and that the
startup sweep has collected all that had lapsed. From it follow the
invariants, the three action properties (`LeavingIsJustified`, `NothingResurrected`,
`AckingIsAtomic`) and `QueueKeepsPromise`: each step maps to a step of
`InboxPromise` or to a stutter. `QueueAssumption` asks for a positive TTL, cap and
range, and that positions stay below 2^63.

**ControlClient_proofs.** `Inv` is `TypeOK`, `OneVerdict`, `VerdictsStayLegal`,
`NoConnectionLeaks` with `Numbered`, `Fresh` (nothing of a session runs before
`serve` starts it), `ClaimStops` (whoever drives the machine has claimed the death),
`WatchedIsServed` (a watchdog nobody has stopped belongs to the session being
served) and `StateFits` (where the machine is while the supervisor alone drives
it). `PanicsAreDials` proves that the race among the findings is the only illegal
edge there is.

**Coordinator_proofs: PresenceTracker.** `Inv` is `TypeOK`, `OnlineIsLeased`, `OnlineIsConnected`
and `LabelIsPersisted` with `Counted` (the tracker's count is exact),
`FiresArePast` (no fire carries a generation that is yet to come, so an
observation makes all fires stale) and `FiresAreDue` (the fire of the latest
observation is due). From it follow `TrackerIsTruthful`, which is the run's `Truthful`, and `NoFlicker`.

**Coordinator_proofs: KeyDirectory.** `PinMatchesFile` and `NoUnpersistedPin` speak of two
copies of the pins that one step writes or leaves; with the types they are inductive
(`DirInv`), and `PinIsSticky` follows from the step of `Authorize`, for a coordinator with a
confirmation gate and one without.

**Coordinator_proofs: Roster.** The claim is about the quiet state, when nothing is on its
way. To carry it there, `Pumped` says at every moment that the newest thing about a
device on the way from the tracker to the view (in the subscription's buffer, in the
pump's hands, on the wire, in the snapshot's rest) says what the tracker's line says,
unless a change was dropped or overtaken. `SeenIsPast` says that no copy was seen later
than the line, which is why a change without a time leaves the right one. `Told` is the
same for the view's subscriber. With the types and the phases of the handler this is
`PumpInv`; it gives `RosterAgreesAlways`.

**ServerDrain_proofs.** `Inv` is `WaitGroupIsExact`, `NobodyIsMissed`, `CleanIsQuiet` and
the types with `RegistryIsExact` (the registry holds the connections whose handler
serves or leaves) and `StopMarked` (a stop that has taken its first step has set
`draining`, so no handler is tracked behind its back). The counter is compared with
a cardinality: four lemmas show that a handler's step moves the counted set by one
element or not at all. `DrainIsExactHolds` follows; its assumption is that the set of
sockets is finite.

**Delivery_proofs.** The question is why an acknowledgement is safe: the client gives
away a position, in a hello or in a QueueAck that some handler has still to read,
and the coordinator deletes every row up to it. `GivenIsSafe` says that the message of
every row such a position covers is settled (`Settled`: in the history, or given up as
unreadable, forfeited, not appended or lost in a crash) or being appended. The position is that of a frame the client
took from its socket, so the proof is about the order of the frames still to come:
`HelloFirst` and `AckFirst` (one hello, one HelloAck, ahead of every queued frame),
`NothingOvertakes` (ahead of a queued frame there is one for every older row the
client lacks), `Ascending` (what is to come lies behind the acknowledged position) and
`FramesAreGenuine` (a queued frame is that of a row, which stays until its message is
processed). `RowsArePlaced`, `Bounded`, `Connected` and `ShownIsKept` say what inbox,
connections and client look like meanwhile. With `ReplayIsSuffix`, `ErasedIsProcessed` and
`LossHasCause` this is inductive and gives `ReplayIsExactHolds`, `AckCoversProcessedHolds`
and `LossHasCauseHolds`; `VerdictAfterRouteHolds` is the action property that a device
is reported lost only after its route is gone.

**Application_proofs: Outbox.** That a message is carried twice only after a fault or a crash is not
inductive: a row that was carried and is still in the table will be carried again, so
it has to be paid for before that happens. `CopiesAreOwed` counts the copies on the
wire together with those to come, against messages, faults and crashes; the row
between its send and its removal is exempt, and `FlagIsHeld` makes it the only one.
`HandIsFresh` says of every message in the hands of a `SendFromUI` call that it is not
in the table yet, `SeqsAscend` that a new row comes behind all others, `RemovedIsSent` is
about the row the drain removes. `OutboxAccountsHolds` follows, and `LeavesInTurnHolds`: rows leave in the order of
the table, each after the transport took it.

**Application_proofs: MessageHub.** `RingHoldsLast` says what is where in the ring in terms of
the sequence of all ids that ever passed: until it is full they are the same, and from
then on the last `Capacity` go round from the head. `SetHoldsLast` says the same of the set, and
`LastAreDistinct` that no id passes twice within the window; so what the ring evicts is
in the set once. `DraftIsNew` is why a message composed here always passes. For
filing, `OneConversationPerPeer` is inductive by itself once one knows how appending to
the record of what was displayed changes the counts; `ShownStays` follows the message
in the hands of the read loop and of each call (`CallsTyped` and lemmas on how a call
moves on keep them apart). `DedupIsWindowAlways` and `FilingIsSoundAlways` follow.

**Application_proofs: Cadence.** The properties are about times and hold for all of them, so
`BeatInv` is a timetable. `OnSchedule` and `NothingOverdue` bound each time the goroutines
wait for by the clock, and the clock by them. `SlotsAreMultiples`, from the remainder in
`NextSlot`, is that beats are sent in the slots `k * HeartbeatPeriod` as long as nobody is a
whole period late. `Flowing`, on a link that works and with intervals that leave room for
latency and lag, says that each frame follows the one before it within a period and the
delays; then neither deadline nor lease can lapse. `FiresAreDueBeats` is that a
current-generation fire is due. `AlarmsAreRightAlways` follows.

**Application_proofs: Terminal.** `ScreenInv` is `TypeOK`, `LateNeverLost`, `ListIsKnown` (what the
list holds is known to hub or roster, so a rebuild can only drop this device's own
entry) and `StatusCatchesUp` (the last connection change on its way is the machine's
state). The two action properties need that a rebuild finds the selected key at its new
place: lemmas about counting show that `Place` orders the keys. `ScreenIsTrueAlways`
follows.

**LocalHost_proofs: Migrations.** `NeverHalfMigrated` and `Prefix` (the ledger is an interval from 1)
need to know of the committing process that every step before its own is recorded,
although it read the ledger once and others have migrated since (`Applied`), and that
it alone has uncommitted statements (`LockIsWork`). Lists may be contiguous or not: the
ones that are not never get past the check. `AllOrNothingHolds` is for any number of
binaries with any lists.

**LocalHost_proofs: SocketListen.** Without an overlap one run at most is between its first
and last system call (`OneAtWork`), and what it found at the path is still there when it
acts on it (`FoundStands`); with these `PathIsHandedOver` is inductive.

**LocalHost_proofs: History.** Rows need not be in clock order, so a sweep may take a row
from the middle of the table. `SweepsLookBack`, that every cutoff lies a TTL or more in the past,
makes such a row a lapsed one; evictions take the old end, which a lemma on counting the
rows below a row shows. Together: a row that is missing behind an older one has lapsed
(`NoHoles`). `TableBound` counts the writers that have still
to enforce the cap and the ones that failed before they did: each accounts for one row
over it.

**LocalHost_proofs: FakeClock.** `PendingIsListed` and `SleepIsListed` say for whom the list has
a waiter, `WakesOnce` that the wake-up of a sleeper whose time has come is either
claimed by `Advance` or in its channel, `FireIsSomewhere` where the fire of a timer is until it is
read. What removing one waiter, appending one and picking the due ones do to the
number of a timer's waiters are lemmas about counting, for lists of any length.
`WaitersAreServedAlways` follows.

**CtlSocket_proofs.** `StreamIsHonest` speaks of what was published and what the script
reads; in between, lines are in the queue and in a batch. `InOrder` (events ascend in
each and from each to the next) and `Counted` (every event since the subscription is in
one of them, or in a count or a gap) follow the lines through. They need `OneWriter`,
that the read loop and the pump never have a batch at the same time, and `Registered`,
that `publish` finds the connection as long as it is open and the server is not
closing. Lemmas say what appending, taking the head and putting a gap first do to the
events and the losses of a sequence of lines; `EnqueueFacts`, `TakeFacts` and `WriteFacts`
lift them to the operations. `StreamIsHonestHolds` follows.

**Only model-checked**:

- `DelayIsPromised`: what `Envelope` of `Backoff` computes is compared with its reference
  over all values of a width, since the loop needs induction over data;
- liveness, which needs fairness and `ENABLED` and is out of the prover's reach:
  `ExpiryHappens`, `SilenceNoticed`, `StopCompletes`, `SuffixArrives`, `PinIsTold`,
  `SessionsEnd`, `ClosedMachineStops`, `HeldIsSent`, `PumpServes`.

## Not modelled

- `tui/view.go` and resizing: layout of what the model holds.
- Audio, observability: device I/O behind build tags; counters and logs that no
  decision reads.
- `tsauth`: asks the tailnet daemon who a peer is; the answer is an input.
- Sealed boxes, fingerprints, encoding of keys: computation on bytes. A body is
  sealed or not, a key is a number.
- The version gate of `handleHello` and malformed frames: they end or skip a frame
  without another effect.
- Request parsing of the control socket, `listen_windows.go` (which refuses), flag
  parsing, help, the coordinator's wiring beyond its closing order.
- `testnet`: the tests' simulation. `genproto`: generated.
- The TTL inside `Delivery`: expiry is `OfflineQueue`'s subject, and a lapsed row is a
  loss the sender was promised.

## Plan

The safety of every modelled component is proved, the arithmetic of `Backoff`
excepted. What is left, in this order:

1. `Delivery` takes from the inbox what `InboxPromise` allows. A refinement mapping
   from `Delivery` to `InboxPromise`, proved step by step like `OfflineQueue`'s, would
   make a theorem of that; it needs the coordinator's high-water mark
   (`queue_cursor`), which `Delivery` does not carry yet.
2. Action properties of the proved components that their invariants already give:
   that a migration, once recorded, stays (`Migrations`), that a connection, once
   refused or closed, is not served again (`ServerDrain`).
