---------------------------- MODULE ServerDrain ----------------------------
(***************************************************************************)
(* How the coordinator stops: Serve, shutdown, ServeHTTP, track, release   *)
(* and abortConn of internal/coordinator/server.go, and the order in which *)
(* cmd/walkie-coordinator closes what the handlers use.                    *)
(*                                                                         *)
(* Every connection has a handler goroutine; shutdown runs beside them,    *)
(* and so does one closing goroutine per registered connection.  connsMu   *)
(* makes track, release and the two snapshots single steps.  Time is       *)
(* counted in closeHandshakeBudget units, of which the grace window has    *)
(* two; a timer may fire late and never early.                             *)
(***************************************************************************)
EXTENDS Naturals, FiniteSets

CONSTANTS
  Sockets,     \* requests that reach the HTTP server
  Responsive,  \* peers that echo a close frame
  CanFail      \* hs.Serve may fail

ASSUME DrainAssumption ==
  /\ IsFiniteSet(Sockets)
  /\ Responsive \subseteq Sockets
  /\ CanFail \in BOOLEAN

Budget == 1    \* closeHandshakeBudget
Grace == 2     \* shutdownGrace

VARIABLES
  handler,   \* handler[c]: where the handler of c is
  wg,        \* the WaitGroup's count
  conns,     \* the registry
  draining,
  closed,    \* connections whose transport is closed, by either side
  cancelled, \* connections whose context is cancelled
  polite,    \* connections whose close handshake shutdown has begun
  serve,     \* where Serve is
  now,       \* time since shutdown began
  closedAt,  \* when the polite closes began
  verdict,   \* what Serve returned
  store      \* the store and the tracker are open

server == <<handler, wg, conns, closed, cancelled>>
stop == <<draining, polite, serve, now, closedAt, verdict, store>>
vars == <<server, stop>>

Counted == {"accepting", "hijacked", "serving", "leaving"}
Running == {"resolving"} \cup Counted

\* The requests net/http counts: Accept has not hijacked them.
Inflight == {c \in Sockets : handler[c] \in {"resolving", "accepting"}}

Goto(c, where) == handler' = [handler EXCEPT ![c] = where]

-----------------------------------------------------------------------------
(* The handler *)

\* A request arrives while the listener is open.
Request(c) ==
  /\ handler[c] = "none" /\ serve = "serving"
  /\ Goto(c, "resolving")
  /\ UNCHANGED <<wg, conns, closed, cancelled, stop>>

\* ServeHTTP's identity gate refuses, with a 403 and no upgrade.
Refuse(c) ==
  /\ handler[c] = "resolving"
  /\ Goto(c, "gone")
  /\ UNCHANGED <<wg, conns, closed, cancelled, stop>>

\* The identity is resolved; the handler counts itself before Accept hijacks.
Resolved(c) ==
  /\ handler[c] = "resolving"
  /\ Goto(c, "accepting")
  /\ wg' = wg + 1
  /\ UNCHANGED <<conns, closed, cancelled, stop>>

\* websocket.Accept fails, or hijacks the connection from net/http.
AcceptFails(c) ==
  /\ handler[c] = "accepting"
  /\ Goto(c, "gone")
  /\ wg' = wg - 1
  /\ UNCHANGED <<conns, closed, cancelled, stop>>
Accept(c) ==
  /\ handler[c] = "accepting"
  /\ Goto(c, "hijacked")
  /\ UNCHANGED <<wg, conns, closed, cancelled, stop>>

\* track, and the way out when shutdown has begun.
TrackAlways(c) ==
  /\ handler[c] = "hijacked"
  /\ conns' = conns \cup {c} /\ Goto(c, "serving")
  /\ UNCHANGED <<wg, closed, cancelled, stop>>
TrackLeaks(c) ==
  /\ handler[c] = "hijacked"
  /\ \/ /\ ~draining
        /\ conns' = conns \cup {c} /\ Goto(c, "serving") /\ UNCHANGED closed
     \/ /\ draining
        /\ Goto(c, "gone") /\ closed' = closed \cup {c} /\ UNCHANGED conns
  /\ UNCHANGED <<wg, cancelled, stop>>
Track(c) ==
  /\ handler[c] = "hijacked"
  /\ \/ /\ ~draining
        /\ conns' = conns \cup {c}
        /\ Goto(c, "serving")
        /\ UNCHANGED <<wg, closed>>
     \/ /\ draining
        /\ wg' = wg - 1
        /\ closed' = closed \cup {c}
        /\ Goto(c, "gone")
        /\ UNCHANGED conns
  /\ UNCHANGED <<cancelled, stop>>

\* The peer goes away.
PeerCloses(c) ==
  /\ handler[c] = "serving" /\ c \notin closed
  /\ closed' = closed \cup {c}
  /\ UNCHANGED <<handler, wg, conns, cancelled, stop>>

\* Reader returns: the transport is closed or the context is cancelled.  The
\* defers of serveConn take the route away and write the loss to the store.
ReadEnds(c) ==
  /\ handler[c] = "serving" /\ c \in closed \cup cancelled
  /\ Goto(c, "leaving")
  /\ UNCHANGED <<wg, conns, closed, cancelled, stop>>

\* release is the first defer of serveConn and so the last to run.
ReleaseEarly(c) ==
  /\ handler[c] = "serving" /\ c \in closed \cup cancelled
  /\ conns' = conns \ {c} /\ wg' = wg - 1
  /\ Goto(c, "leaving")
  /\ UNCHANGED <<closed, cancelled, stop>>
Release(c) ==
  /\ handler[c] = "leaving"
  /\ conns' = conns \ {c}
  /\ wg' = wg - 1
  /\ closed' = closed \cup {c}
  /\ Goto(c, "gone")
  /\ UNCHANGED <<cancelled, stop>>

-----------------------------------------------------------------------------
(* Serve and shutdown *)

\* hs.Serve fails: the contexts of the registered connections are cancelled
\* and Serve returns, without draining anything.
ServeFails ==
  /\ CanFail /\ serve = "serving"
  /\ cancelled' = cancelled \cup conns
  /\ serve' = "returned" /\ verdict' = "failed"
  /\ UNCHANGED <<handler, wg, conns, closed, draining, polite, now, closedAt, store>>

\* The signal: from here on nothing is registered ...
BeginShutdownUnmarked ==
  /\ serve = "serving" /\ serve' = "http"
  /\ UNCHANGED <<server, draining, polite, now, closedAt, verdict, store>>
BeginShutdown ==
  /\ serve = "serving"
  /\ draining' = TRUE
  /\ serve' = "http"
  /\ UNCHANGED <<server, polite, now, closedAt, verdict, store>>

\* ... hs.Shutdown closes the listener and waits for the requests net/http
\* still counts, which are those not hijacked, until the deadline ...
HttpShutdownUnbounded ==
  /\ serve = "http" /\ Inflight = {} /\ serve' = "closing"
  /\ UNCHANGED <<server, draining, polite, now, closedAt, verdict, store>>
HttpShutdown ==
  /\ serve = "http"
  /\ now >= Grace \/ Inflight = {}
  /\ serve' = "closing"
  /\ UNCHANGED <<server, draining, polite, now, closedAt, verdict, store>>

\* ... every registered connection gets a closing goroutine ...
CloseConns ==
  /\ serve = "closing"
  /\ polite' = conns
  /\ closedAt' = now
  /\ serve' = "waiting"
  /\ UNCHANGED <<server, draining, now, verdict, store>>

\* ... whose peer echoes the close frame ...
HandshakeDone(c) ==
  /\ c \in polite \cap Responsive /\ c \notin closed
  /\ closed' = closed \cup {c}
  /\ UNCHANGED <<handler, wg, conns, cancelled, stop>>

\* ... or which cancels the context when the budget is spent (abortConn).
AbortConn(c) ==
  /\ c \in polite \ closed /\ now >= closedAt + Budget
  /\ c \in conns /\ c \notin cancelled
  /\ cancelled' = cancelled \cup {c}
  /\ UNCHANGED <<handler, wg, conns, closed, stop>>

\* The wait ends with the last handler, or at the deadline, where the contexts
\* of the stragglers are cancelled.
Drained ==
  /\ serve = "waiting" /\ wg = 0
  /\ serve' = "returned" /\ verdict' = "clean"
  /\ UNCHANGED <<server, draining, polite, now, closedAt, store>>
DrainTimeout ==
  /\ serve = "waiting" /\ now >= Grace
  /\ cancelled' = cancelled \cup conns
  /\ serve' = "returned" /\ verdict' = "incomplete"
  /\ UNCHANGED <<handler, wg, conns, closed, draining, polite, now, closedAt, store>>

\* run's defers: the tracker and the store close.
CloseStore ==
  /\ serve = "returned" /\ store
  /\ store' = FALSE
  /\ UNCHANGED <<server, draining, polite, serve, now, closedAt, verdict>>

\* Time passes while shutdown waits: for net/http's requests or for the drain.
Tick ==
  /\ \/ serve = "http" /\ Inflight # {}
     \/ serve = "waiting"
  /\ now < Grace
  /\ now' = now + 1
  /\ UNCHANGED <<server, draining, polite, serve, closedAt, verdict, store>>

Init ==
  /\ handler = [c \in Sockets |-> "none"] /\ wg = 0 /\ conns = {}
  /\ closed = {} /\ cancelled = {}
  /\ draining = FALSE /\ polite = {} /\ serve = "serving" /\ now = 0 /\ closedAt = 0
  /\ verdict = "none" /\ store = TRUE

Next ==
  \/ \E c \in Sockets :
       \/ Request(c) \/ Refuse(c) \/ Resolved(c) \/ AcceptFails(c) \/ Accept(c) \/ Track(c)
       \/ PeerCloses(c) \/ ReadEnds(c) \/ Release(c)
       \/ HandshakeDone(c) \/ AbortConn(c)
  \/ ServeFails \/ BeginShutdown \/ HttpShutdown \/ CloseConns \/ Drained \/ DrainTimeout
  \/ CloseStore \/ Tick

Spec == Init /\ [][Next]_vars

\* Goroutines run, timers fire, an ended read returns.  Nothing is assumed of
\* the peers or of the identity look-up.
Fairness ==
  /\ \A c \in Sockets :
       /\ WF_vars(Accept(c)) /\ WF_vars(Track(c)) /\ WF_vars(ReadEnds(c)) /\ WF_vars(Release(c))
       /\ WF_vars(AbortConn(c))
  /\ WF_vars(HttpShutdown) /\ WF_vars(CloseConns) /\ WF_vars(Drained) /\ WF_vars(DrainTimeout)
  /\ WF_vars(Tick)

FairSpec == Spec /\ Fairness

-----------------------------------------------------------------------------
(* Properties *)

TypeOK ==
  /\ handler \in [Sockets -> {"none", "gone"} \cup Running]
  /\ wg \in 0 .. Cardinality(Sockets)
  /\ conns \subseteq Sockets /\ closed \subseteq Sockets /\ cancelled \subseteq Sockets
  /\ polite \subseteq Sockets
  /\ draining \in BOOLEAN /\ store \in BOOLEAN
  /\ serve \in {"serving", "http", "closing", "waiting", "returned"}
  /\ now \in 0 .. Grace /\ closedAt \in 0 .. Grace
  /\ verdict \in {"none", "clean", "incomplete", "failed"}

\* The WaitGroup counts exactly the handlers net/http no longer counts, so a
\* handler that was hijacked a moment before the drain is waited for.
WaitGroupIsExact == wg = Cardinality({c \in Sockets : handler[c] \in Counted})

\* While shutdown waits there is no connection it does not know of: every
\* handler that serves one has it in the registry and its close has begun, so
\* none hangs the wait (draining is checked under the lock of the registry).
NobodyIsMissed ==
  serve = "waiting" => \A c \in Sockets : handler[c] = "serving" => c \in conns \cap polite

\* After a clean verdict no handler uses the store or the tracker, however
\* late its identity was resolved: "shutdown complete" is true.
CleanIsQuiet == verdict = "clean" => \A c \in Sockets : handler[c] \notin {"serving", "leaving"}

\* The drain is exact: every handler is counted once, every connection is
\* closed or refused, and a clean verdict means that none runs.
DrainIsExact == TypeOK /\ WaitGroupIsExact /\ NobodyIsMissed /\ CleanIsQuiet

\* A stop ends, whatever the peers and the identity look-up do.
StopEnds == (serve = "http") ~> (serve = "returned")

\* Every connection the registry holds at the stop is released in the end, by
\* its peer, the close handshake, the budget or the deadline.
StragglersEnd == (serve = "http") ~> [](conns = {})

\* A stop completes, under Fairness: Serve returns, and what the registry held
\* is released.
StopCompletes == Fairness => StopEnds /\ StragglersEnd

\* "abort whatever outlived the window ... so no handler can outlive Serve
\* itself" (shutdown).
NoHandlerOutlivesServe ==
  verdict = "incomplete" => \A c \in Sockets : handler[c] \notin {"serving", "leaving"}

\* "the WebSocket drain below is bounded separately" from hs.Shutdown: an
\* incomplete drain is one whose connections had their close budget.
DrainHasItsBudget == verdict = "incomplete" => closedAt + Budget <= now

\* "release their contexts so nothing per-connection outlives this call"
\* (Serve, when hs.Serve failed).
FailedServeReleases ==
  verdict = "failed" => \A c \in Sockets : handler[c] = "serving" => c \in cancelled \cup closed
=============================================================================
