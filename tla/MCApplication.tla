--------------------------- MODULE MCApplication ----------------------------
(*****************************************************************************)
(* The client's parts: the outbox and its drain, the message hub, the        *)
(* terminal, the reconnect backoff at every pair of intervals of a width,    *)
(* and the heartbeat cadence.  The modules share no variable, so each        *)
(* behaviour runs one of them, which part selects, and leaves the others at  *)
(* rest.  The constants are those of the parts, and what is proved about a   *)
(* part holds for all their values; the configuration gives the small        *)
(* instance TLC checks, with the default intervals of the heartbeat (15s,    *)
(* 45s, 45s) in units of 5 seconds.                                          *)
(*****************************************************************************)
EXTENDS Outbox

CONSTANTS
  Me, Peers, Capacity, Scrollback, MaxIds, MaxComposed, MaxFiled, MaxFailures,
  ScreenDevices, ScreenMe, InboundSize, RosterSize, ScreenMaxFiled, ScreenMaxOwed,
  Width, MaxAttempt,
  HeartbeatPeriod, DeadPeerInterval, TTL, Lag, Latency, MaxNow

VARIABLES
  part,  \* the part that runs in this behaviour
  order, seen, head, convs, history, reader, hubUi, hubComposed, admitted,
  filed, logged, hubCrashes,
  identity, machine, hub, roster, connFeed, rosterFeed, inbound,
  terminalFiled, unseen, list, current, unread, connectedAs, connState, help,
  text,
  base, cap, phase, attempt, delay,
  now, next, sendBy, beats, up, down, gen, heard, committed, verdict,
  cadenceSeen, online, cadenceLink, stalledAt

hubVars ==
  <<order, seen, head, convs, history, reader, hubUi, hubComposed, admitted,
    filed, logged, hubCrashes>>
terminalVars ==
  <<identity, machine, hub, roster, connFeed, rosterFeed, inbound,
    terminalFiled, unseen, list, current, unread, connectedAs, connState,
    help, text>>
backoffVars == <<base, cap, phase, attempt, delay>>
cadenceVars ==
  <<now, next, sendBy, beats, up, down, gen, heard, committed, verdict,
    cadenceSeen, online, cadenceLink, stalledAt>>

Hub == INSTANCE MessageHub WITH
  ui <- hubUi, composed <- hubComposed, crashes <- hubCrashes

Term == INSTANCE Terminal WITH
  Devices <- ScreenDevices, Me <- ScreenMe, MaxFiled <- ScreenMaxFiled,
  MaxOwed <- ScreenMaxOwed, filed <- terminalFiled

Back == INSTANCE Backoff

Beat == INSTANCE Cadence WITH seen <- cadenceSeen, link <- cadenceLink

ASSUME ApplicationAssumption ==
  /\ Hub!HubAssumption
  /\ Term!TerminalAssumption
  /\ Back!BackoffAssumption
  /\ Beat!CadenceAssumption

MCInit ==
  /\ part \in {"outbox", "hub", "terminal", "backoff", "cadence"}
  /\ Init /\ Hub!Init /\ Term!Init /\ Back!Init /\ Beat!Init
  /\ part # "backoff" => base = 0 /\ cap = 0

OutboxStep ==
  /\ part = "outbox" /\ Next
  /\ UNCHANGED <<part, hubVars, terminalVars, backoffVars, cadenceVars>>

HubStep ==
  /\ part = "hub" /\ Hub!Next
  /\ UNCHANGED <<part, vars, terminalVars, backoffVars, cadenceVars>>

TerminalStep ==
  /\ part = "terminal" /\ Term!Next
  /\ UNCHANGED <<part, vars, hubVars, backoffVars, cadenceVars>>

BackoffStep ==
  /\ part = "backoff" /\ Back!Next
  /\ UNCHANGED <<part, vars, hubVars, terminalVars, cadenceVars>>

CadenceStep ==
  /\ part = "cadence" /\ Beat!Next
  /\ UNCHANGED <<part, vars, hubVars, terminalVars, backoffVars>>

MCNext == OutboxStep \/ HubStep \/ TerminalStep \/ BackoffStep \/ CadenceStep

mcVars == <<part, vars, hubVars, terminalVars, backoffVars, cadenceVars>>

MCSpec == MCInit /\ [][MCNext]_mcVars

-----------------------------------------------------------------------------
\* Dedup is a window: its ring and its set hold the latest ids, and a
\* message is shown again only if Capacity others came in between.
DedupIsWindow == Hub!DedupIsWindow

\* What a peer and this device say to each other is one conversation, in the
\* log as in the history, whichever goroutine files it.
FilingIsSound == Hub!FilingIsSound

\* The screen is late at worst: it catches up with hub, roster and machine,
\* and neither events nor keys behind the overlay move what the user looks
\* at.
ScreenIsTrue == Term!ScreenIsTrue

\* Every delay is drawn from [0, min(cap, base * 2^attempt)), counted from
\* the last session, also where the doubling overflows (Delay).
DelayIsPromised == Back!DelayIsPromised

\* Watchdog and lease are right: no alarm while the link works and
\* goroutines are late by Lag at most, none late when it does not.
AlarmsAreRight == Beat!AlarmsAreRight
=============================================================================
