------------------------------ MODULE Terminal ------------------------------
(***************************************************************************)
(* internal/tui: the model of the terminal interface, which runs as one    *)
(* event loop, and the three feeds cmd/walkie gives it.                    *)
(*                                                                         *)
(* Connection changes are never dropped.  Roster changes and filed         *)
(* messages are: their channels are bounded and the read loop that fills   *)
(* them must not block.  The three arrive in any relative order.  On an    *)
(* event the model rebuilds its list of conversations from the hub and the *)
(* roster and looks for the selected one in the new list.                  *)
(*                                                                         *)
(* Conversation keys are numbers in the order the list is sorted: 0 is the *)
(* broadcast, d the direct messages with device d.                         *)
(***************************************************************************)
EXTENDS Naturals, Sequences, FiniteSets

CONSTANTS
  Devices,      \* devices of the fleet, positive numbers
  Me,           \* this device
  InboundSize,  \* capacity of app.inbound
  RosterSize,   \* capacity of the roster subscription
  MaxFiled,     \* bound: messages filed
  MaxOwed       \* bound: connection changes waiting at one time

\* What the constants have to satisfy; every instance assumes it.
TerminalAssumption ==
  /\ Devices \subseteq Nat /\ 0 \notin Devices
  /\ Me \in Devices
  /\ InboundSize \in Nat /\ InboundSize > 0 /\ RosterSize \in Nat /\ RosterSize > 0
  /\ MaxFiled \in Nat /\ MaxOwed \in Nat

Broadcast == 0
Nobody == 0
Keys == Devices \cup {Broadcast}
ConnStates == {"disconnected", "online"}
Messages == [from : Devices, to : Devices \cup {Broadcast}]

VARIABLES
  identity,     \* Client.ConnectedAs, Nobody until the first HelloAck
  machine,      \* Machine.State
  hub,          \* conversations of the hub's log
  roster,       \* devices of the presence view
  connFeed,     \* connection changes not handled yet
  rosterFeed,   \* roster changes not handled yet
  inbound,      \* filed messages not handled yet
  filed,        \* messages filed so far
  unseen,       \* unseen[k]: messages of others filed in k since k was last on screen
  list,         \* Model.conversations
  current,      \* the key at Model.current
  unread,       \* Model.unread
  connectedAs,  \* Model.connectedAs
  connState,    \* Model.connState
  help,         \* Model.helpOpen
  text          \* TRUE when the input line is not empty

feeds == <<identity, machine, hub, roster, connFeed, rosterFeed, inbound, filed>>
screen == <<list, current, unread, connectedAs, connState, help, text>>
vars == <<feeds, unseen, screen>>

ConversationKeyFor(local, m) ==
  IF m.to = Broadcast THEN Broadcast ELSE IF m.from = local THEN m.to ELSE m.from

-----------------------------------------------------------------------------
(* The feeds *)

\* The handshake publishes the identity before the machine goes online.
LearnIdentity ==
  /\ identity = Nobody
  /\ identity' = Me
  /\ UNCHANGED <<machine, hub, roster, connFeed, rosterFeed, inbound, filed, unseen, screen>>

Change(s) ==
  /\ machine # s
  /\ s = "online" => identity = Me
  /\ Len(connFeed) < MaxOwed
  /\ machine' = s
  /\ connFeed' = Append(connFeed, s)
  /\ UNCHANGED <<identity, hub, roster, rosterFeed, inbound, filed, unseen, screen>>

\* The view learns of d, from the roster that precedes the HelloAck or later,
\* and tells its subscribers unless they are behind.
RosterArrives(d) ==
  /\ d \notin roster
  /\ roster' = roster \cup {d}
  /\ rosterFeed' = IF rosterFeed < RosterSize THEN rosterFeed + 1 ELSE rosterFeed
  /\ UNCHANGED <<identity, machine, hub, connFeed, inbound, filed, unseen, screen>>

\* A message is filed in the hub, and app.notify announces it or drops that.
Deliver(m) ==
  /\ identity = Me
  /\ Me \in {m.from, m.to} \/ m.to = Broadcast
  /\ m.from # m.to
  /\ filed < MaxFiled
  /\ filed' = filed + 1
  /\ LET k == ConversationKeyFor(Me, m)
     IN /\ hub' = hub \cup {k}
        /\ unseen' = [unseen EXCEPT ![k] = IF k = current \/ m.from = Me THEN @ ELSE @ + 1]
  /\ inbound' = IF Len(inbound) < InboundSize THEN Append(inbound, m) ELSE inbound
  /\ UNCHANGED <<identity, machine, roster, connFeed, rosterFeed, screen>>

-----------------------------------------------------------------------------
(* Update: one event at a time *)

\* The command that waits on a feed hands Update its oldest event, and Update
\* starts it again; a feed without events keeps it waiting.
HasEvent(waiting) == waiting > 0

\* refreshConversations that forgets the selection.
RefreshToFirst(local, extra) ==
  /\ list' = {Broadcast} \cup hub \cup (roster \ {local})
  /\ current' = Broadcast
  /\ unseen' = [unseen EXCEPT ![current'] = 0]

\* refreshConversations that trusts the carried message to be the whole story.
RefreshFromEvent(local, extra) ==
  /\ list' = list \cup extra \cup (roster \ {local})
  /\ current' = IF current \in list' THEN current ELSE Broadcast
  /\ unseen' = [unseen EXCEPT ![current'] = 0]

\* refreshConversations: hub and roster, without this device once it is known;
\* the selection stays where it was, or falls back to the broadcast.  What the
\* event carried (extra) is not used.
Refresh(local, extra) ==
  /\ list' = {Broadcast} \cup hub \cup (roster \ {local})
  /\ current' = IF current \in list' THEN current ELSE Broadcast
  /\ unseen' = [unseen EXCEPT ![current'] = 0]

\* UpdateConn that believes the machine's word of the moment, as of a poll.
UpdateConnSkips ==
  /\ HasEvent(Len(connFeed))
  /\ connFeed' = Tail(connFeed)
  /\ connState' = IF Head(connFeed) = "online" THEN "online" ELSE connState
  /\ connectedAs' = IF Head(connFeed) = "online" THEN identity ELSE connectedAs
  /\ UNCHANGED <<identity, machine, hub, roster, rosterFeed, inbound, filed, unseen,
                 list, current, unread, help, text>>

UpdateConn ==
  /\ HasEvent(Len(connFeed))
  /\ connFeed' = Tail(connFeed)
  /\ connState' = Head(connFeed)
  /\ connectedAs' = IF Head(connFeed) = "online" THEN identity ELSE connectedAs
  /\ UNCHANGED <<identity, machine, hub, roster, rosterFeed, inbound, filed, unseen,
                 list, current, unread, help, text>>

UpdateRoster ==
  /\ HasEvent(rosterFeed)
  /\ rosterFeed' = rosterFeed - 1
  /\ connectedAs' = identity
  /\ Refresh(identity, {})
  /\ UNCHANGED <<identity, machine, hub, roster, connFeed, inbound, filed,
                 unread, connState, help, text>>

\* The list is rebuilt with the identity the model had; the message counts as
\* unread unless its conversation is selected.
UpdateInbound ==
  /\ HasEvent(Len(inbound))
  /\ inbound' = Tail(inbound)
  /\ LET k == ConversationKeyFor(connectedAs, Head(inbound))
     IN /\ Refresh(connectedAs, {k})
        /\ unread' = [unread EXCEPT ![k] = IF k = current' THEN @ ELSE @ + 1]
  /\ UNCHANGED <<identity, machine, hub, roster, connFeed, rosterFeed, filed,
                 connectedAs, connState, help, text>>

-----------------------------------------------------------------------------
(* handleKey *)

\* The keymap's rows, by what they do; a digit and "?" are text as well.
Actions == {"send", "nextConv", "prevConv", "jumpConv", "help", "closeHelp", "quit"}
NeedsFree == {"jumpConv", "help"}

\* The overlay is only drawn over the model.
ActsBehindHelp(a) == a \in Actions /\ (a \in NeedsFree => ~text)

\* A key that is text as well acts on an empty line only, and the overlay makes
\* the model behind it inert.
Acts(a) ==
  /\ a \in Actions
  /\ a \in NeedsFree => ~text
  /\ help => a \in {"help", "closeHelp", "quit"}

\* selectConversation: the marker of the selected conversation is cleared.
Select(k) ==
  /\ current' = k
  /\ unread' = [unread EXCEPT ![k] = 0]
  /\ unseen' = [unseen EXCEPT ![k] = 0]

\* The place of k in the sorted list, counted from 1.
Place(k) == Cardinality({j \in list : j <= k})

Switch(a, k) ==
  /\ Acts(a)
  /\ Select(k)
  /\ UNCHANGED <<feeds, list, connectedAs, connState, help, text>>

NextConv ==
  \E k \in list :
    /\ Place(k) = (Place(current) % Cardinality(list)) + 1
    /\ Switch("nextConv", k)

PrevConv ==
  \E k \in list :
    /\ Place(k) = ((Place(current) + Cardinality(list) - 2) % Cardinality(list)) + 1
    /\ Switch("prevConv", k)

\* A digit names no conversation past the end.
JumpConv(n) ==
  \E k \in list : Place(k) = n /\ Switch("jumpConv", k)

\* A key without a binding goes to the input line, unless the overlay is open.
Type ==
  /\ ~help /\ ~text
  /\ text' = TRUE
  /\ UNCHANGED <<feeds, unseen, list, current, unread, connectedAs, connState, help>>

\* Enter: the line goes to the selected conversation, whose filing is Deliver.
SendLine ==
  /\ Acts("send") /\ text
  /\ text' = FALSE
  /\ UNCHANGED <<feeds, unseen, list, current, unread, connectedAs, connState, help>>

ToggleHelp ==
  /\ Acts("help")
  /\ help' = ~help
  /\ UNCHANGED <<feeds, unseen, list, current, unread, connectedAs, connState, text>>

CloseHelp ==
  /\ Acts("closeHelp") /\ help
  /\ help' = FALSE
  /\ UNCHANGED <<feeds, unseen, list, current, unread, connectedAs, connState, text>>

-----------------------------------------------------------------------------
Init ==
  /\ identity = Nobody /\ machine = "disconnected"
  /\ hub = {} /\ roster = {}
  /\ connFeed = <<>> /\ rosterFeed = 0 /\ inbound = <<>> /\ filed = 0
  /\ unseen = [k \in Keys |-> 0]
  /\ list = {Broadcast} /\ current = Broadcast
  /\ unread = [k \in Keys |-> 0]
  /\ connectedAs = Nobody /\ connState = "disconnected"
  /\ help = FALSE /\ text = FALSE

Next ==
  \/ LearnIdentity
  \/ \E s \in ConnStates : Change(s)
  \/ \E d \in Devices : RosterArrives(d)
  \/ \E m \in Messages : Deliver(m)
  \/ UpdateConn \/ UpdateRoster \/ UpdateInbound
  \/ NextConv \/ PrevConv \/ \E n \in 1 .. 9 : JumpConv(n)
  \/ Type \/ SendLine \/ ToggleHelp \/ CloseHelp

Spec == Init /\ [][Next]_vars

-----------------------------------------------------------------------------
(* Properties *)

TypeOK ==
  /\ identity \in {Nobody, Me} /\ connectedAs \in {Nobody, Me}
  /\ machine \in ConnStates /\ connState \in ConnStates
  /\ hub \subseteq Keys /\ roster \subseteq Devices
  /\ connFeed \in Seq(ConnStates) /\ inbound \in Seq(Messages)
  /\ rosterFeed \in 0 .. RosterSize /\ filed \in 0 .. MaxFiled
  /\ list \subseteq Keys /\ current \in list
  /\ unread \in [Keys -> Nat] /\ unseen \in [Keys -> Nat]
  /\ help \in BOOLEAN /\ text \in BOOLEAN

\* A dropped notification costs a late repaint and no more: a conversation or a
\* device that is missing from the list has an event on its way that lists it.
LateNeverLost ==
  /\ hub \subseteq list \/ inbound # <<>>
  /\ roster \ {Me} \subseteq list \/ rosterFeed > 0 \/ inbound # <<>>

\* Once every change is handled the status line is the machine's state.
StatusIsTrue == connFeed = <<>> => connState = machine

\* An unread marker goes away only when its conversation comes on screen.
MarkersClearOnSight ==
  [][\A k \in Keys : unread'[k] < unread[k] => current' = k /\ ~help]_vars

EventHandled == rosterFeed' < rosterFeed \/ Len(inbound') < Len(inbound)

\* An event never takes the selection away from a peer or from the broadcast,
\* so that a line typed for one conversation is not sent into another.
PeerSelectionStable ==
  [][EventHandled => current' = current \/ current = Me]_vars

\* The screen is late at worst: it catches up with hub, roster and machine,
\* and neither events nor keys behind the overlay move what the user looks
\* at.
ScreenIsTrue ==
  /\ []TypeOK
  /\ []LateNeverLost
  /\ []StatusIsTrue
  /\ MarkersClearOnSight
  /\ PeerSelectionStable

\* A rebuild keeps "the current selection pointed at the same conversation".
SelectionStable ==
  [][EventHandled => current' = current]_vars

\* Once every message event is handled, a conversation with messages that were
\* never on screen carries a marker.
UnreadIsTrue ==
  inbound = <<>> => \A k \in Keys : unseen[k] > 0 => unread[k] > 0
=============================================================================
