---------------------------- MODULE InboxPromise ----------------------------
(***************************************************************************)
(* What the coordinator's store-and-forward inbox promises, with nothing   *)
(* of how it keeps the promise: no processes, no timers, no crashes.       *)
(*                                                                         *)
(* Per recipient there is a set of held messages, each under a position    *)
(* that is used once, a next position, and a high-water mark of what the   *)
(* recipient acknowledged.  A message is accepted while the inbox is below *)
(* its cap; it leaves because an acknowledgement covers it or because its  *)
(* time to live has passed, and for no other reason.                       *)
(***************************************************************************)
EXTENDS Naturals, FiniteSets

CONSTANTS
  Recipients,   \* devices that own an inbox
  TTL,          \* retention time
  MaxSize,      \* messages held per recipient at most
  Positions     \* positions an acknowledgement can name

VARIABLES
  inbox,        \* inbox[r]: the messages held for r
  next,         \* next[r]: the position of the next accepted message
  acked,        \* acked[r]: highest acknowledged position
  now           \* the clock

promiseVars == <<inbox, next, acked, now>>

Init ==
  /\ inbox = [r \in Recipients |-> {}]
  /\ next = [r \in Recipients |-> 1]
  /\ acked = [r \in Recipients |-> 0]
  /\ now = 0

\* Accept one message for r: it takes the next position and the present time.
Hold(r) ==
  /\ Cardinality(inbox[r]) < MaxSize
  /\ \E sealed \in BOOLEAN :
       inbox' = [inbox EXCEPT ![r] =
                   @ \cup {[pos |-> next[r], at |-> now, sealed |-> sealed]}]
  /\ next' = [next EXCEPT ![r] = @ + 1]
  /\ UNCHANGED <<acked, now>>

\* r acknowledges everything up to p: the high-water mark never falls, and
\* what p covers leaves in the same step.
Cover(r) ==
  /\ \E p \in Positions :
       /\ acked' = [acked EXCEPT ![r] = IF p > @ THEN p ELSE @]
       /\ inbox' = [inbox EXCEPT ![r] = {row \in @ : row.pos > p}]
  /\ UNCHANGED <<next, now>>

\* One message whose time to live has passed is dropped.
Lapse(r) ==
  /\ \E row \in inbox[r] :
       /\ row.at + TTL <= now
       /\ inbox' = [inbox EXCEPT ![r] = @ \ {row}]
  /\ UNCHANGED <<next, acked, now>>

Tick ==
  /\ now' = now + 1
  /\ UNCHANGED <<inbox, next, acked>>

Next ==
  \/ \E r \in Recipients : Hold(r) \/ Cover(r) \/ Lapse(r)
  \/ Tick

Spec == Init /\ [][Next]_promiseVars
=============================================================================
