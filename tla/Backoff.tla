------------------------------- MODULE Backoff ------------------------------
(***************************************************************************)
(* internal/control: the delays between connection attempts.               *)
(*                                                                         *)
(* Durations are signed integers of Width bits, 64 in the code, and        *)
(* doubling one may overflow.  The draw is uniform and made in floating    *)
(* point, which may round up to the whole envelope: here it is any value   *)
(* of the closed interval, and the clamp that follows makes it half-open.  *)
(***************************************************************************)
EXTENDS Integers, FiniteSetsExt

CONSTANTS
  Width,      \* bits of a time.Duration
  MaxAttempt  \* bound: failed attempts in a row

\* What the constants have to satisfy; every instance assumes it.
BackoffAssumption ==
  /\ Width \in Nat /\ Width > 1
  /\ MaxAttempt \in Nat

MaxInt == 2 ^ (Width - 1) - 1
MinInt == -(2 ^ (Width - 1))
Durations == MinInt .. MaxInt
NoDelay == MinInt

\* Two's complement.
Wrap(x) == ((x - MinInt) % 2 ^ Width) + MinInt

VARIABLES
  base, cap,  \* the configured intervals
  phase,      \* "new", "refused", "connecting", "waiting", "online"
  attempt,    \* run's attempt
  delay       \* what the supervisor waits for, NoDelay before the first wait

vars == <<base, cap, phase, attempt, delay>>

-----------------------------------------------------------------------------
\* The doubling without a look at the sign.
EnvelopeUnclamped(b, c, n) ==
  LET d[i \in 0 .. n] ==
        IF i = 0 THEN b
        ELSE IF d[i - 1] >= c THEN d[i - 1]
        ELSE Wrap(2 * d[i - 1])
  IN Min({c, d[n]})

\* Delay's loop: stop at the cap, and take the cap when the doubling overflows.
Envelope(b, c, n) ==
  LET d[i \in 0 .. n] ==
        IF i = 0 THEN b
        ELSE IF d[i - 1] >= c THEN d[i - 1]
        ELSE LET twice == Wrap(2 * d[i - 1]) IN IF twice <= 0 THEN c ELSE twice
  IN Min({c, d[n]})

\* The draw as it comes.
ClampedClosed(draw, envelope) == draw

Clamped(draw, envelope) == IF draw >= envelope THEN envelope - 1 ELSE draw

\* NewBackoff refuses intervals that are not positive and a cap below the base.
NewBackoff ==
  /\ phase = "new"
  /\ phase' = IF base <= 0 \/ cap <= 0 \/ cap < base THEN "refused" ELSE "connecting"
  /\ UNCHANGED <<base, cap, attempt, delay>>

\* backoffWait after a failed dial or handshake, and after a session.
Wait(n) ==
  LET envelope == Envelope(base, cap, n)
  IN /\ \E draw \in Min({0, envelope}) .. envelope : delay' = Clamped(draw, envelope)
     /\ phase' = "waiting"
     /\ attempt' = n
     /\ UNCHANGED <<base, cap>>

Fail ==
  /\ phase = "connecting"
  /\ Wait(attempt)

\* The timer fires, and the next attempt counts one more.
Retry ==
  /\ phase = "waiting" /\ attempt < MaxAttempt
  /\ phase' = "connecting"
  /\ attempt' = attempt + 1
  /\ UNCHANGED <<base, cap, delay>>

\* The count goes on through a session.
OnlineCounting ==
  /\ phase = "connecting"
  /\ phase' = "online"
  /\ UNCHANGED <<base, cap, attempt, delay>>

Online ==
  /\ phase = "connecting"
  /\ phase' = "online"
  /\ attempt' = 0
  /\ UNCHANGED <<base, cap, delay>>

Drop ==
  /\ phase = "online"
  /\ Wait(attempt)

Init ==
  /\ base \in Durations /\ cap \in Durations
  /\ phase = "new" /\ attempt = 0 /\ delay = NoDelay

Next == NewBackoff \/ Fail \/ Retry \/ Online \/ Drop

Spec == Init /\ [][Next]_vars

-----------------------------------------------------------------------------
(* Properties *)

TypeOK ==
  /\ base \in Durations /\ cap \in Durations /\ delay \in Durations
  /\ phase \in {"new", "refused", "connecting", "waiting", "online"}
  /\ attempt \in 0 .. MaxAttempt
  /\ phase \in {"waiting", "online"} => 0 < base /\ base <= cap

\* The documented envelope, in integers without a width.
Promised(n) == Min({cap, base * 2 ^ n})

\* The loop computes the promised envelope at every attempt, also where doubling
\* the duration overflows it.
EnvelopeIsPromised ==
  phase \notin {"new", "refused"} => Envelope(base, cap, attempt) = Promised(attempt)

\* Every wait is drawn from the half-open interval of its attempt: never
\* negative, and never the envelope itself.
DelayInRange ==
  phase = "waiting" => 0 <= delay /\ delay < Promised(attempt)

\* The first wait after a session is drawn from the base envelope, however many
\* attempts the session took.
FreshAfterSession ==
  [][phase = "online" /\ phase' = "waiting" => delay' < base]_vars

\* Every delay is drawn from [0, min(cap, base * 2^attempt)), counted from
\* the last session, also where the doubling overflows (Delay).
DelayIsPromised ==
  []TypeOK /\ []EnvelopeIsPromised /\ []DelayInRange /\ FreshAfterSession
=============================================================================
