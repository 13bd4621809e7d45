------------------------------ MODULE Shutdown ------------------------------
(***************************************************************************)
(* What the supervisor promises an app about a shutdown for a lost tunnel: *)
(* the tunnel must have been down for the whole of Limit, the app must     *)
(* have been asked during this outage, and the run ends only on the app's  *)
(* consent to that ask or when the hold limit has run out since the first  *)
(* ask.  An app that answered hold is left alone for Interval.             *)
(***************************************************************************)
EXTENDS Integers

CONSTANTS Limit, HoldLimit, Interval

VARIABLES
  now,         \* the clock
  phase,       \* "up", "down", "asked", "held", "over", or "aborted"
  since,       \* when this outage began
  first_ask,   \* when this outage's first ask was made
  hold_until   \* no ask before this, while held

vars == <<now, phase, since, first_ask, hold_until>>

Never == -1
Alive == {"up", "down", "asked", "held"}

Init ==
  /\ now = 0
  /\ phase = "up"
  /\ since = Never /\ first_ask = Never /\ hold_until = Never

Lose ==
  /\ phase = "up"
  /\ phase' = "down" /\ since' = now
  /\ UNCHANGED <<now, first_ask, hold_until>>

Recover ==
  /\ phase \in Alive
  /\ phase' = "up"
  /\ since' = Never /\ first_ask' = Never /\ hold_until' = Never
  /\ UNCHANGED now

Ask ==
  /\ \/ phase = "down" /\ now - since >= Limit /\ first_ask' = now
     \/ phase = "held" /\ now >= hold_until /\ first_ask' = first_ask
  /\ phase' = "asked" /\ hold_until' = Never
  /\ UNCHANGED <<now, since>>

Hold ==
  /\ phase = "asked"
  /\ phase' = "held" /\ hold_until' = now + Interval
  /\ UNCHANGED <<now, since, first_ask>>

Consent ==
  /\ phase = "asked"
  /\ phase' = "over"
  /\ UNCHANGED <<now, since, first_ask, hold_until>>

HoldLimitOut ==
  /\ phase \in {"asked", "held"}
  /\ HoldLimit > 0 /\ now - first_ask >= HoldLimit
  /\ phase' = "over" /\ hold_until' = Never
  /\ UNCHANGED <<now, since, first_ask>>

(* The run ends for another reason: a broken tunnel, a removed spoke.      *)
Abort ==
  /\ phase \in Alive
  /\ phase' = "aborted"
  /\ since' = Never /\ first_ask' = Never /\ hold_until' = Never
  /\ UNCHANGED now

Tick ==
  /\ phase \in Alive
  /\ now' = now + 1
  /\ UNCHANGED <<phase, since, first_ask, hold_until>>

Next ==
  \/ Lose
  \/ Recover
  \/ Ask
  \/ Hold
  \/ Consent
  \/ HoldLimitOut
  \/ Abort
  \/ Tick

Spec == Init /\ [][Next]_vars
=============================================================================
