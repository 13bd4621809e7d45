----------------------------- MODULE PingSender -----------------------------
(***************************************************************************)
(* When the supervisor pings healthchecks.io, and which pings leave:       *)
(* Pinger, `send` (one ping in flight, a second one skipped) and           *)
(* `send_now` (the exit's /fail, behind the one in flight) of              *)
(* src/supervisor.rs.  Whether every heartbeat file is fresh is the        *)
(* environment's choice at each poll; a ping may be lost.                  *)
(*                                                                         *)
(* A poll takes time between setting next_poll and the ping, at most       *)
(* MaxLag.  `attempted` and `received` are history: the latest ping handed *)
(* to a thread, and the latest one the service got.                        *)
(***************************************************************************)
EXTENDS Integers

CONSTANTS
  PollSecs,     \* the poll interval
  PingTimeout,  \* the agent's global timeout
  MaxLag,       \* the longest the loop stays away from what is due
  Horizon       \* bound: the last time the clock shows

ASSUME PingAssumption ==
  /\ PollSecs \in Nat \ {0}
  /\ PingTimeout \in Nat
  /\ MaxLag \in Nat
  /\ Horizon \in Nat

VARIABLES
  now, pc, next_poll,
  started, last_fresh,  \* the Pinger; last_fresh is "None" before a poll
  inflight,             \* the ping on its way and when it left
  code,                 \* the exit code, -1 while the loop runs
  attempted, received

vars == <<now, pc, next_poll, started, last_fresh, inflight, code, attempted,
          received>>

Kind == {"Start", "Plain", "Fail"}
NoPing == [kind |-> "None", left |-> 0]

TypeOK ==
  /\ now \in Nat /\ next_poll \in Nat
  /\ pc \in {"loop", "decide", "joining", "failing", "done"}
  /\ started \in BOOLEAN
  /\ last_fresh \in {"None", "Fresh", "Stale"}
  /\ inflight \in [kind : Kind \cup {"None"}, left : Nat]
  /\ code \in {-1, 0, 1}
  /\ attempted \in Kind \cup {"None"}
  /\ received \in Kind \cup {"None"}

Init ==
  /\ now = 0 /\ pc = "loop" /\ next_poll = 0
  /\ started = FALSE /\ last_fresh = "None"
  /\ inflight = NoPing /\ code = -1
  /\ attempted = "None" /\ received = "None"

-----------------------------------------------------------------------------
PollDue ==
  /\ pc = "loop" /\ now >= next_poll
  /\ next_poll' = now + PollSecs
  /\ pc' = "decide"
  /\ UNCHANGED <<now, started, last_fresh, inflight, code, attempted, received>>

(* MUTANT of Decided: reads last_fresh after setting it.                   *)
DecidedAfterwards(fresh) ==
  CASE fresh = "Fresh" /\ ~started -> "Start"
    [] fresh = "Fresh" /\ started -> "Plain"
    [] OTHER -> "None"

(* Pinger::decide                                                          *)
Decided(fresh) ==
  CASE fresh = "Fresh" /\ ~started -> "Start"
    [] fresh = "Fresh" /\ started -> "Plain"
    [] fresh = "Stale" /\ last_fresh = "Fresh" -> "Fail"
    [] OTHER -> "None"

Leave(kind) == [kind |-> kind, left |-> now]

(* send: skipped while the previous ping is in flight                      *)
Send(kind) ==
  IF kind # "None" /\ inflight = NoPing
  THEN inflight' = Leave(kind) /\ attempted' = kind
  ELSE UNCHANGED <<inflight, attempted>>

Decide ==
  /\ pc = "decide"
  /\ \E fresh \in {"Fresh", "Stale"} :
       /\ last_fresh' = fresh
       /\ started' = (started \/ fresh = "Fresh")
       /\ Send(Decided(fresh))
  /\ pc' = "loop"
  /\ UNCHANGED <<now, next_poll, code, received>>

(* The ping's thread: delivered or lost, within the timeout.               *)
PingEnds ==
  /\ inflight # NoPing
  /\ inflight' = NoPing
  /\ received' \in {received, inflight.kind}
  /\ UNCHANGED <<now, pc, next_poll, started, last_fresh, code, attempted>>

(* The run ends, from the loop or from a poll the tunnel cut short.        *)
Finish ==
  /\ pc \in {"loop", "decide"}
  /\ code' \in {0, 1}
  /\ pc' = "joining"
  /\ UNCHANGED <<now, next_poll, started, last_fresh, inflight, attempted, received>>

(* MUTANT of Join: does not wait for the ping in flight.                   *)
JoinNothing ==
  /\ pc = "joining"
  /\ pc' = IF code = 0 THEN "done" ELSE "failing"
  /\ attempted' = IF code = 0 THEN attempted ELSE "Fail"
  /\ UNCHANGED <<now, next_poll, started, last_fresh, inflight, code, received>>

(* send_now joins the ping in flight; an exit with code 0 only joins it.   *)
Join ==
  /\ pc = "joining" /\ inflight = NoPing
  /\ pc' = IF code = 0 THEN "done" ELSE "failing"
  /\ attempted' = IF code = 0 THEN attempted ELSE "Fail"
  /\ UNCHANGED <<now, next_poll, started, last_fresh, inflight, code, received>>

(* send_now's own ping, on the loop's thread                               *)
FailNow ==
  /\ pc = "failing"
  /\ received' \in {received, "Fail"}
  /\ pc' = "done"
  /\ UNCHANGED <<now, next_poll, started, last_fresh, inflight, code, attempted>>

Tick ==
  /\ now < Horizon /\ pc # "done"
  /\ pc = "loop" => now < next_poll + MaxLag
  /\ pc = "decide" => now < next_poll - PollSecs + MaxLag
  /\ inflight # NoPing => now < inflight.left + PingTimeout
  /\ now' = now + 1
  /\ UNCHANGED <<pc, next_poll, started, last_fresh, inflight, code, attempted,
                 received>>

Next ==
  \/ PollDue
  \/ Decide
  \/ PingEnds
  \/ Finish
  \/ Join
  \/ FailNow
  \/ Tick

Spec == Init /\ [][Next]_vars

-----------------------------------------------------------------------------
(* `/fail` once on the transition to stale (supervisor.rs:12): while the   *)
(* Pinger takes the files for stale after having pinged for them, the last *)
(* ping that left is /fail.                                                *)
FailOnStale ==
  pc # "done" /\ code = -1 /\ started /\ last_fresh = "Stale" => attempted = "Fail"

(* The /start of the first fresh poll is never the one skipped: a service  *)
(* that was pinged at all was sent /start first.                           *)
StartFirst == [][attempted = "None" /\ attempted' # "None" /\ code = -1
                   => attempted' = "Start"]_vars

(* The word the service is left with: nothing overtakes the exit's /fail,  *)
(* and a ping that was in flight does not arrive after it.                 *)
FailIsLast ==
  [][pc = "failing" \/ pc = "done" => received' \in {received, "Fail"}]_vars

(* The pings arrive in an order the service makes sense of: /start first,  *)
(* and the exit's /fail last (supervisor.rs 20-33, 506-531).               *)
PingOrder == StartFirst /\ FailIsLast
=============================================================================
