------------------------------- MODULE Waker --------------------------------
(***************************************************************************)
(* The loop's wake-up in src/supervisor.rs: a socket pair the signal       *)
(* handlers write a byte to, so a signal ends the loop's wait at once.     *)
(* Two handlers run for a signal, in the order they were registered: the   *)
(* one that sets its flag, then the one that writes.  A full socket drops  *)
(* the byte.  The 250 ms tick is left out: what holds here holds without   *)
(* it.  For SIGCHLD the flag stands for the zombie itself.                 *)
(***************************************************************************)
EXTENDS Integers

CONSTANTS
  Sigs,       \* the signals the waker is registered for
  Capacity,   \* how many bytes the socket holds
  Chunk,      \* how many one read takes
  MaxRaises   \* bound: how many signals are delivered

WakerAssumption ==
  /\ Capacity \in Nat \ {0}
  /\ Chunk \in Nat \ {0}
  /\ MaxRaises \in Nat

VARIABLES
  pc,       \* the loop: checking flags, polling the socket, draining it
  todo,     \* the flags this iteration has still to look at
  flag,     \* the fact a signal stands for, not yet seen by the loop
  handler,  \* of each signal: idle, or between the flag and the byte
  bytes,    \* in the socket
  raised    \* signals delivered so far

vars == <<pc, todo, flag, handler, bytes, raised>>

TypeOK ==
  /\ pc \in {"check", "poll", "drain"}
  /\ todo \subseteq Sigs
  /\ flag \in [Sigs -> BOOLEAN]
  /\ handler \in [Sigs -> {"idle", "flagged"}]
  /\ bytes \in 0..Capacity
  /\ raised \in 0..MaxRaises

Init ==
  /\ pc = "check"
  /\ todo = Sigs
  /\ flag = [s \in Sigs |-> FALSE]
  /\ handler = [s \in Sigs |-> "idle"]
  /\ bytes = 0
  /\ raised = 0

(* The top of an iteration: the flags swapped one by one, the zombies      *)
(* reaped.                                                                 *)
Check(s) ==
  /\ pc = "check"
  /\ s \in todo
  /\ todo' = todo \ {s}
  /\ flag' = [flag EXCEPT ![s] = FALSE]
  /\ UNCHANGED <<pc, handler, bytes, raised>>

Checked ==
  /\ pc = "check" /\ todo = {}
  /\ pc' = "poll"
  /\ UNCHANGED <<todo, flag, handler, bytes, raised>>

(* MUTANT of Wait: discards the bytes it finds before it polls.            *)
WaitDiscards ==
  /\ pc = "poll" /\ bytes > 0
  /\ \/ pc' = "drain" /\ bytes' = bytes
     \/ pc' = "poll" /\ bytes' = 0
  /\ UNCHANGED <<todo, flag, handler, raised>>

(* Waker::wait: poll returns once there is a byte ...                      *)
Wait ==
  /\ pc = "poll" /\ bytes > 0
  /\ pc' = "drain"
  /\ UNCHANGED <<todo, flag, handler, bytes, raised>>

(* ... and reads until the socket is empty.                                *)
Drain ==
  /\ pc = "drain"
  /\ bytes' = IF bytes > Chunk THEN bytes - Chunk ELSE 0
  /\ IF bytes = 0 THEN pc' = "check" /\ todo' = Sigs ELSE UNCHANGED <<pc, todo>>
  /\ UNCHANGED <<flag, handler, raised>>

(* A signal is delivered: signal_hook::flag, then signal_hook::low_level:: *)
(* pipe, on whatever thread it interrupts.                                 *)
Raise(s) ==
  /\ raised < MaxRaises
  /\ handler[s] = "idle"
  /\ raised' = raised + 1
  /\ flag' = [flag EXCEPT ![s] = TRUE]
  /\ handler' = [handler EXCEPT ![s] = "flagged"]
  /\ UNCHANGED <<pc, todo, bytes>>

Write(s) ==
  /\ handler[s] = "flagged"
  /\ handler' = [handler EXCEPT ![s] = "idle"]
  /\ bytes' = IF bytes < Capacity THEN bytes + 1 ELSE bytes
  /\ UNCHANGED <<pc, todo, flag, raised>>

Next ==
  \/ \E s \in Sigs : Check(s)
  \/ Checked
  \/ Wait
  \/ Drain
  \/ \E s \in Sigs : Raise(s)
  \/ \E s \in Sigs : Write(s)

Spec == Init /\ [][Next]_vars

(* No wake-up is lost: the loop never sleeps on an empty socket while a    *)
(* signal whose handlers have run is waiting to be seen (supervisor.rs:    *)
(* 98-139).                                                                *)
NoLostWakeup ==
  \A s \in Sigs :
    pc = "poll" /\ flag[s] /\ handler[s] = "idle" => bytes > 0
=============================================================================
