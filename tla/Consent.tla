------------------------------ MODULE Consent -------------------------------
(***************************************************************************)
(* The consent client of src/consent.rs, one ask: connect, one request     *)
(* line, one reply line read from a socket whose timeout is for each read, *)
(* from at most Limit bytes.  The reply line arrives in as many pieces as  *)
(* the app sends it in.  Everything but a literal `hold` is Ok.            *)
(*                                                                         *)
(* Connecting and writing take no time here: the request fits the buffer   *)
(* of a fresh socket; a listener whose backlog is full would block the     *)
(* connect, on which the code sets no bound.                               *)
(***************************************************************************)
EXTENDS Integers

CONSTANTS
  Timeout,    \* consent::TIMEOUT
  Limit,      \* the bytes of a reply that are read at most
  HoldBytes   \* of a hold line

ConsentAssumption ==
  /\ Timeout \in Nat \ {0}
  /\ Limit \in Nat \ {0}
  /\ HoldBytes \in 1..Limit

VARIABLES
  now,      \* seconds since the ask began
  pc,       \* "ask", "read" or "done"
  waiting,  \* when the read under way began
  intent,   \* what the app's line says: "hold" or "other"
  got,      \* bytes of it read
  reply     \* "NoReply" until the ask ends

vars == <<now, pc, waiting, intent, got, reply>>

TypeOK ==
  /\ now \in Nat /\ waiting \in Nat
  /\ pc \in {"ask", "read", "done"}
  /\ intent \in {"hold", "other"}
  /\ got \in 0..Limit
  /\ reply \in {"NoReply", "Ok", "Hold"}

Init ==
  /\ now = 0 /\ waiting = 0 /\ pc = "ask"
  /\ intent \in {"hold", "other"}
  /\ got = 0 /\ reply = "NoReply"

Answer(r) == pc' = "done" /\ reply' = r

(* connect, both timeouts set, the request line written                    *)
Ask ==
  /\ pc = "ask"
  /\ pc' = "read" /\ waiting' = now
  /\ UNCHANGED <<now, intent, got, reply>>

(* No socket, a refused connection, an error, a timeout, a line that is    *)
(* not UTF-8: what was read of the line so far is dropped.                 *)
Fails ==
  /\ pc # "done"
  /\ Answer("Ok")
  /\ UNCHANGED <<now, waiting, intent, got>>

(* A piece of the line, and it does not end here.  Each read starts the    *)
(* timeout over.                                                           *)
ReadPiece ==
  /\ pc = "read"
  /\ got' \in (got + 1)..(Limit - 1)
  /\ intent = "hold" => got' < HoldBytes
  /\ waiting' = now
  /\ UNCHANGED <<now, pc, intent, reply>>

(* The line's end, the stream's, or the limit.                             *)
ReadEnd ==
  /\ pc = "read"
  /\ \E n \in got..Limit :
       /\ got' = n
       /\ Answer(IF intent = "hold" /\ n = HoldBytes THEN "Hold" ELSE "Ok")
  /\ UNCHANGED <<now, waiting, intent>>

(* MUTANT of Waiting: a timeout is tried again.                            *)
WaitingOn == pc = "read" /\ now < (Limit + 2) * Timeout

(* The read under way has not timed out.                                   *)
Waiting == pc = "read" /\ now < waiting + Timeout

Tick ==
  /\ Waiting
  /\ now' = now + 1
  /\ UNCHANGED <<pc, waiting, intent, got, reply>>

Next ==
  \/ Ask
  \/ Fails
  \/ ReadPiece
  \/ ReadEnd
  \/ Tick

Spec == Init /\ [][Next]_vars

(* An ask ends, however slowly the app's bytes come: within one timeout    *)
(* for each byte read (consent.rs 25-36).                                  *)
AskBounded == now <= Limit * Timeout

(* No reply within TIMEOUT is consent (consent.rs:14): only a hold within  *)
(* it postpones.                                                           *)
HoldInTime == reply = "Hold" => now <= Timeout
=============================================================================
