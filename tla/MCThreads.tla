----------------------------- MODULE MCThreads ------------------------------
(***************************************************************************)
(* What runs beside the supervisor's loop: the ping's thread, the ask's,   *)
(* the fetch's, and the signal handlers that wake the loop.  They have no  *)
(* variable in common and meet in the loop only, where Tunnel.tla and      *)
(* Supervisor.tla have them, so a behaviour is one of one of the four.     *)
(***************************************************************************)
EXTENDS PingSender

CONSTANTS
  Sigs, Capacity, Chunk, MaxRaises,  \* Waker.tla's
  Timeout, Limit, HoldBytes,         \* Consent.tla's
  Tags, RequestTimeout               \* Obtain.tla's

VARIABLES
  part,                                                       \* which of the four
  w_pc, todo, flag, handler, bytes, raised,                   \* Waker.tla's
  c_now, c_pc, waiting, intent, got, reply,                   \* Consent.tla's
  token, version, release, applied, request, have, tag, outcome, reported, spent

wakeVars == <<w_pc, todo, flag, handler, bytes, raised>>
askVars == <<c_now, c_pc, waiting, intent, got, reply>>
fetchVars == <<token, version, release, applied, request, have, tag, outcome, reported, spent>>

Wake == INSTANCE Waker WITH pc <- w_pc
Ask == INSTANCE Consent WITH now <- c_now, pc <- c_pc
Fetch == INSTANCE Obtain WITH Timeout <- RequestTimeout

ASSUME WakeAssumption == Wake!WakerAssumption
ASSUME AskAssumption == Ask!ConsentAssumption
ASSUME FetchAssumption == Fetch!ObtainAssumption

(* Those that do not run have one initial state.                           *)
MCInit ==
  /\ part \in {"ping", "wake", "ask", "fetch"}
  /\ Init /\ Wake!Init /\ Ask!Init /\ Fetch!Init
  /\ part # "ask" => intent = "hold"
  /\ part # "fetch" => ~token /\ applied = 0 /\ version = CHOOSE t \in Tags : TRUE
  /\ part # "fetch" => release = [t \in Tags |-> Fetch!None]

MCNext ==
  \/ part = "ping" /\ Next /\ UNCHANGED <<part, wakeVars, askVars, fetchVars>>
  \/ part = "wake" /\ Wake!Next /\ UNCHANGED <<part, vars, askVars, fetchVars>>
  \/ part = "ask" /\ Ask!Next /\ UNCHANGED <<part, vars, wakeVars, fetchVars>>
  \/ part = "fetch" /\ Fetch!Next /\ UNCHANGED <<part, vars, wakeVars, askVars>>

MCSpec == MCInit /\ [][MCNext]_<<part, vars, wakeVars, askVars, fetchVars>>

(* No wake-up is lost, with no help from the tick (Waker.tla).             *)
NoLostWakeup == Wake!NoLostWakeup

(* An ask ends within a timeout for each byte it reads (Consent.tla).      *)
AskBounded == Ask!AskBounded

(* The token goes to the API host only (Obtain.tla).                       *)
TokenToApiOnly == Fetch!TypeOK /\ Fetch!TokenToApiOnly

(* A bundle is of the version the hub reported in this call (Obtain.tla).  *)
PinnedToItsTag == Fetch!PinnedToItsTag

(* The requests of a call are one job of FetchJob.tla, over within four    *)
(* timeouts (Obtain.tla).                                                  *)
ObtainIsAJob == Fetch!ObtainIsAJob
=============================================================================
