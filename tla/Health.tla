------------------------------- MODULE Health -------------------------------
(***************************************************************************)
(* src/health.rs: the health of the tunnel as a state machine with an      *)
(* injected clock.  A poll is given the interface as the supervisor        *)
(* observed it, whether the latest handshake is fresh, and the consent     *)
(* reply that arrived since the previous poll; it updates the machine and  *)
(* leaves its Decision in `d`.  The module has actions and no              *)
(* specification of its own: Tunnel.tla is the only driver it has, as      *)
(* TunnelState is in the source.                                           *)
(*                                                                         *)
(* Time is a natural number; how many seconds a unit stands for is the     *)
(* choice of the instance.  Never is Option::None for a time.              *)
(***************************************************************************)
EXTENDS Integers

CONSTANTS
  Tolerate,          \* WG_TOLERATE_DISCONNECTED=1
  Fetched,           \* fetched mode (WG_HUB_URL is set)
  LimitSecs,         \* WG_DISCONNECTED_LIMIT_SECS
  HoldLimitSecs,     \* WG_HOLD_LIMIT_SECS, 0 for no limit
  AskInterval,       \* ASK_INTERVAL_SECS
  RepairLogInterval  \* REPAIR_LOG_INTERVAL_SECS

ASSUME HealthAssumption ==
  /\ Tolerate \in BOOLEAN
  /\ Fetched \in BOOLEAN
  /\ LimitSecs \in Nat \ {0}
  /\ HoldLimitSecs \in Nat
  /\ AskInterval \in Nat \ {0}
  /\ RepairLogInterval \in Nat \ {0}

VARIABLES
  now,                 \* seconds since the loop started
  disconnected_since,  \* the first poll of the outage, or Never
  next_repair,         \* the alternation
  pending,             \* the pending shutdown
  last_repair_line,    \* when the outage last logged a re-up, or Never
  unlogged_repairs,    \* re-ups since that line
  d                    \* the Decision of the latest poll

healthVars ==
  <<disconnected_since, next_repair, pending, last_repair_line,
    unlogged_repairs, d>>

Never == -1
Time == Nat \cup {Never}

(* Interface::Unconfigured carries its reason; Interface::Configured is    *)
(* one value for each endpoint_ok.                                         *)
Unconfigured == {"ConfigUnavailable", "NotEnrolled"}
Configured == {"EndpointOk", "EndpointFailed"}
Interface == Unconfigured \cup Configured

NoReply == "NoReply"
Reply == {"Ok", "Hold"}

State == {"Connected", "NoHandshake", "EndpointUnresolvable"} \cup Unconfigured
ReUps == {"ResetEndpoint", "DownUp"}
Repair == {"None", "Obtain"} \cup ReUps
GiveUp == {"No", "Consent", "HoldLimit"}

(* Option<Pending>; a first_ask of Never is None.                          *)
Pending == [first_ask : Time, outstanding : BOOLEAN, next_ask : Time]
NotPending == [first_ask |-> Never, outstanding |-> FALSE, next_ask |-> Never]

Decision ==
  [state : State \cup {"Unpolled"}, repair : Repair, check_version : BOOLEAN,
   ask : BOOLEAN, give_up : GiveUp, log_repair : Time]

Quiet(state) ==
  [state |-> state, repair |-> "None", check_version |-> FALSE,
   ask |-> FALSE, give_up |-> "No", log_repair |-> Never]

HealthTypeOK ==
  /\ now \in Nat
  /\ disconnected_since \in Time
  /\ next_repair \in ReUps
  /\ pending \in Pending
  /\ last_repair_line \in Time
  /\ unlogged_repairs \in Nat
  /\ d \in Decision

-----------------------------------------------------------------------------
HealthNew ==
  /\ disconnected_since = Never
  /\ next_repair = "ResetEndpoint"
  /\ pending = NotPending
  /\ last_repair_line = Never
  /\ unlogged_repairs = 0
  /\ d = Quiet("Unpolled")

DisconnectedState(iface) ==
  CASE iface = "EndpointFailed" -> "EndpointUnresolvable"
    [] iface = "EndpointOk"     -> "NoHandshake"
    [] OTHER                    -> iface

(* MUTANT of PollConnected: the pending shutdown outlives the outage.      *)
PollConnectedKeepsPending ==
  /\ disconnected_since' = Never
  /\ next_repair' = "ResetEndpoint"
  /\ last_repair_line' = Never
  /\ unlogged_repairs' = 0
  /\ d' = Quiet("Connected")
  /\ UNCHANGED pending

(* MUTANT of PollConnected: the alternation is not restarted.              *)
PollConnectedKeepsRepair ==
  /\ disconnected_since' = Never
  /\ pending' = NotPending
  /\ last_repair_line' = Never
  /\ unlogged_repairs' = 0
  /\ d' = Quiet("Connected")
  /\ UNCHANGED next_repair

(* Connected resets the clock, cancels a pending shutdown and restarts the *)
(* alternation.                                                            *)
PollConnected ==
  /\ disconnected_since' = Never
  /\ pending' = NotPending
  /\ next_repair' = "ResetEndpoint"
  /\ last_repair_line' = Never
  /\ unlogged_repairs' = 0
  /\ d' = Quiet("Connected")

(* get_or_insert(now)                                                      *)
OutageStart == IF disconnected_since = Never THEN now ELSE disconnected_since

(* The give-up is possible at all: past the early return for the switch    *)
(* and for an outage younger than the limit.                               *)
PastLimit == ~Tolerate /\ now - OutageStart >= LimitSecs

(* MUTANT of Alternate: the second re-up leaves the alternation.           *)
AlternateEnds(repair) ==
  IF repair = "ResetEndpoint" THEN "DownUp" ELSE "None"

Alternate(repair) ==
  IF repair = "ResetEndpoint" THEN "DownUp" ELSE "ResetEndpoint"

RepairLineDue ==
  \/ last_repair_line = Never
  \/ now - last_repair_line >= RepairLogInterval

(* A re-up in turn, its log line at most once an interval; without a       *)
(* configuration the repair is to fetch one and nothing is counted.        *)
RepairStep(iface) ==
  IF iface \in Configured
  THEN /\ next_repair' = Alternate(next_repair)
       /\ last_repair_line' = IF RepairLineDue THEN now ELSE last_repair_line
       /\ unlogged_repairs' = IF RepairLineDue THEN 0 ELSE unlogged_repairs + 1
  ELSE UNCHANGED <<next_repair, last_repair_line, unlogged_repairs>>

(* MUTANT of Heard: the next ask is timed from the last, not the reply.    *)
HeardFromAsk(reply) ==
  [pending EXCEPT !.outstanding = @ /\ reply = NoReply,
                  !.next_ask = IF reply = "Hold" THEN @ + AskInterval ELSE @]

(* The pending shutdown after the reply of this poll.                      *)
Heard(reply) ==
  [pending EXCEPT !.outstanding = @ /\ reply = NoReply,
                  !.next_ask = IF reply = "Hold" THEN now + AskInterval ELSE @]

(* The first poll past the limit only asks, and drops a reply that came    *)
(* with it.                                                                *)
FirstAsk == PastLimit /\ pending = NotPending

(* MUTANT of GiveUpNow: every hold starts the hold limit over.             *)
GiveUpNowRestarts(reply) ==
  IF ~PastLimit \/ pending = NotPending THEN "No"
  ELSE IF reply = "Ok" THEN "Consent"
  ELSE IF HoldLimitSecs > 0 /\ now - Heard(reply).next_ask >= HoldLimitSecs THEN "HoldLimit"
  ELSE "No"

GiveUpNow(reply) ==
  IF ~PastLimit \/ pending = NotPending THEN "No"
  ELSE IF reply = "Ok" THEN "Consent"
  ELSE IF HoldLimitSecs > 0 /\ now - pending.first_ask >= HoldLimitSecs THEN "HoldLimit"
  ELSE "No"

AskAgain(reply) ==
  /\ PastLimit
  /\ pending # NotPending
  /\ GiveUpNow(reply) = "No"
  /\ ~Heard(reply).outstanding
  /\ now >= Heard(reply).next_ask

PendingAfter(reply) ==
  CASE FirstAsk -> [first_ask |-> now, outstanding |-> TRUE, next_ask |-> now]
    [] PastLimit /\ pending # NotPending ->
         [Heard(reply) EXCEPT !.outstanding = @ \/ AskAgain(reply)]
    [] OTHER -> pending

PollDisconnected(iface, reply) ==
  /\ disconnected_since' = OutageStart
  /\ RepairStep(iface)
  /\ pending' = PendingAfter(reply)
  /\ d' = [state |-> DisconnectedState(iface),
           repair |-> IF iface \in Configured THEN next_repair ELSE "Obtain",
           check_version |-> Fetched /\ iface \in Configured,
           ask |-> FirstAsk \/ AskAgain(reply),
           give_up |-> GiveUpNow(reply),
           log_repair |-> IF iface \in Configured /\ RepairLineDue
                          THEN unlogged_repairs ELSE Never]

(* Health::poll                                                            *)
HealthPoll(iface, fresh, reply) ==
  \/ fresh /\ PollConnected
  \/ ~fresh /\ PollDisconnected(iface, reply)

(* Health::config_applied, of a step that is not a poll                    *)
ConfigApplied ==
  /\ next_repair' = "ResetEndpoint"
  /\ UNCHANGED <<disconnected_since, pending, last_repair_line,
                 unlogged_repairs, d>>
=============================================================================
