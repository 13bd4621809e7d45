---------------------------- MODULE TunnelProofs ----------------------------
(***************************************************************************)
(* Proofs about Tunnel.tla, for every value of the constants: its untimed  *)
(* safety properties, the bound the hold limit sets on an outage, what the *)
(* tunnel's heartbeat file says of the latest handshake, and how soon a    *)
(* published release is applied.                                           *)
(*                                                                         *)
(* That the loop keeps the promise of Shutdown.tla, and consents only to   *)
(* the outage it was asked in, takes an ask that ends within the outage    *)
(* it began in (PromptReplies), which the code's defaults give.            *)
(***************************************************************************)
EXTENDS Tunnel, TLAPS

(* Of two releases the second is the later, if the hub only goes forward.  *)
Ordered(r, s) == ~HubMayRollBack => r <= s

(* A pinned fetch, and a finished one that found a change, is ahead of all *)
(* the loop has taken so far.                                              *)
Ahead ==
  /\ fetch_job.tag \in 1..MaxReleases /\ Ordered(fetch_job.tag, newest)
  /\ Ordered(cache, fetch_job.tag)
  /\ Ordered(applied.tag, fetch_job.tag)

(* Releases reach the loop in order: nothing is ahead of the hub, and the  *)
(* one fetch at a time is ahead of the loop.                               *)
FetchOrder ==
  /\ Fetched => newest # 0
  /\ Ordered(cache, newest) /\ Ordered(applied.tag, newest)
  /\ fetch_job.status # Idle => Fetched
  /\ fetch_job.status = "pinned" => Ahead
  /\ fetch_job.status = "finished" /\ fetch_job.outcome \in {"New", "NotEnrolled"}
       => Ahead
  /\ fetch_job.status = "finished" /\ fetch_job.outcome = "New"
       => release[fetch_job.tag] # Absent

(* A pending shutdown belongs to an outage past the limit: a poll that     *)
(* returns early never leaves an ask of the health machine unanswered.     *)
Asking ==
  /\ AskNeverOrphaned
  /\ pending # NotPending =>
       /\ ~Tolerate /\ disconnected_since # Never
       /\ now - disconnected_since >= LimitSecs
       /\ pending.first_ask \in Nat

(* Whose turn it is: the down and up only after an endpoint reset.         *)
RepairTurn ==
  /\ next_repair = "DownUp" => d.repair = "ResetEndpoint"
  /\ applied = NoConfig => next_repair = "ResetEndpoint"

(* What the latest poll left: before the first ask the outage was within   *)
(* the limit at that poll, after it the first ask within the hold limit.   *)
LastPoll == next_poll - PollSecs
WithinLimits ==
  IF pending = NotPending
  THEN LastPoll - disconnected_since < LimitSecs
  ELSE /\ LastPoll - pending.first_ask < HoldLimitSecs
       /\ pending.first_ask - disconnected_since < LimitSecs + PollSecs + MaxLag
PollTiming ==
  exit = None =>
    /\ now <= next_poll + MaxLag
    /\ ~Tolerate /\ HoldLimitSecs > 0 /\ disconnected_since # Never => WithinLimits

(* A heartbeat was written on a handshake no later than the latest of all. *)
BeatOfContact ==
  /\ wg.handshake <= contact /\ contact <= now
  /\ tunnel_beat # Never => contact # Never /\ tunnel_beat - contact < StaleSecs

(* A poll of the health machine keeps the shape of its state.              *)
LEMMA HealthPollTypes ==
  ASSUME HealthTypeOK, NEW iface \in Interface, NEW fresh \in BOOLEAN,
         NEW answer \in Reply \cup {NoReply},
         HealthPoll(iface, fresh, answer), now' = now
  PROVE  HealthTypeOK'
<1> USE HealthAssumption DEF HealthTypeOK, Time, Never
<1>1. CASE PollConnected
  BY <1>1 DEF PollConnected, NotPending, Pending, Quiet, Decision, State, ReUps, Repair, GiveUp
<1>2. CASE PollDisconnected(iface, answer)
  <2>1. OutageStart \in Nat
    BY DEF OutageStart
  <2>2. next_repair' \in ReUps /\ last_repair_line' \in Time /\ unlogged_repairs' \in Nat
    BY <1>2 DEF PollDisconnected, RepairStep, Alternate, ReUps
  <2>3. Heard(answer) \in Pending
    <3>1. (pending.outstanding /\ answer = NoReply) \in BOOLEAN
      OBVIOUS
    <3>2. (IF answer = "Hold" THEN now + AskInterval ELSE pending.next_ask) \in Time
      BY DEF Pending
    <3> DEFINE heard == pending.outstanding /\ answer = NoReply
               due == IF answer = "Hold" THEN now + AskInterval ELSE pending.next_ask
    <3>3. Heard(answer) = [[pending EXCEPT !.outstanding = heard] EXCEPT !.next_ask = due]
      BY DEF Heard, Pending
    <3> HIDE DEF heard, due
    <3>4. pending \in Pending
      OBVIOUS
    <3>5. heard \in BOOLEAN /\ due \in Time
      BY <3>1, <3>2 DEF heard, due
    <3> QED
      BY ONLY <3>3, <3>4, <3>5 DEF Pending
  <2>4. pending' \in Pending
    BY <1>2, <2>3 DEF PollDisconnected, PendingAfter, Pending
  <2>5. DisconnectedState(iface) \in State
    BY DEF DisconnectedState, Interface, Configured, Unconfigured, State
  <2>6. GiveUpNow(answer) \in GiveUp
    BY DEF GiveUpNow, GiveUp
  <2>7. d' \in Decision
    <3>1. (FirstAsk \/ AskAgain(answer)) \in BOOLEAN
      OBVIOUS
    <3>2. (Fetched /\ iface \in Configured) \in BOOLEAN
      OBVIOUS
    <3>3. (IF iface \in Configured THEN next_repair ELSE "Obtain") \in Repair
      BY DEF Repair
    <3>4. (IF iface \in Configured /\ RepairLineDue THEN unlogged_repairs ELSE Never) \in Time
      OBVIOUS
    <3> HIDE DEF HealthTypeOK, Time
    <3> QED
      BY <1>2, <2>5, <2>6, <3>1, <3>2, <3>3, <3>4 DEF PollDisconnected, Decision
  <2> QED
    BY <1>2, <2>1, <2>2, <2>4, <2>7 DEF PollDisconnected
<1> QED
  BY <1>1, <1>2 DEF HealthPoll

-----------------------------------------------------------------------------
(* The tunnel as the boot leaves it has the types, and is not ahead.       *)
LEMMA InitFacts == ASSUME Init PROVE TypeOK /\ FetchOrder
<1> USE TunnelAssumption, HealthAssumption DEF Init, Never, Time
<1>1. HealthTypeOK
  BY DEF HealthNew, HealthTypeOK, NotPending, Pending, Quiet, Decision, State,
         Repair, ReUps, GiveUp
<1>2. newest \in Release /\ (Fetched => newest # 0)
  BY DEF Release
<1>3. /\ release \in [1..MaxReleases -> Entries \cup {Absent}]
      /\ reply \in Reply \cup {NoReply} /\ tunnel_beat \in Nat \cup {-1}
      /\ pc \in {"collect", "poll"} /\ exit \in {None, "Broken", "GiveUp", "Removed"}
      /\ next_poll \in Nat /\ reply_outage \in Nat /\ next_version_check \in Nat
      /\ outage \in Nat /\ published \in Nat
      /\ unconfigured \in Unconfigured
  BY DEF Unconfigured
<1>4. /\ applied \in [tag : Release, entry : Entries] \cup {NoConfig}
      /\ Ordered(applied.tag, newest) /\ Ordered(cache, newest)
      /\ endpoint_ok \in BOOLEAN /\ cache \in Release
  <2>1. CASE BootConfigured /\ Fetched
    <3>1. PICK t \in {r \in Reported : release[r] # Absent} :
             applied = [tag |-> t, entry |-> release[t]]
      BY <2>1 DEF BootConfigured
    <3>2. release[t] \in Entries /\ t \in Release /\ Ordered(t, newest)
      BY <3>1, <1>2, <1>3 DEF Release, Reported, Ordered
    <3> QED
      BY <2>1, <3>1, <3>2, <1>2 DEF BootConfigured, Release, Ordered
  <2>2. CASE BootConfigured /\ ~Fetched
    BY <2>2, <1>2 DEF BootConfigured, Release, Ordered
  <2>3. CASE BootUnconfigured
    BY <2>3, <1>2 DEF BootUnconfigured, NoConfig, Release, Reported, Ordered
  <2> QED
    BY <2>1, <2>2, <2>3
<1>5. wg \in [hub : Hubs \cup {None}, endpoint : Endpoints \cup {None},
             handshake : Time]
  BY <1>4 DEF BootConfigured, BootUnconfigured, NoPeer, Hubs, Endpoints, NoConfig
<1>6. fetch_job \in [status : {Idle, "running", "pinned", "finished"},
                    have : Release, tag : Release, started : Nat,
                    outcome : Outcome \cup {None}]
  BY DEF NoFetch, Release
<1>7. ask_job \in [status : {Idle, "running", "finished"}, asked : Nat,
                  answer : Reply, outage : Nat]
  BY DEF NoAsk, Reply
<1>8. contact \in Time
  BY <1>5
<1>9. FetchOrder
  BY <1>2, <1>4 DEF FetchOrder, NoFetch, Idle
<1> QED
  BY <1>1, <1>2, <1>3, <1>4, <1>5, <1>6, <1>7, <1>8, <1>9 DEF TypeOK

-----------------------------------------------------------------------------
(* Taking the outcome of a fetch, and a reply, keeps types and order.      *)
LEMMA CollectTypes ==
  ASSUME TypeOK, FetchOrder, Collect
  PROVE  TypeOK' /\ FetchOrder'
<1> USE TunnelAssumption DEF Idle
<1>1. /\ ask_job' \in [status : {Idle, "running", "finished"}, asked : Nat,
                       answer : Reply, outage : Nat]
      /\ reply' \in Reply \cup {NoReply} /\ reply_outage' \in Nat
  BY DEF Collect, TakeReply, TypeOK, NoAsk, Reply
<1>2. CASE TakeNothing
  <2>1. HealthTypeOK'
    BY <1>2 DEF TypeOK, HealthTypeOK, Collect, TakeNothing, healthVars
  <2>2. TypeOK'
    BY <1>1, <1>2, <2>1 DEF TypeOK, Collect, TakeNothing, configVars, hubVars
  <2>3. FetchOrder'
    BY <1>2 DEF FetchOrder, Ahead, Collect, TakeNothing, configVars, hubVars
  <2> QED
    BY <2>2, <2>3
<1>3. CASE TakeOutcome
  <2>1. fetch_job' \in [status : {Idle, "running", "pinned", "finished"},
                        have : Release, tag : Release, started : Nat,
                        outcome : Outcome \cup {None}]
    BY <1>3 DEF TakeOutcome, NoFetch, Release
  <2>2. HealthTypeOK'
    BY <1>3 DEF TypeOK, HealthTypeOK, Collect, TakeOutcome, TakeUnchanged,
                TakeUnavailable, TakeSameEntry, TakeNewEntry, TakeNewFails,
                TakeNotEnrolled, ConfigApplied, healthVars, ReUps
  <2>3. fetch_job.status = "finished" /\ fetch_job.outcome = "New"
          => Fetch \in [tag : Release, entry : Entries]
    BY DEF FetchOrder, Ahead, TypeOK, Release, Fetch
  <2>4. /\ applied' \in [tag : Release, entry : Entries] \cup {NoConfig}
        /\ endpoint_ok' \in BOOLEAN /\ unconfigured' \in Unconfigured
        /\ exit' \in {None, "Broken", "GiveUp", "Removed"}
    BY <1>3, <2>3 DEF TypeOK, Collect, TakeOutcome, TakeUnchanged, TakeUnavailable,
                TakeSameEntry, TakeNewEntry, TakeNewFails, TakeNotEnrolled,
                Unconfigured, configVars
  <2>5. /\ cache' \in Release /\ Ordered(cache', newest)
        /\ Ordered(applied'.tag, newest)
    <3>1. /\ cache \in Release /\ newest \in Release
          /\ Ordered(cache, newest) /\ Ordered(applied.tag, newest)
      BY DEF TypeOK, FetchOrder
    <3>2. CASE fetch_job.outcome \in {"New", "NotEnrolled"}
      <4>1. fetch_job.tag \in Release /\ Ordered(fetch_job.tag, newest)
        BY <1>3, <3>1, <3>2 DEF FetchOrder, Ahead, TakeOutcome, Release
      <4>2. cache' \in {cache, fetch_job.tag}
        BY <1>3, <3>2 DEF TakeOutcome, TakeUnchanged, TakeUnavailable,
                TakeSameEntry, TakeNewEntry, TakeNewFails, TakeNotEnrolled, CacheWrite
      <4>3. applied' \in {applied, Fetch}
        BY <1>3, <3>2 DEF TakeOutcome, TakeUnchanged, TakeUnavailable,
                TakeSameEntry, TakeNewEntry, TakeNewFails, TakeNotEnrolled
      <4>4. Fetch.tag = fetch_job.tag
        BY DEF Fetch
      <4> QED
        BY <3>1, <4>1, <4>2, <4>3, <4>4
    <3>3. CASE fetch_job.outcome \notin {"New", "NotEnrolled"}
      BY <1>3, <3>1, <3>3 DEF TakeOutcome, TakeUnchanged, TakeUnavailable,
                TakeSameEntry, TakeNewEntry, TakeNewFails, TakeNotEnrolled, configVars
    <3> QED
      BY <3>2, <3>3
  <2>6. wg' \in [hub : Hubs \cup {None}, endpoint : Endpoints \cup {None},
                handshake : Time]
    <3>1. CASE TakeNewEntry
      <4>1. Fetch.entry \in Entries
        BY <1>3, <2>3, <3>1 DEF TakeNewEntry, TakeOutcome
      <4>2. Fetch.entry.hub \in Hubs /\ Fetch.entry.endpoint \in Endpoints
        BY <4>1 DEF Hubs, Endpoints
      <4>3. PICK resolved \in BOOLEAN : wg' = Reconfigured(Fetch.entry, resolved)
        BY <3>1 DEF TakeNewEntry
      <4> QED
        BY <4>2, <4>3 DEF Reconfigured, NoPeer, TypeOK, Time
    <3>2. CASE ~TakeNewEntry
      BY <1>3, <3>2 DEF TypeOK, TakeOutcome, TakeUnchanged, TakeUnavailable,
                        TakeSameEntry, TakeNewFails, TakeNotEnrolled
    <3> QED
      BY <3>1, <3>2
  <2>7. TypeOK'
    BY <1>1, <2>1, <2>2, <2>4, <2>5, <2>6 DEF TypeOK, Collect, hubVars
  <2>8. FetchOrder'
    BY <1>3, <2>5 DEF FetchOrder, TakeOutcome, NoFetch, Collect, hubVars
  <2> QED
    BY <2>7, <2>8
<1> QED
  BY <1>2, <1>3 DEF Collect

(* So does a poll, failed or not,                                          *)
LEMMA PollTypes ==
  ASSUME TypeOK, FetchOrder, Poll
  PROVE  TypeOK' /\ FetchOrder'
<1> USE TunnelAssumption DEF Idle
<1>1. /\ pc' = "collect" /\ next_poll' \in Nat /\ applied' = applied
      /\ unconfigured' = unconfigured /\ cache' = cache /\ reply_outage' = reply_outage
      /\ contact' = contact /\ release' = release /\ newest' = newest
      /\ published' = published /\ now' = now
  BY DEF Poll, TypeOK, HealthTypeOK, hubVars
<1>2. CASE ShowFails
  <2>1. HealthTypeOK'
    BY <1>1, <1>2 DEF TypeOK, HealthTypeOK, ShowFails, healthVars
  <2>2. TypeOK'
    BY <1>1, <1>2, <2>1 DEF TypeOK, ShowFails
  <2>3. FetchOrder'
    BY <1>1, <1>2 DEF FetchOrder, Ahead, ShowFails
  <2> QED
    BY <2>2, <2>3
<1>3. CASE Assess
  <2>1. HealthTypeOK'
    <3>1. Observation \in Interface
      BY DEF Observation, TypeOK, Interface, Configured
    <3>2. Fresh \in BOOLEAN
      BY DEF Fresh
    <3> QED
      BY <1>1, <1>3, <3>1, <3>2, HealthPollTypes DEF Assess, TypeOK
  <2>2. /\ reply' \in Reply \cup {NoReply} /\ outage' \in Nat
        /\ tunnel_beat' \in Time
    BY <1>3 DEF Assess, BeatStep, TypeOK, HealthTypeOK, Time
  <2>3. /\ exit' \in {None, "Broken", "GiveUp", "Removed"}
        /\ next_version_check' \in Nat
    BY <1>3 DEF Assess, ReUpFails, FetchStep, TypeOK, HealthTypeOK
  <2>4. endpoint_ok' \in BOOLEAN
    BY <1>3 DEF Assess, ReUpFails, ReUp, NoReUp, TypeOK
  <2>5. ask_job' \in [status : {Idle, "running", "finished"}, asked : Nat,
                     answer : Reply, outage : Nat]
    BY <1>3, <2>2 DEF Assess, ReUpFails, AskStep, TypeOK, HealthTypeOK, Reply
  <2>6. fetch_job' = fetch_job \/ fetch_job' = StartFetch
    BY <1>3 DEF Assess, ReUpFails, FetchStep
  <2>7. /\ fetch_job' \in [status : {Idle, "running", "pinned", "finished"},
                        have : Release, tag : Release, started : Nat,
                        outcome : Outcome \cup {None}]
        /\ FetchOrder'
    <3>1. applied.tag \in Release
      BY DEF TypeOK, NoConfig, Release
    <3>2. CASE fetch_job' = fetch_job
      BY <1>1, <3>2 DEF TypeOK, FetchOrder, Ahead
    <3>3. CASE fetch_job' # fetch_job
      <4>1. Fetched /\ fetch_job' = [NoFetch EXCEPT !.status = "running",
                                      !.have = applied.tag, !.started = now]
        BY <2>6, <3>3 DEF StartFetch
      <4>2. fetch_job' = [status |-> "running", have |-> applied.tag, tag |-> 0,
                          started |-> now, outcome |-> None]
        BY <4>1 DEF NoFetch
      <4>3. fetch_job' \in [status : {Idle, "running", "pinned", "finished"},
                            have : Release, tag : Release, started : Nat,
                            outcome : Outcome \cup {None}]
        BY <3>1, <4>2 DEF TypeOK, HealthTypeOK, Release
      <4>4. FetchOrder'
        BY <1>1, <4>1, <4>2 DEF FetchOrder
      <4> QED
        BY <4>3, <4>4
    <3> QED
      BY <3>2, <3>3
  <2>8. wg' \in [hub : Hubs \cup {None}, endpoint : Endpoints \cup {None},
                handshake : Time]
    <3>1. CASE ReUp
      <4>1. PICK resolved \in BOOLEAN :
              wg' = LET peer == IF d'.repair = "DownUp"
                                THEN [NoPeer EXCEPT !.hub = applied.entry.hub] ELSE wg
                    IN  IF resolved
                        THEN [peer EXCEPT !.endpoint = applied.entry.endpoint] ELSE peer
        BY <3>1 DEF ReUp
      <4>2. /\ applied.entry.hub \in Hubs \cup {None}
            /\ applied.entry.endpoint \in Endpoints \cup {None}
        BY DEF TypeOK, NoConfig, Absent, Hubs, Endpoints
      <4> QED
        BY <4>1, <4>2 DEF TypeOK, NoPeer, Time
    <3>2. CASE ~ReUp
      BY <1>3, <3>2 DEF Assess, ReUpFails, NoReUp, TypeOK
    <3> QED
      BY <3>1, <3>2
  <2>9. TypeOK'
    BY <1>1, <2>1, <2>2, <2>3, <2>4, <2>5, <2>7, <2>8 DEF TypeOK
  <2> QED
    BY <2>7, <2>9
<1> QED
  BY <1>2, <1>3 DEF Poll

(* and so do the threads, the kernel, the hub and the clock.               *)
LEMMA OtherTypes ==
  ASSUME TypeOK, FetchOrder,
         NotDue \/ FetchVersion \/ FetchEnd \/ AskEnd \/ Handshake \/ Publish \/ Tick
           \/ UNCHANGED vars
  PROVE  TypeOK' /\ FetchOrder'
<1> USE TunnelAssumption DEF Idle
<1>1. CASE NotDue \/ UNCHANGED vars
  <2>1. HealthTypeOK'
    BY <1>1 DEF TypeOK, HealthTypeOK, NotDue, vars, loopVars, healthVars
  <2> QED
    BY <1>1, <2>1 DEF TypeOK, FetchOrder, Ahead, NotDue, vars, loopVars, configVars,
                      kernelVars, hubVars
<1>2. CASE FetchVersion \/ FetchEnd \/ AskEnd \/ Handshake \/ Publish \/ Tick
  <2>1. UNCHANGED loopVars /\ (now' = now \/ now' = now + 1)
    BY <1>2 DEF FetchVersion, FetchEnd, AskEnd, Handshake, Publish, Tick
  <2>2. HealthTypeOK'
    <3>1. UNCHANGED healthVars
      BY <2>1 DEF loopVars
    <3>2. now' \in Nat
      BY <2>1 DEF TypeOK, HealthTypeOK
    <3> QED
      BY <3>1, <3>2 DEF TypeOK, HealthTypeOK, healthVars
  <2>3. /\ release' = release /\ newest' \in Release /\ Ordered(newest, newest')
        /\ (newest # 0 => newest' # 0)
    <3>1. newest \in Release
      BY DEF TypeOK
    <3>2. CASE Publish
      BY <3>1, <3>2 DEF Publish, Release, Ordered
    <3>3. CASE ~Publish
      <4>1. UNCHANGED hubVars
        BY <1>2, <3>3 DEF FetchVersion, FetchEnd, AskEnd, Handshake, Tick
      <4> QED
        BY <3>1, <4>1 DEF hubVars, Release, Ordered
    <3> QED
      BY <3>2, <3>3
  <2>4. /\ applied' = applied /\ cache' = cache /\ release' = release
        /\ newest' \in Release /\ Ordered(newest, newest')
        /\ (newest # 0 => newest' # 0)
        /\ pc' = pc /\ exit' = exit /\ next_poll' = next_poll
        /\ endpoint_ok' = endpoint_ok /\ unconfigured' = unconfigured
        /\ reply' = reply /\ reply_outage' = reply_outage
        /\ next_version_check' = next_version_check /\ tunnel_beat' = tunnel_beat
        /\ outage' = outage
    BY <2>1, <2>3 DEF loopVars, configVars
  <2>5. published' \in Nat /\ contact' \in Time
    BY <1>2 DEF TypeOK, HealthTypeOK, FetchVersion, FetchEnd, AskEnd, Handshake, Publish,
                Tick, hubVars, kernelVars, Time
  <2>6. wg' \in [hub : Hubs \cup {None}, endpoint : Endpoints \cup {None},
                handshake : Time]
    BY <1>2 DEF TypeOK, HealthTypeOK, FetchVersion, FetchEnd, AskEnd, Handshake, Publish,
                Tick, kernelVars, Time
  <2>7. ask_job' \in [status : {Idle, "running", "finished"}, asked : Nat,
                     answer : Reply, outage : Nat]
    BY <1>2 DEF TypeOK, FetchVersion, FetchEnd, AskEnd, Handshake, Publish, Tick, Reply
  <2>8. fetch_job' \in [status : {Idle, "running", "pinned", "finished"},
                       have : Release, tag : Release, started : Nat,
                       outcome : Outcome \cup {None}]
    <3>1. ObtainOutcome \in Outcome
      BY DEF ObtainOutcome, Outcome
    <3> QED
      BY <1>2, <3>1 DEF TypeOK, FetchVersion, FetchEnd, AskEnd, Handshake, Publish, Tick,
                        Outcome
  <2>9. TypeOK'
    BY <2>2, <2>4, <2>5, <2>6, <2>7, <2>8 DEF TypeOK
  <2>10. FetchOrder'
    <3>1. newest \in Nat /\ newest' \in Nat /\ cache \in Nat /\ applied.tag \in Nat
      BY <2>4 DEF TypeOK, NoConfig, Release
    <3>0. newest <= MaxReleases
      BY DEF TypeOK, Release
    <3>2. CASE fetch_job' = fetch_job
      BY <2>4, <3>1, <3>2 DEF Ordered, FetchOrder, Ahead
    <3>3. CASE FetchVersion
      <4>1. /\ newest' = newest /\ fetch_job.status = "running"
            /\ fetch_job'.status = "pinned" /\ fetch_job'.tag = newest
        BY <3>3 DEF FetchVersion, TypeOK, hubVars
      <4> QED
        BY <2>4, <3>0, <3>1, <4>1 DEF Ordered, FetchOrder, Ahead
    <3>4. CASE FetchEnd
      <4>1. /\ newest' = newest /\ fetch_job'.status = "finished"
            /\ fetch_job'.tag = fetch_job.tag
            /\ fetch_job.status \in {"running", "pinned"}
            /\ \/ fetch_job.status = "pinned" /\ fetch_job'.outcome = ObtainOutcome
               \/ fetch_job'.outcome \in {"Unavailable", "Panicked"}
        BY <3>4 DEF FetchEnd, TypeOK, hubVars
      <4>2. CASE fetch_job'.outcome \in {"Unavailable", "Panicked"}
        BY <2>4, <3>1, <4>1, <4>2 DEF Ordered, FetchOrder
      <4>3. CASE fetch_job.status = "pinned" /\ fetch_job'.outcome = ObtainOutcome
        BY <2>4, <3>1, <4>1, <4>3 DEF Ordered, FetchOrder, Ahead, ObtainOutcome
      <4> QED
        BY <4>1, <4>2, <4>3
    <3> QED
      BY <1>2, <3>2, <3>3, <3>4 DEF AskEnd, Handshake, Publish, Tick
  <2> QED
    BY <2>9, <2>10
<1> QED
  BY <1>1, <1>2

(* Together: every step keeps the types and the order of releases.         *)
LEMMA TypeStep ==
  ASSUME TypeOK, FetchOrder, [Next]_vars
  PROVE  TypeOK' /\ FetchOrder'
BY CollectTypes, PollTypes, OtherTypes DEF Next

(* The inductive invariant the other proofs start from.                    *)
LEMMA TypesKept == Spec => [](TypeOK /\ FetchOrder)
<1>1. TypeOK /\ FetchOrder /\ [Next]_vars => TypeOK' /\ FetchOrder'
  BY TypeStep
<1> QED
  BY InitFacts, <1>1, PTL DEF Spec

(* Every variable keeps its type, and every record its fields.             *)
THEOREM TypeCorrect == Spec => []TypeOK
BY TypesKept, PTL

-----------------------------------------------------------------------------
(* A fetch compares the version with the tag that is applied when its      *)
(* outcome is taken: the loop changes it at that moment only.              *)
THEOREM FetchComparesApplied == Spec => []FetchKnowsApplied
<1> USE DEF FetchKnowsApplied, Idle
<1>1. Init => FetchKnowsApplied
  BY DEF Init, NoFetch
<1>2. TypeOK /\ FetchKnowsApplied /\ [Next]_vars => FetchKnowsApplied'
  <2> SUFFICES ASSUME TypeOK, FetchKnowsApplied, [Next]_vars PROVE FetchKnowsApplied'
    OBVIOUS
  <2>1. CASE Collect
    BY <2>1 DEF Collect, TakeNothing, TakeOutcome, NoFetch, configVars
  <2>2. CASE Poll
    <3>1. CASE ShowFails
      BY <3>1 DEF ShowFails, None
    <3>2. CASE Assess
      <4>1. applied' = applied /\ exit = None
        BY <2>2 DEF Poll
      <4>2. \/ exit' # None
            \/ fetch_job' = fetch_job
            \/ fetch_job' = [NoFetch EXCEPT !.status = "running",
                                            !.have = applied.tag, !.started = now]
        BY <3>2 DEF Assess, ReUpFails, FetchStep, StartFetch, None
      <4> QED
        BY <4>1, <4>2 DEF NoFetch
    <3> QED
      BY <2>2, <3>1, <3>2 DEF Poll
  <2>3. CASE FetchVersion \/ FetchEnd
    <3>1. applied' = applied /\ exit' = exit
      BY <2>3 DEF FetchVersion, FetchEnd, loopVars, configVars
    <3>2. fetch_job.status # Idle /\ fetch_job'.have = fetch_job.have
      BY <2>3 DEF FetchVersion, FetchEnd, TypeOK
    <3> QED
      BY <3>1, <3>2
  <2>4. CASE NotDue \/ AskEnd \/ Handshake \/ Publish \/ Tick \/ UNCHANGED vars
    BY <2>4 DEF NotDue, AskEnd, Handshake, Publish, Tick, vars, loopVars, configVars
  <2> QED
    BY <2>1, <2>2, <2>3, <2>4 DEF Next
<1> QED
  BY TypesKept, <1>1, <1>2, PTL DEF Spec

(* The pending shutdown is always one of an outage past the limit.         *)
LEMMA AskingKept == Spec => []Asking
<1> USE HealthAssumption DEF Idle, None
<1>1. Init => Asking
  BY DEF Init, HealthNew, Asking, AskNeverOrphaned, NotPending
<1>2. TypeOK /\ Asking /\ [Next]_vars => Asking'
  <2> SUFFICES ASSUME TypeOK, Asking, [Next]_vars PROVE Asking'
    OBVIOUS
  <2>1. CASE Collect
    <3>1. UNCHANGED <<now, pending, disconnected_since>>
      BY <2>1 DEF Collect, TakeNothing, TakeOutcome, TakeUnchanged, TakeUnavailable,
                  TakeSameEntry, TakeNewEntry, TakeNewFails, TakeNotEnrolled,
                  ConfigApplied, healthVars
    <3>2. exit = None /\ TakeReply
      BY <2>1 DEF Collect
    <3>3. \/ exit' # None
          \/ reply' # NoReply
          \/ UNCHANGED <<ask_job, reply>>
      BY <3>2 DEF TakeReply, TypeOK, Reply, NoReply
    <3> QED
      BY <3>1, <3>2, <3>3 DEF Asking, AskNeverOrphaned
  <2>2. CASE Poll /\ ShowFails
    BY <2>2 DEF Poll, ShowFails, Asking, AskNeverOrphaned, healthVars
  <2>3. CASE Poll /\ Assess
    <3>1. now' = now /\ exit = None /\ HealthPoll(Observation, Fresh, reply)
      BY <2>3 DEF Poll, Assess
    <3>2. exit' = None => AskStep
      BY <2>3 DEF Assess, ReUpFails
    <3>3. CASE PollConnected
      BY <3>3 DEF PollConnected, NotPending, Asking, AskNeverOrphaned
    <3>4. CASE PollDisconnected(Observation, reply)
      <4>1. pending' # NotPending =>
              /\ ~Tolerate /\ disconnected_since' # Never
              /\ now' - disconnected_since' >= LimitSecs
        BY <3>1, <3>4 DEF PollDisconnected, PendingAfter, FirstAsk, PastLimit, OutageStart,
                          Asking, TypeOK, HealthTypeOK, Never
      <4>2. pending' # NotPending => pending'.first_ask \in Nat
        <5>1. CASE FirstAsk
          <6>1. pending' = [first_ask |-> now, outstanding |-> TRUE, next_ask |-> now]
            BY <3>4, <5>1 DEF PollDisconnected, PendingAfter, FirstAsk
          <6>2. now \in Nat
            BY DEF TypeOK, HealthTypeOK
          <6> QED
            BY <6>1, <6>2
        <5>2. CASE ~FirstAsk
          <6>1. pending' = pending
                  \/ pending' = [Heard(reply) EXCEPT !.outstanding = @ \/ AskAgain(reply)]
            BY <3>4, <5>2 DEF PollDisconnected, PendingAfter
          <6>2. pending' = pending \/ (pending # NotPending
                                         /\ pending'.first_ask = pending.first_ask)
            BY <3>4, <5>2, <6>1 DEF PollDisconnected, PendingAfter, Heard, TypeOK,
                                    HealthTypeOK, Pending
          <6> QED
            BY <6>2 DEF Asking
        <5> QED
          BY <5>1, <5>2
      <4>3. pending'.outstanding =>
              d'.ask \/ (pending.outstanding /\ reply = NoReply)
        <5>1. CASE FirstAsk
          BY <3>4, <5>1 DEF PollDisconnected
        <5>2. CASE PastLimit /\ pending # NotPending
          <6>1. Heard(reply).outstanding = (pending.outstanding /\ reply = NoReply)
            BY DEF Heard, TypeOK, HealthTypeOK, Pending
          <6>2. pending' = [Heard(reply) EXCEPT !.outstanding = @ \/ AskAgain(reply)]
            BY <3>4, <5>2 DEF PollDisconnected, PendingAfter, FirstAsk
          <6>3. pending'.outstanding = (Heard(reply).outstanding \/ AskAgain(reply))
            BY <6>2 DEF Heard, TypeOK, HealthTypeOK, Pending
          <6>4. d'.ask = (FirstAsk \/ AskAgain(reply))
            BY <3>4 DEF PollDisconnected
          <6> QED
            BY ONLY <6>1, <6>3, <6>4
        <5>3. CASE ~PastLimit \/ pending = NotPending
          <6>1. pending = NotPending
            BY <5>3 DEF PastLimit, Asking, OutageStart
          <6>2. CASE PastLimit
            BY <5>1, <6>1, <6>2 DEF FirstAsk
          <6>3. CASE ~PastLimit
            BY <3>4, <6>1, <6>3 DEF PollDisconnected, PendingAfter, FirstAsk, NotPending
          <6> QED
            BY <6>2, <6>3
        <5> QED
          BY <5>1, <5>2, <5>3 DEF FirstAsk
      <4>4. d'.ask /\ exit' = None => ask_job'.status # Idle
        BY <3>2 DEF AskStep
      <4>5. exit' = None /\ ask_job.status # Idle => ask_job'.status # Idle
        BY <3>2 DEF AskStep
      <4> QED
        BY <3>1, <4>1, <4>2, <4>3, <4>4, <4>5 DEF Asking, AskNeverOrphaned
    <3> QED
      BY <3>1, <3>3, <3>4 DEF HealthPoll
  <2>4. CASE NotDue \/ UNCHANGED vars
    BY <2>4 DEF NotDue, vars, loopVars, healthVars, Asking, AskNeverOrphaned
  <2>5. CASE FetchVersion \/ FetchEnd \/ AskEnd \/ Handshake \/ Publish \/ Tick
    <3>1. UNCHANGED loopVars /\ (now' = now \/ now' = now + 1)
      BY <2>5 DEF FetchVersion, FetchEnd, AskEnd, Handshake, Publish, Tick
    <3>2. UNCHANGED <<pending, disconnected_since, exit, reply>>
      BY <3>1 DEF loopVars, healthVars
    <3>3. ask_job.status # Idle => ask_job'.status # Idle
      BY <2>5 DEF FetchVersion, FetchEnd, AskEnd, Handshake, Publish, Tick, TypeOK
    <3> QED
      BY <3>1, <3>2, <3>3 DEF Asking, AskNeverOrphaned, TypeOK, HealthTypeOK, Time, Never
  <2> QED
    BY <2>1, <2>2, <2>3, <2>4, <2>5 DEF Next, Poll
<1> QED
  BY TypesKept, <1>1, <1>2, PTL DEF Spec

(* An ask the health machine waits for is under way, or its reply waits    *)
(* for the next poll, whatever the order of polls, replies and outages.    *)
THEOREM AsksAnswered == Spec => []AskNeverOrphaned
<1>1. Asking => AskNeverOrphaned
  BY DEF Asking
<1> QED
  BY AskingKept, <1>1, PTL

-----------------------------------------------------------------------------
(* wg0's peer is the applied one, and endpoint_ok says truly that the      *)
(* applied endpoint is in the kernel, through every apply and re-up.       *)
THEOREM KernelFollows == Spec => []KernelFollowsConfig
<1> USE DEF KernelFollowsConfig, None
<1>1. Init => KernelFollowsConfig
  BY DEF Init, BootConfigured, BootUnconfigured
<1>2. TypeOK /\ FetchOrder /\ KernelFollowsConfig /\ [Next]_vars => KernelFollowsConfig'
  <2> SUFFICES ASSUME TypeOK, FetchOrder, KernelFollowsConfig, [Next]_vars
               PROVE  KernelFollowsConfig'
    OBVIOUS
  <2>1. CASE Collect
    <3>1. exit = None
      BY <2>1 DEF Collect
    <3>2. CASE TakeNothing \/ TakeUnchanged \/ TakeUnavailable \/ TakeNotEnrolled
      BY <3>1, <3>2 DEF TakeNothing, TakeUnchanged, TakeUnavailable, TakeNotEnrolled,
                        configVars
    <3>3. CASE TakeSameEntry
      BY <3>1, <3>3 DEF TakeSameEntry
    <3>4. CASE TakeNewFails
      BY <3>4 DEF TakeNewFails
    <3>5. CASE TakeNewEntry
      <4>1. PICK resolved \in IF EndpointCommand(Fetch.entry) THEN BOOLEAN ELSE {TRUE} :
              wg' = Reconfigured(Fetch.entry, resolved) /\ endpoint_ok' = resolved
        BY <3>5 DEF TakeNewEntry
      <4>2. applied' = Fetch
        BY <3>5 DEF TakeNewEntry
      <4>3. wg'.hub = Fetch.entry.hub
        BY <3>1, <4>1 DEF Reconfigured, KeyChanged, NoPeer, TypeOK
      <4>4. CASE resolved /\ EndpointCommand(Fetch.entry)
        BY <4>1, <4>2, <4>3, <4>4 DEF Reconfigured, NoPeer, TypeOK
      <4>5. CASE ~resolved
        BY <4>1, <4>2, <4>3, <4>5
      <4>6. CASE ~EndpointCommand(Fetch.entry)
        <5>1. wg' = wg
          BY <4>1, <4>6 DEF Reconfigured, EndpointCommand
        <5> QED
          BY <3>1, <4>2, <4>3, <4>6, <5>1 DEF EndpointCommand, KeyChanged
      <4> QED
        BY <4>4, <4>5, <4>6
    <3> QED
      BY <2>1, <3>2, <3>3, <3>4, <3>5 DEF Collect, TakeOutcome
  <2>2. CASE Poll
    <3>1. exit = None /\ applied' = applied
      BY <2>2 DEF Poll
    <3>2. CASE ReUp
      <4>1. PICK resolved \in BOOLEAN :
              /\ endpoint_ok' = resolved
              /\ wg' = LET peer == IF d'.repair = "DownUp"
                                   THEN [NoPeer EXCEPT !.hub = applied.entry.hub] ELSE wg
                       IN  IF resolved
                           THEN [peer EXCEPT !.endpoint = applied.entry.endpoint] ELSE peer
        BY <3>2 DEF ReUp
      <4> QED
        BY <3>1, <4>1 DEF NoPeer, TypeOK
    <3>3. CASE ~ReUp
      BY <2>2, <3>1, <3>3 DEF Poll, Assess, ReUpFails, NoReUp, ShowFails
    <3> QED
      BY <3>2, <3>3
  <2>3. CASE Handshake
    BY <2>3 DEF Handshake, loopVars, configVars, TypeOK
  <2>4. CASE NotDue \/ FetchVersion \/ FetchEnd \/ AskEnd \/ Publish \/ Tick
               \/ UNCHANGED vars
    BY <2>4 DEF NotDue, FetchVersion, FetchEnd, AskEnd, Publish, Tick, vars, loopVars,
                configVars, kernelVars
  <2> QED
    BY <2>1, <2>2, <2>3, <2>4 DEF Next
<1> QED
  BY TypesKept, <1>1, <1>2, PTL DEF Spec

(* Neither the configuration in use nor the cached bundle goes back.       *)
THEOREM ReleasesGoForward == Spec => NeverBackward
<1>1. TypeOK /\ FetchOrder /\ [Next]_vars
        => [~HubMayRollBack =>
              cache' >= cache /\ (applied # NoConfig => applied'.tag >= applied.tag)]_vars
  <2> SUFFICES ASSUME TypeOK, FetchOrder, Next, ~HubMayRollBack
               PROVE  cache' >= cache /\ applied'.tag >= applied.tag
    OBVIOUS
  <2>1. cache \in Nat /\ applied.tag \in Nat
    BY DEF TypeOK, NoConfig, Release
  <2>2. CASE Collect /\ TakeOutcome /\ fetch_job.outcome \in {"New", "NotEnrolled"}
    <3>1. fetch_job.tag \in Nat /\ cache <= fetch_job.tag /\ applied.tag <= fetch_job.tag
      BY <2>2 DEF FetchOrder, Ahead, Ordered, TakeOutcome
    <3>2. cache' \in {cache, fetch_job.tag}
      BY <2>2 DEF TakeOutcome, TakeUnchanged, TakeUnavailable, TakeSameEntry,
                  TakeNewEntry, TakeNewFails, TakeNotEnrolled, CacheWrite
    <3>3. applied' \in {applied, Fetch}
      BY <2>2 DEF TakeOutcome, TakeUnchanged, TakeUnavailable, TakeSameEntry,
                  TakeNewEntry, TakeNewFails, TakeNotEnrolled
    <3>4. Fetch.tag = fetch_job.tag
      BY DEF Fetch
    <3> QED
      BY <2>1, <3>1, <3>2, <3>3, <3>4
  <2>3. CASE Collect /\ (TakeNothing \/ fetch_job.outcome \notin {"New", "NotEnrolled"})
    <3>1. UNCHANGED <<cache, applied>>
      BY <2>3 DEF Collect, TakeNothing, TakeOutcome, TakeUnchanged, TakeUnavailable,
                  TakeSameEntry, TakeNewEntry, TakeNewFails, TakeNotEnrolled, configVars
    <3> QED
      BY <2>1, <3>1
  <2>4. CASE ~Collect
    <3>1. UNCHANGED <<cache, applied>>
      BY <2>4 DEF Next, Poll, NotDue, FetchVersion, FetchEnd, AskEnd, Handshake, Publish,
                  Tick, loopVars, configVars
    <3> QED
      BY <2>1, <3>1
  <2> QED
    BY <2>2, <2>3, <2>4 DEF Collect
<1> QED
  BY TypesKept, <1>1, PTL DEF Spec, NeverBackward

(* wg0 goes down only in the poll right after an endpoint reset.           *)
THEOREM ResetFirst == Spec => DownUpOnlyAfterReset
<1> USE DEF RepairTurn
<1>1. Init => RepairTurn
  BY DEF Init, HealthNew
<1>2. TypeOK /\ FetchOrder /\ RepairTurn /\ [Next]_vars => RepairTurn'
  <2> SUFFICES ASSUME TypeOK, FetchOrder, RepairTurn, [Next]_vars PROVE RepairTurn'
    OBVIOUS
  <2>1. CASE Collect /\ TakeNewEntry
    BY <2>1 DEF TakeNewEntry, ConfigApplied
  <2>2. CASE Collect /\ ~TakeNewEntry
    <3>1. UNCHANGED healthVars
      BY <2>2 DEF Collect, TakeNothing, TakeOutcome, TakeUnchanged, TakeUnavailable,
                  TakeSameEntry, TakeNewFails, TakeNotEnrolled
    <3>2. applied' = NoConfig => applied = NoConfig
      <4>1. CASE TakeSameEntry
        <5>1. Fetch.entry = applied.entry /\ applied.entry \in Entries
          BY <4>1 DEF TakeSameEntry, TypeOK
        <5>2. Absent \notin Entries
          BY TunnelAssumption DEF Absent, None
        <5> QED
          BY <4>1, <5>1, <5>2 DEF TakeSameEntry, NoConfig
      <4> QED
        BY <2>2, <4>1 DEF Collect, TakeNothing, TakeOutcome, TakeUnchanged,
                  TakeUnavailable, TakeNewFails, TakeNotEnrolled, configVars
    <3> QED
      BY <3>1, <3>2 DEF healthVars
  <2>3. CASE Poll /\ ShowFails
    BY <2>3 DEF Poll, ShowFails, healthVars
  <2>4. CASE Poll /\ Assess
    <3>1. applied' = applied /\ HealthPoll(Observation, Fresh, reply)
      BY <2>4 DEF Poll, Assess
    <3>2. CASE PollConnected
      BY <3>2 DEF PollConnected
    <3>3. CASE PollDisconnected(Observation, reply)
      <4>1. CASE applied = NoConfig
        <5>1. Observation \notin Configured
          BY <4>1 DEF Observation, TypeOK, Unconfigured, Configured
        <5> QED
          BY <3>1, <3>3, <4>1, <5>1 DEF PollDisconnected, RepairStep
      <4>2. CASE applied # NoConfig
        <5>1. Observation \in Configured
          BY <4>2 DEF Observation, Configured
        <5> QED
          BY <3>1, <3>3, <4>2, <5>1 DEF PollDisconnected, RepairStep, Alternate, TypeOK,
                                        HealthTypeOK, ReUps
      <4> QED
        BY <4>1, <4>2
    <3> QED
      BY <3>1, <3>2, <3>3 DEF HealthPoll
  <2>5. CASE ~Collect /\ ~Poll
    BY <2>5 DEF Next, NotDue, FetchVersion, FetchEnd, AskEnd, Handshake, Publish, Tick,
                vars, loopVars, configVars, healthVars
  <2> QED
    BY <2>1, <2>2, <2>3, <2>4, <2>5 DEF Poll
<1>3. TypeOK /\ RepairTurn /\ [Next]_vars
        => [next_poll' # next_poll /\ exit' # "Broken" /\ d'.repair = "DownUp"
              => d.repair = "ResetEndpoint"]_vars
  <2> SUFFICES ASSUME TypeOK, RepairTurn, Next,
                      next_poll' # next_poll, exit' # "Broken", d'.repair = "DownUp"
               PROVE  d.repair = "ResetEndpoint"
    OBVIOUS
  <2>1. Poll
    BY DEF Next, Collect, NotDue, FetchVersion, FetchEnd, AskEnd, Handshake, Publish,
           Tick, loopVars
  <2>2. HealthPoll(Observation, Fresh, reply)
    BY <2>1 DEF Poll, Assess, ShowFails
  <2>3. PollDisconnected(Observation, reply)
    BY <2>2 DEF HealthPoll, PollConnected, Quiet
  <2> QED
    BY <2>3 DEF PollDisconnected
<1> QED
  BY TypesKept, <1>1, <1>2, <1>3, PTL DEF Spec, DownUpOnlyAfterReset

-----------------------------------------------------------------------------
(* The hold limit bounds every outage: a poll before the first ask was     *)
(* within the limit, a poll after it within the hold limit, and the next   *)
(* poll is never further away than PollSecs and MaxLag.                    *)
THEOREM OutagesBounded == Spec => []OutageBounded
<1> USE TunnelAssumption, HealthAssumption DEF None
<1>1. Init => PollTiming
  BY DEF Init, HealthNew, PollTiming
<1>2. TypeOK /\ Asking /\ PollTiming /\ [Next]_vars => PollTiming'
  <2> SUFFICES ASSUME TypeOK, Asking, PollTiming, [Next]_vars, exit' = None
               PROVE  /\ now' <= next_poll' + MaxLag
                      /\ ~Tolerate /\ HoldLimitSecs > 0 /\ disconnected_since' # Never
                           => WithinLimits'
    BY DEF PollTiming
  <2>1. /\ now \in Nat /\ next_poll \in Nat /\ disconnected_since \in Time
        /\ pending \in Pending
    BY DEF TypeOK, HealthTypeOK
  <2>2. CASE UNCHANGED <<now, next_poll, exit, pending, disconnected_since>>
    BY <2>2 DEF PollTiming, WithinLimits, LastPoll
  <2>3. CASE Collect
    BY <2>2, <2>3 DEF Collect, TakeNothing, TakeOutcome, TakeUnchanged, TakeUnavailable,
                TakeSameEntry, TakeNewEntry, TakeNewFails, TakeNotEnrolled,
                ConfigApplied, healthVars
  <2>4. CASE Tick
    <3>1. /\ UNCHANGED <<next_poll, exit, pending, disconnected_since>>
          /\ now' = now + 1 /\ now < next_poll + MaxLag
      BY <2>4 DEF Tick, loopVars, healthVars
    <3> QED
      BY <2>1, <3>1 DEF PollTiming, WithinLimits, LastPoll
  <2>5. CASE Poll
    <3>1. /\ Assess /\ now' = now /\ next_poll' = now + PollSecs
          /\ exit = None /\ LastPoll' = now
      <4>1. Assess /\ now' = now /\ next_poll' = now + PollSecs /\ exit = None
        BY <2>5 DEF Poll, ShowFails
      <4> QED
        BY <2>1, <4>1 DEF LastPoll
    <3>2. d'.give_up = "No" \/ ReUpFails
      BY <3>1 DEF Assess
    <3>3. d'.give_up = "No"
      BY <3>2 DEF ReUpFails
    <3>4. now <= next_poll + MaxLag
      BY <3>1 DEF PollTiming
    <3>5. CASE PollConnected
      BY <2>1, <3>1, <3>5 DEF PollConnected
    <3>6. CASE PollDisconnected(Observation, reply)
      <4>1. SUFFICES ASSUME ~Tolerate, HoldLimitSecs > 0 PROVE WithinLimits'
        BY <2>1, <3>1
      <4>2. disconnected_since' = OutageStart /\ OutageStart \in Nat
            /\ GiveUpNow(reply) = "No" /\ pending' = PendingAfter(reply)
        BY <2>1, <3>3, <3>6 DEF PollDisconnected, OutageStart, Time, Never
      <4>3. CASE FirstAsk
        <5>1. pending' # NotPending /\ pending'.first_ask = now
          <6>1. pending' = [first_ask |-> now, outstanding |-> TRUE, next_ask |-> now]
            BY <4>2, <4>3 DEF PendingAfter, FirstAsk
          <6>2. pending'.first_ask = now /\ NotPending.first_ask # now
            BY <2>1, <6>1 DEF NotPending, Never
          <6> QED
            BY <6>2
        <5>2. now - OutageStart < LimitSecs + PollSecs + MaxLag
          BY <2>1, <3>1, <3>4, <4>1, <4>3 DEF FirstAsk, OutageStart, PollTiming,
                WithinLimits, LastPoll, Time, Never
        <5> QED
          BY <2>1, <3>1, <4>1, <4>2, <5>1, <5>2 DEF WithinLimits
      <4>4. CASE pending = NotPending /\ ~PastLimit
        <5>1. pending' = NotPending /\ now - OutageStart < LimitSecs
          BY <2>1, <4>1, <4>2, <4>4 DEF PendingAfter, FirstAsk, PastLimit
        <5> QED
          BY <3>1, <4>2, <5>1 DEF WithinLimits
      <4>5. CASE pending # NotPending
        <5>1. PastLimit /\ OutageStart = disconnected_since /\ pending.first_ask \in Nat
          BY <4>5 DEF Asking, PastLimit, OutageStart
        <5>2. pending'.first_ask = pending.first_ask
          BY <2>1, <4>2, <4>5, <5>1 DEF PendingAfter, FirstAsk, Heard, Pending
        <5>3. pending' # NotPending
          BY <5>1, <5>2 DEF NotPending, Never
        <5>4. now - pending.first_ask < HoldLimitSecs
          BY <2>1, <4>1, <4>2, <4>5, <5>1 DEF GiveUpNow
        <5>5. pending.first_ask - disconnected_since < LimitSecs + PollSecs + MaxLag
          BY <3>1, <4>1, <4>5 DEF Asking, PollTiming, WithinLimits
        <5> QED
          BY <3>1, <4>2, <5>1, <5>2, <5>3, <5>4, <5>5 DEF WithinLimits
      <4> QED
        BY <4>3, <4>4, <4>5 DEF FirstAsk
    <3> QED
      BY <3>1, <3>5, <3>6 DEF Assess, HealthPoll
  <2> QED
    BY <2>2, <2>3, <2>4, <2>5 DEF Next, NotDue, FetchVersion, FetchEnd, AskEnd, Handshake,
         Publish, vars, loopVars, healthVars
<1>3. TypeOK /\ Asking /\ PollTiming => OutageBounded
  <2> SUFFICES ASSUME TypeOK, Asking, PollTiming, exit = None, ~Tolerate,
                      HoldLimitSecs > 0, disconnected_since # Never
               PROVE  now - disconnected_since
                        <= LimitSecs + HoldLimitSecs + 2 * (PollSecs + MaxLag)
    BY DEF OutageBounded
  <2>1. /\ now \in Nat /\ next_poll \in Nat /\ disconnected_since \in Nat
        /\ now <= next_poll + MaxLag /\ WithinLimits
    BY DEF TypeOK, HealthTypeOK, PollTiming, Time
  <2>2. CASE pending = NotPending
    BY <2>1, <2>2 DEF WithinLimits, LastPoll
  <2>3. CASE pending # NotPending
    BY <2>1, <2>3 DEF WithinLimits, LastPoll, Asking
  <2> QED
    BY <2>2, <2>3
<1> QED
  BY TypesKept, AskingKept, <1>1, <1>2, <1>3, PTL DEF Spec

-----------------------------------------------------------------------------
(* A fresh heartbeat of the tunnel's means a handshake within twice the    *)
(* staleness bound, though wg0 may have lost its handshake since.          *)
THEOREM BeatsMeanContact == Spec => []BeatMeansContact
<1> USE TunnelAssumption DEF Never, Time
<1>1. Init => BeatOfContact
  BY DEF Init, BootConfigured, BootUnconfigured, BeatOfContact, NoPeer
<1>2. TypeOK /\ BeatOfContact /\ [Next]_vars => BeatOfContact'
  <2> SUFFICES ASSUME TypeOK, BeatOfContact, [Next]_vars PROVE BeatOfContact'
    OBVIOUS
  <2>1. /\ now \in Nat /\ contact \in Time /\ tunnel_beat \in Time
        /\ wg.handshake \in Time
    BY DEF TypeOK, HealthTypeOK
  <2>2. CASE Collect
    <3>1. UNCHANGED <<now, contact, tunnel_beat>>
      BY <2>2 DEF Collect
    <3>2. wg' = wg \/ wg'.handshake = Never \/ wg'.handshake = wg.handshake
      BY <2>2 DEF Collect, TakeNothing, TakeOutcome, TakeUnchanged, TakeUnavailable,
                  TakeSameEntry, TakeNewEntry, TakeNewFails, TakeNotEnrolled,
                  Reconfigured, NoPeer, TypeOK
    <3> QED
      BY <2>1, <3>1, <3>2 DEF BeatOfContact
  <2>3. CASE Poll
    <3>1. UNCHANGED <<now, contact>>
      BY <2>3 DEF Poll
    <3>2. wg' = wg \/ wg'.handshake = Never \/ wg'.handshake = wg.handshake
      BY <2>3 DEF Poll, Assess, ShowFails, ReUp, NoReUp, ReUpFails, NoPeer, TypeOK
    <3>3. tunnel_beat' = tunnel_beat \/ (Fresh /\ tunnel_beat' = now)
      BY <2>3 DEF Poll, Assess, ShowFails, BeatStep
    <3> QED
      BY <2>1, <3>1, <3>2, <3>3 DEF BeatOfContact, Fresh
  <2>4. CASE Handshake
    <3>1. /\ now' = now /\ tunnel_beat' = tunnel_beat /\ contact' = now
          /\ wg'.handshake = now
      BY <2>4 DEF Handshake, loopVars, TypeOK
    <3> QED
      BY <2>1, <3>1 DEF BeatOfContact
  <2>5. CASE NotDue \/ FetchVersion \/ FetchEnd \/ AskEnd \/ Publish \/ Tick
               \/ UNCHANGED vars
    <3>1. UNCHANGED <<contact, tunnel_beat, wg>> /\ (now' = now \/ now' = now + 1)
      BY <2>5 DEF NotDue, FetchVersion, FetchEnd, AskEnd, Publish, Tick, vars, loopVars,
                  kernelVars
    <3> QED
      BY <2>1, <3>1 DEF BeatOfContact
  <2> QED
    BY <2>2, <2>3, <2>4, <2>5 DEF Next
<1>3. TypeOK /\ BeatOfContact => BeatMeansContact
  BY DEF TypeOK, HealthTypeOK, BeatOfContact, BeatMeansContact
<1> QED
  BY TypesKept, <1>1, <1>2, <1>3, PTL DEF Spec

-----------------------------------------------------------------------------
(* A fetch under way has read a tag once it is pinned, found nothing yet,  *)
(* and is within its time.                                                 *)
Fetching ==
  /\ fetch_job.status = Idle => fetch_job = NoFetch
  /\ fetch_job.status = "running" => fetch_job.tag = 0
  /\ fetch_job.status \in {"running", "pinned"} =>
       /\ fetch_job.outcome = None
       /\ fetch_job.started <= now /\ now <= fetch_job.started + FetchTimeout

(* What a step may do to the fetch.                                        *)
FetchStarts ==
  /\ fetch_job.status = Idle /\ now' = now
  /\ fetch_job' = [NoFetch EXCEPT !.status = "running", !.have = applied.tag, !.started = now]

FetchTaken == fetch_job.status = "finished" /\ fetch_job' = NoFetch /\ now' = now

LEMMA FetchSteps ==
  ASSUME [Next]_vars
  PROVE  \/ UNCHANGED <<fetch_job, now>>
         \/ FetchStarts \/ FetchVersion \/ FetchEnd \/ FetchTaken \/ Tick
<1>1. CASE Collect
  BY <1>1 DEF Collect, TakeNothing, TakeOutcome, FetchTaken
<1>2. CASE Poll
  BY <1>2 DEF Poll, ShowFails, Assess, ReUpFails, FetchStep, StartFetch, FetchStarts
<1>3. CASE NotDue \/ AskEnd \/ Handshake \/ Publish
  BY <1>3 DEF NotDue, AskEnd, Handshake, Publish
<1>4. CASE UNCHANGED vars
  BY <1>4 DEF vars
<1> QED
  BY <1>1, <1>2, <1>3, <1>4 DEF Next

LEMMA FetchingKept == Spec => []Fetching
<1> USE TunnelAssumption DEF Idle
<1>1. Init => Fetching
  BY DEF Init, Fetching, NoFetch
<1>2. TypeOK /\ Fetching /\ [Next]_vars => Fetching'
  <2> SUFFICES ASSUME TypeOK, Fetching, [Next]_vars PROVE Fetching'
    OBVIOUS
  <2>0. /\ now \in Nat /\ fetch_job.started \in Nat
        /\ fetch_job \in [status : {Idle, "running", "pinned", "finished"},
                          have : Release, tag : Release, started : Nat,
                          outcome : Outcome \cup {None}]
    BY DEF TypeOK, HealthTypeOK
  <2> USE DEF Fetching
  <2>1. CASE UNCHANGED <<fetch_job, now>>
    BY <2>1
  <2>2. CASE FetchStarts
    BY <2>0, <2>2 DEF FetchStarts, NoFetch
  <2>3. CASE FetchVersion
    BY <2>0, <2>3 DEF FetchVersion
  <2>4. CASE FetchEnd
    <3>1. fetch_job'.status = "finished"
      BY <2>0, <2>4 DEF FetchEnd
    <3> QED
      BY <3>1
  <2>5. CASE FetchTaken
    BY <2>5 DEF FetchTaken, NoFetch
  <2>6. CASE Tick
    BY <2>0, <2>6 DEF Tick
  <2> QED
    BY <2>1, <2>2, <2>3, <2>4, <2>5, <2>6, FetchSteps
<1> QED
  BY <1>1, <1>2, TypesKept, PTL DEF Spec

(* The loop's use of the fetch thread is one job of FetchJob.tla after the *)
(* other: told the tag applied, it reads one tag, ends within its time and *)
(* is taken before there is another (supervisor.rs 207-223, 242-301).      *)
THEOREM FetchImplementsJob == Spec => FetchIsAJob
<1> USE TunnelAssumption DEF Idle, None, Thread!Started
<1>1. Init => Thread!Init
  BY DEF Init, NoFetch, Thread!Init
<1>2. TypeOK /\ FetchOrder /\ Fetching /\ [Next]_vars => [Thread!Next]_Thread!vars
  <2> SUFFICES ASSUME TypeOK, FetchOrder, Fetching, [Next]_vars
               PROVE  [Thread!Next]_Thread!vars
    OBVIOUS
  <2>0. /\ now \in Nat /\ fetch_job.started \in Nat
        /\ fetch_job \in [status : {Idle, "running", "pinned", "finished"},
                          have : Release, tag : Release, started : Nat,
                          outcome : Outcome \cup {None}]
        /\ newest \in Release /\ applied.tag \in Release
    BY DEF TypeOK, HealthTypeOK, NoConfig, Release
  <2>1. CASE UNCHANGED <<fetch_job, now>>
    BY <2>1 DEF Thread!vars
  <2>2. CASE FetchStarts
    <3>1. fetch_job = NoFetch
      BY <2>2 DEF FetchStarts, Fetching
    <3>2. fetch_job' = [status |-> "running", have |-> applied.tag, tag |-> 0,
                        started |-> now, outcome |-> None]
      BY <2>2 DEF FetchStarts, NoFetch
    <3>3. Thread!Start
      BY <2>0, <2>2, <3>1, <3>2 DEF FetchStarts, NoFetch, Thread!Start
    <3> QED
      BY <3>3 DEF Thread!Next
  <2>3. CASE FetchVersion
    <3>1. newest # 0
      BY <2>3 DEF FetchVersion, FetchOrder
    <3>2. /\ fetch_job'.status = "pinned" /\ fetch_job'.tag = newest
          /\ fetch_job'.have = fetch_job.have /\ fetch_job'.outcome = fetch_job.outcome
          /\ fetch_job'.started = fetch_job.started /\ now' = now
      BY <2>0, <2>3 DEF FetchVersion
    <3>3. Thread!Pin
      BY <2>0, <2>3, <3>1, <3>2 DEF FetchVersion, Thread!Pin
    <3> QED
      BY <3>3 DEF Thread!Next
  <2>4. CASE FetchEnd
    <3>1. fetch_job.status \in {"running", "pinned"} /\ fetch_job.outcome = None
      BY <2>4 DEF FetchEnd, Fetching
    <3>2. PICK o \in Outcome :
            /\ fetch_job' = [fetch_job EXCEPT !.status = "finished", !.outcome = o]
            /\ \/ o \in {"Unavailable", "Panicked"}
               \/ fetch_job.status = "pinned" /\ o = ObtainOutcome
      BY <2>4 DEF FetchEnd, ObtainOutcome, Outcome
    <3>3. /\ fetch_job'.status = "finished" /\ fetch_job'.outcome = o
          /\ fetch_job'.have = fetch_job.have /\ fetch_job'.tag = fetch_job.tag
      BY <2>0, <3>2
    <3>4. CASE o \in {"Unavailable", "Panicked"}
      BY <3>1, <3>3, <3>4 DEF Thread!Finish, Thread!Next
    <3>5. CASE fetch_job.status = "pinned" /\ o = ObtainOutcome
      <4>1. fetch_job.tag \in Release \ {0}
        BY <2>0, <3>5 DEF FetchOrder, Ahead
      <4>2. o \in IF fetch_job.tag = fetch_job.have THEN {"Unchanged"} ELSE {"New", "NotEnrolled"}
        BY <3>5 DEF ObtainOutcome
      <4> QED
        BY <3>1, <3>3, <4>1, <4>2 DEF Thread!Finish, Thread!Next
    <3> QED
      BY <3>2, <3>4, <3>5
  <2>5. CASE FetchTaken
    BY <2>5 DEF FetchTaken, NoFetch, Thread!Take, Thread!Next
  <2>6. CASE Tick
    <3>1. fetch_job' = fetch_job /\ now' = now + 1
      BY <2>6 DEF Tick
    <3>2. CASE fetch_job.status \in {"running", "pinned"}
      <4>1. now - fetch_job.started < FetchTimeout
        BY <2>0, <2>6, <3>2 DEF Tick
      <4>2. Thread!Tick
        BY <2>0, <3>1, <3>2, <4>1 DEF Thread!Tick
      <4> QED
        BY <4>2 DEF Thread!Next
    <3>3. CASE fetch_job.status \notin {"running", "pinned"}
      BY <3>1, <3>3 DEF Thread!vars
    <3> QED
      BY <3>2, <3>3
  <2> QED
    BY <2>1, <2>2, <2>3, <2>4, <2>5, <2>6, FetchSteps
<1> QED
  BY <1>1, <1>2, TypesKept, FetchingKept, PTL DEF Spec, FetchIsAJob, Thread!Spec

-----------------------------------------------------------------------------
(* How the loop follows the hub in time.  A fetch is blind if it read its  *)
(* tag before the hub moved on.                                            *)
Blind == fetch_job.status \in {"pinned", "finished"} /\ fetch_job.tag # newest

(* From one poll to the next at most; and by when a finished fetch is      *)
(* taken: before the next poll, or before the one after it.                *)
Round == PollSecs + MaxLag
TakenBy == IF pc = "collect" THEN next_poll + MaxLag ELSE next_poll + MaxLag + Round

(* By when the next version check is due, once no blind fetch puts it off  *)
(* any more, and by when a fetch that sees the newest release starts.      *)
CheckBy == published + VersionPollSecs + FetchTimeout + Round
StartBy == CheckBy + Round - 1

FollowTiming ==
  Fetched /\ ~FetchMayFail /\ exit = None =>
    /\ now <= next_poll + MaxLag /\ next_poll <= now + PollSecs
    /\ published <= now
    /\ next_version_check <= now + VersionPollSecs
    /\ fetch_job.status # Idle => fetch_job.started <= now
    /\ fetch_job.status = "finished" =>
         /\ fetch_job.outcome = ObtainOutcome
         /\ TakenBy <= fetch_job.started + FetchTimeout + 2 * Round
    /\ Blind => fetch_job.started <= published /\ next_version_check <= CheckBy
    /\ Behind /\ fetch_job.status = Idle =>
         next_poll + MaxLag <= StartBy /\ next_version_check <= CheckBy
    /\ Behind /\ fetch_job.status # Idle /\ ~Blind => fetch_job.started <= StartBy

(* The numbers of a state.                                                 *)
LEMMA Numbers ==
  ASSUME TypeOK
  PROVE  /\ now \in Nat /\ next_poll \in Nat /\ next_version_check \in Nat
         /\ published \in Nat /\ fetch_job.started \in Nat
         /\ PollSecs \in Nat \ {0} /\ VersionPollSecs \in Nat \ {0}
         /\ MaxLag \in Nat /\ FetchTimeout \in Nat
BY TunnelAssumption DEF TypeOK, HealthTypeOK

(* Taking a fetch that saw the newest release leaves nothing to catch up   *)
(* with, unless the run ends.                                              *)
LEMMA TakenCatchesUp ==
  ASSUME TypeOK, FetchKnowsApplied, exit = None, TakeOutcome, exit' = None,
         fetch_job.outcome = ObtainOutcome, fetch_job.tag = newest, UNCHANGED hubVars
  PROVE  ~Behind'
<1> USE DEF Behind, hubVars, None
<1>1. fetch_job.status # Idle
  BY DEF TakeOutcome, Idle
<1>2. CASE TakeUnchanged \/ TakeUnavailable
  <2>1. fetch_job.tag = fetch_job.have
    BY <1>2 DEF TakeUnchanged, TakeUnavailable, ObtainOutcome
  <2>2. applied.tag = newest
    BY <1>1, <2>1 DEF FetchKnowsApplied
  <2> QED
    BY <1>2, <2>2 DEF TakeUnchanged, TakeUnavailable, configVars
<1>3. CASE TakeSameEntry \/ TakeNewEntry
  <2>1. applied' = Fetch
    BY <1>3 DEF TakeSameEntry, TakeNewEntry
  <2>2. Fetch.tag = newest
    BY DEF Fetch
  <2> QED
    BY <2>1, <2>2
<1>4. CASE TakeNotEnrolled
  <2>1. release[newest] = Absent /\ applied' = NoConfig
    BY <1>4 DEF TakeNotEnrolled, ObtainOutcome
  <2> QED
    BY <2>1
<1> QED
  BY <1>2, <1>3, <1>4 DEF TakeOutcome, TakeNewFails

(* What the fetch may be after a poll, and when it stays as it was.        *)
LEMMA PolledFetch ==
  ASSUME TypeOK, Poll, Fetched, exit' = None
  PROVE  /\ UNCHANGED <<now, applied, release, newest, published>>
         /\ now >= next_poll /\ next_poll' = now + PollSecs /\ pc = "poll" /\ pc' = "collect"
         /\ \/ fetch_job' = fetch_job
            \/ fetch_job.status = Idle /\ fetch_job'.status = "running"
                 /\ fetch_job'.started = now
         /\ fetch_job' = fetch_job /\ fetch_job.status = Idle =>
              now < next_version_check /\ next_version_check' = next_version_check
         /\ \/ next_version_check' = next_version_check
            \/ next_version_check' = now + VersionPollSecs
<1>1. /\ UNCHANGED <<now, applied, release, newest, published>>
      /\ now >= next_poll /\ next_poll' = now + PollSecs /\ pc = "poll" /\ pc' = "collect"
  BY DEF Poll, hubVars
<1>2. Assess /\ FetchStep
  BY DEF Poll, ShowFails, Assess, ReUpFails, None
<1>3. \/ fetch_job' = fetch_job
      \/ fetch_job.status = Idle
           /\ fetch_job' = [NoFetch EXCEPT !.status = "running", !.have = applied.tag,
                                           !.started = now]
  BY <1>2 DEF FetchStep, StartFetch
<1>4. \/ fetch_job' = fetch_job
      \/ fetch_job.status = Idle /\ fetch_job'.status = "running" /\ fetch_job'.started = now
  BY <1>3 DEF NoFetch
<1>5. ASSUME fetch_job' = fetch_job, fetch_job.status = Idle
      PROVE  now < next_version_check /\ next_version_check' = next_version_check
  <2>1. StartFetch # fetch_job
    BY <1>5 DEF StartFetch, NoFetch, Idle
  <2>2. ~(d'.repair = "Obtain" \/ d'.check_version \/ VersionCheckDue)
    BY <1>2, <1>5, <2>1 DEF FetchStep
  <2>3. HealthPoll(Observation, Fresh, reply)
    BY <1>2 DEF Assess
  <2>4. PollConnected
    <3>1. SUFFICES ASSUME PollDisconnected(Observation, reply) PROVE FALSE
      BY <2>3 DEF HealthPoll
    <3>2. Observation \notin Configured => d'.repair = "Obtain"
      BY <3>1 DEF PollDisconnected
    <3>3. d'.check_version = (Fetched /\ Observation \in Configured)
      BY <3>1 DEF PollDisconnected
    <3> QED
      BY <2>2, <3>2, <3>3
  <2>5. d'.state = "Connected"
    BY <2>4 DEF PollConnected, Quiet
  <2> QED
    BY <1>2, <2>2, <2>5, Numbers DEF VersionCheckDue, FetchStep
<1>6. \/ next_version_check' = next_version_check
      \/ next_version_check' = now + VersionPollSecs
  BY <1>2 DEF FetchStep
<1> QED
  BY <1>1, <1>4, <1>5, <1>6

(* Every step keeps the deadlines.                                         *)
LEMMA FollowStep ==
  ASSUME TypeOK, FetchKnowsApplied, Fetching, FollowTiming, [Next]_vars,
         TypeOK'
  PROVE  FollowTiming'
<1> SUFFICES ASSUME Fetched, ~FetchMayFail, exit' = None
             PROVE  /\ now' <= next_poll' + MaxLag /\ next_poll' <= now' + PollSecs
                    /\ published' <= now'
                    /\ next_version_check' <= now' + VersionPollSecs
                    /\ fetch_job'.status # Idle => fetch_job'.started <= now'
                    /\ fetch_job'.status = "finished" =>
                         /\ fetch_job'.outcome = ObtainOutcome'
                         /\ TakenBy' <= fetch_job'.started + FetchTimeout + 2 * Round
                    /\ Blind' => fetch_job'.started <= published' /\ next_version_check' <= CheckBy'
                    /\ Behind' /\ fetch_job'.status = Idle =>
                         next_poll' + MaxLag <= StartBy' /\ next_version_check' <= CheckBy'
                    /\ Behind' /\ fetch_job'.status # Idle /\ ~Blind' =>
                         fetch_job'.started <= StartBy'
  BY DEF FollowTiming, Round
<1> USE DEF Round
<1>0. /\ now \in Nat /\ next_poll \in Nat /\ next_version_check \in Nat
      /\ published \in Nat /\ fetch_job.started \in Nat
      /\ PollSecs \in Nat \ {0} /\ VersionPollSecs \in Nat \ {0}
      /\ MaxLag \in Nat /\ FetchTimeout \in Nat
  BY Numbers
<1> USE <1>0
<1>1. exit = None
  BY DEF Next, Collect, Poll, NotDue, FetchVersion, FetchEnd, AskEnd, Handshake, Publish, Tick,
         vars, loopVars
<1>2. /\ now <= next_poll + MaxLag /\ next_poll <= now + PollSecs
      /\ published <= now
      /\ next_version_check <= now + VersionPollSecs
      /\ fetch_job.status # Idle => fetch_job.started <= now
      /\ fetch_job.status = "finished" =>
           /\ fetch_job.outcome = ObtainOutcome
           /\ TakenBy <= fetch_job.started + FetchTimeout + 2 * Round
      /\ Blind => fetch_job.started <= published /\ next_version_check <= CheckBy
      /\ Behind /\ fetch_job.status = Idle =>
           next_poll + MaxLag <= StartBy /\ next_version_check <= CheckBy
      /\ Behind /\ fetch_job.status # Idle /\ ~Blind => fetch_job.started <= StartBy
  BY <1>1 DEF FollowTiming
<1>3. ASSUME UNCHANGED <<now, next_poll, published, next_version_check, fetch_job, pc,
                         release, newest, applied>>
      PROVE  FollowTiming'
  <2>1. /\ Blind' <=> Blind
        /\ Behind' <=> Behind
        /\ TakenBy' = TakenBy /\ ObtainOutcome' = ObtainOutcome
        /\ CheckBy' = CheckBy /\ StartBy' = StartBy
    BY <1>3 DEF Blind, Behind, TakenBy, ObtainOutcome, CheckBy, StartBy
  <2> QED
    BY <1>2, <1>3, <2>1 DEF FollowTiming
<1>4. CASE AskEnd \/ Handshake \/ UNCHANGED vars
  <2>1. UNCHANGED <<now, next_poll, published, next_version_check, fetch_job, pc,
                    release, newest, applied>>
    BY <1>4 DEF AskEnd, Handshake, vars, loopVars, configVars, hubVars
  <2>2. FollowTiming'
    BY <1>3, <2>1
  <2> QED
    BY <2>2 DEF FollowTiming
<1>5. CASE Collect
  <2>1. /\ UNCHANGED <<now, next_poll, published, next_version_check, release, newest>>
        /\ pc = "collect" /\ pc' = "poll"
    BY <1>5 DEF Collect, hubVars
  <2>2. CASE TakeNothing
    <3>1. UNCHANGED <<fetch_job, applied>> /\ fetch_job.status # "finished"
      BY <2>2 DEF TakeNothing, configVars
    <3>2. /\ Blind' <=> Blind
          /\ Behind' <=> Behind
          /\ CheckBy' = CheckBy /\ StartBy' = StartBy
      BY <2>1, <3>1 DEF Blind, Behind, CheckBy, StartBy
    <3> QED
      BY <1>2, <2>1, <3>1, <3>2
  <2>3. CASE TakeOutcome
    <3>1. fetch_job.status = "finished" /\ fetch_job'.status = Idle /\ ~Blind'
      BY <2>3 DEF TakeOutcome, NoFetch, Idle, Blind
    <3>2. ASSUME Behind' PROVE next_poll + MaxLag <= StartBy /\ next_version_check <= CheckBy
      <4>1. Blind
        BY <1>1, <1>2, <2>1, <2>3, <3>1, <3>2, TakenCatchesUp DEF Blind, hubVars
      <4>2. next_poll + MaxLag <= fetch_job.started + FetchTimeout + 2 * Round
        BY <1>2, <2>1, <3>1 DEF TakenBy
      <4> QED
        BY <1>2, <4>1, <4>2 DEF StartBy, CheckBy
    <3>3. CheckBy' = CheckBy /\ StartBy' = StartBy
      BY <2>1 DEF CheckBy, StartBy
    <3> QED
      BY <1>2, <2>1, <3>1, <3>2, <3>3 DEF Idle
  <2> QED
    BY <1>5, <2>2, <2>3 DEF Collect
<1>6. CASE Poll
  <2>1. /\ UNCHANGED <<now, applied, release, newest, published>>
        /\ now >= next_poll /\ next_poll' = now + PollSecs /\ pc = "poll" /\ pc' = "collect"
        /\ \/ fetch_job' = fetch_job
           \/ fetch_job.status = Idle /\ fetch_job'.status = "running"
                /\ fetch_job'.started = now
        /\ fetch_job' = fetch_job /\ fetch_job.status = Idle =>
             now < next_version_check /\ next_version_check' = next_version_check
        /\ \/ next_version_check' = next_version_check
           \/ next_version_check' = now + VersionPollSecs
    BY <1>6, PolledFetch
  <2>2. /\ Behind' <=> Behind
        /\ CheckBy' = CheckBy /\ StartBy' = StartBy
    BY <2>1 DEF Behind, CheckBy, StartBy
  <2>3. CASE fetch_job' = fetch_job
    <3>1. (Blind' <=> Blind) /\ ObtainOutcome' = ObtainOutcome
      BY <2>1, <2>3 DEF Blind, ObtainOutcome
    <3>2. ASSUME fetch_job.status = "finished"
          PROVE  TakenBy' <= fetch_job.started + FetchTimeout + 2 * Round
      BY <1>2, <2>1, <3>2 DEF TakenBy
    <3>3. ASSUME Blind PROVE next_version_check' <= CheckBy
      <4>1. fetch_job.started <= published /\ next_version_check <= CheckBy
        BY <1>2, <3>3
      <4>2. now <= fetch_job.started + FetchTimeout + Round
        <5>1. CASE fetch_job.status = "pinned"
          BY <5>1 DEF Fetching
        <5>2. CASE fetch_job.status = "finished"
          BY <1>2, <2>1, <5>2 DEF TakenBy
        <5> QED
          BY <3>3, <5>1, <5>2 DEF Blind
      <4> QED
        BY <2>1, <4>1, <4>2 DEF CheckBy
    <3>4. ASSUME Behind, fetch_job.status = Idle
          PROVE  next_poll' + MaxLag <= StartBy /\ next_version_check' <= CheckBy
      <4>1. /\ now < next_version_check /\ next_version_check <= CheckBy
            /\ next_version_check' = next_version_check
        BY <1>2, <2>1, <2>3, <3>4
      <4>2. CheckBy \in Nat
        BY DEF CheckBy
      <4> QED
        BY <2>1, <4>1, <4>2 DEF StartBy
    <3> QED
      BY <1>2, <2>1, <2>2, <2>3, <3>1, <3>2, <3>3, <3>4
  <2>4. CASE fetch_job.status = Idle /\ fetch_job'.status = "running" /\ fetch_job'.started = now
    <3>1. ~Blind' /\ fetch_job'.status \notin {Idle, "finished"}
      BY <2>4 DEF Blind, Idle
    <3>2. Behind => now <= StartBy
      BY <1>2, <2>4 DEF StartBy, CheckBy
    <3> QED
      BY <1>2, <2>1, <2>2, <2>4, <3>1, <3>2
  <2> QED
    BY <2>1, <2>3, <2>4
<1>7. CASE NotDue
  <2>1. /\ UNCHANGED <<now, next_poll, published, next_version_check, fetch_job,
                       release, newest, applied>>
        /\ pc = "poll" /\ pc' = "collect"
    BY <1>7 DEF NotDue, configVars, hubVars
  <2>2. /\ Blind' <=> Blind
        /\ Behind' <=> Behind
        /\ TakenBy' <= TakenBy /\ ObtainOutcome' = ObtainOutcome
        /\ CheckBy' = CheckBy /\ StartBy' = StartBy
    BY <2>1 DEF Blind, Behind, TakenBy, ObtainOutcome, CheckBy, StartBy
  <2>3. TakenBy' \in Nat /\ TakenBy \in Nat
    BY <2>1 DEF TakenBy
  <2> QED
    BY <1>2, <2>1, <2>2, <2>3
<1>8. CASE FetchVersion
  <2>1. /\ UNCHANGED <<now, next_poll, published, next_version_check, pc,
                       release, newest, applied>>
        /\ fetch_job.status = "running"
        /\ fetch_job'.status = "pinned" /\ fetch_job'.tag = newest
        /\ fetch_job'.started = fetch_job.started
    BY <1>8 DEF FetchVersion, loopVars, configVars, hubVars, TypeOK
  <2>2. /\ ~Blind /\ ~Blind'
        /\ Behind' <=> Behind
        /\ CheckBy' = CheckBy /\ StartBy' = StartBy
    BY <2>1 DEF Blind, Behind, CheckBy, StartBy
  <2> QED
    BY <1>2, <2>1, <2>2 DEF Idle
<1>9. CASE FetchEnd
  <2>1. /\ UNCHANGED <<now, next_poll, published, next_version_check, pc,
                       release, newest, applied>>
        /\ fetch_job.status = "pinned"
        /\ fetch_job' = [fetch_job EXCEPT !.status = "finished", !.outcome = ObtainOutcome]
    BY <1>9 DEF FetchEnd, loopVars, configVars, hubVars
  <2>2. /\ fetch_job'.status = "finished" /\ fetch_job'.outcome = ObtainOutcome
        /\ fetch_job'.tag = fetch_job.tag /\ fetch_job'.have = fetch_job.have
        /\ fetch_job'.started = fetch_job.started
    BY <2>1 DEF TypeOK
  <2>3. /\ Blind' <=> Blind
        /\ Behind' <=> Behind
        /\ CheckBy' = CheckBy /\ StartBy' = StartBy
        /\ ObtainOutcome' = ObtainOutcome
    BY <2>1, <2>2 DEF Blind, Behind, CheckBy, StartBy, ObtainOutcome
  <2>4. now <= fetch_job.started + FetchTimeout
    BY <2>1 DEF Fetching
  <2>5. TakenBy' <= fetch_job.started + FetchTimeout + 2 * Round
    BY <1>2, <2>1, <2>4 DEF TakenBy
  <2> QED
    BY <1>2, <2>1, <2>2, <2>3, <2>5 DEF Idle
<1>10. CASE Publish
  <2>1. /\ UNCHANGED <<now, next_poll, next_version_check, pc, release, applied, fetch_job>>
        /\ published' = now
    BY <1>10 DEF Publish, loopVars, configVars
  <2>2. TakenBy' = TakenBy /\ ObtainOutcome' = ObtainOutcome
    BY <2>1 DEF TakenBy, ObtainOutcome
  <2>3. /\ CheckBy' = now + VersionPollSecs + FetchTimeout + Round
        /\ StartBy' = now + VersionPollSecs + FetchTimeout + Round + Round - 1
    BY <2>1 DEF CheckBy, StartBy
  <2>4. Blind' => fetch_job.status # Idle
    BY <2>1 DEF Blind, Idle
  <2> QED
    BY <1>2, <2>1, <2>2, <2>3, <2>4
<1>11. CASE Tick
  <2>1. /\ UNCHANGED <<next_poll, published, next_version_check, pc, release, newest, applied,
                       fetch_job>>
        /\ now' = now + 1 /\ now < next_poll + MaxLag
    BY <1>11 DEF Tick, loopVars, configVars, hubVars
  <2>2. /\ Blind' <=> Blind
        /\ Behind' <=> Behind
        /\ TakenBy' = TakenBy /\ ObtainOutcome' = ObtainOutcome
        /\ CheckBy' = CheckBy /\ StartBy' = StartBy
    BY <2>1 DEF Blind, Behind, TakenBy, ObtainOutcome, CheckBy, StartBy
  <2> QED
    BY <1>2, <2>1, <2>2
<1> QED
  BY <1>4, <1>5, <1>6, <1>7, <1>8, <1>9, <1>10, <1>11 DEF Next

(* What the hub reports is what the spoke runs on within the deadline, or  *)
(* the run is over (supervisor.rs 207-223, 242-301, 390-403).              *)
THEOREM FollowsInTime == Spec => []FollowsHubInTime
<1>1. Init => FollowTiming
  <2> SUFFICES ASSUME Init PROVE FollowTiming
    OBVIOUS
  <2>1. /\ now = 0 /\ next_poll = 0 /\ published = 0 /\ next_version_check = VersionPollSecs
        /\ fetch_job.status = Idle
    BY DEF Init, NoFetch
  <2>2. ~Blind /\ fetch_job.status # "finished"
    BY <2>1 DEF Blind, Idle
  <2> QED
    BY <2>1, <2>2, TunnelAssumption DEF FollowTiming, CheckBy, StartBy, Round
<1>2. TypeOK /\ FetchKnowsApplied /\ Fetching /\ FollowTiming /\ [Next]_vars /\ TypeOK'
        => FollowTiming'
  BY FollowStep
<1>3. TypeOK /\ Fetching /\ FollowTiming => FollowsHubInTime
  <2> SUFFICES ASSUME TypeOK, Fetching, FollowTiming, exit = None, Behind, ~FetchMayFail
               PROVE  now - published <= FollowDeadline
    BY DEF FollowsHubInTime
  <2> USE DEF Round, FollowDeadline, StartBy, CheckBy
  <2>5. /\ now \in Nat /\ next_poll \in Nat /\ published \in Nat /\ fetch_job.started \in Nat
        /\ PollSecs \in Nat \ {0} /\ VersionPollSecs \in Nat \ {0}
        /\ MaxLag \in Nat /\ FetchTimeout \in Nat
    BY Numbers
  <2> USE <2>5
  <2>0. Fetched
    BY DEF Behind
  <2>1. CASE fetch_job.status = Idle
    BY <2>0, <2>1 DEF FollowTiming
  <2>2. CASE fetch_job.status # Idle
    <3>1. fetch_job.started <= StartBy
      BY <2>0, <2>2 DEF FollowTiming
    <3>2. CASE fetch_job.status \in {"running", "pinned"}
      BY <3>1, <3>2 DEF Fetching
    <3>3. CASE fetch_job.status = "finished"
      <4>1. now <= fetch_job.started + FetchTimeout + 2 * Round
        BY <2>0, <3>3 DEF FollowTiming, TakenBy
      <4> QED
        BY <3>1, <4>1
    <3> QED
      BY <2>2, <3>2, <3>3 DEF TypeOK
  <2> QED
    BY <2>1, <2>2
<1> QED
  BY <1>1, <1>2, <1>3, TypesKept, FetchComparesApplied, FetchingKept, PTL DEF Spec

-----------------------------------------------------------------------------
(* What a poll makes of the outage and of the pending shutdown: one of ten *)
(* things.                                                                 *)
Quietly == d'.give_up = "No" /\ ~d'.ask
SameOutage == disconnected_since' = disconnected_since /\ outage' = outage
SameFirst == pending # NotPending /\ pending'.first_ask = pending.first_ask

Recovers ==
  /\ Fresh /\ Quietly /\ disconnected_since' = Never /\ outage' = outage
  /\ pending' = NotPending /\ wg' = wg

BeginsOutage ==
  /\ Quietly /\ disconnected_since = Never /\ pending = NotPending
  /\ disconnected_since' = now /\ outage' = outage + 1 /\ pending' = NotPending

StaysDown == Quietly /\ SameOutage /\ pending = NotPending /\ pending' = NotPending

AsksFirst ==
  /\ d'.give_up = "No" /\ d'.ask /\ SameOutage /\ pending = NotPending
  /\ ~Tolerate /\ now - disconnected_since >= LimitSecs
  /\ pending' # NotPending /\ pending'.outstanding /\ pending'.first_ask = now

Consents == d'.give_up = "Consent" /\ ~d'.ask /\ SameOutage /\ SameFirst /\ reply = "Ok"

HoldRunsOut ==
  /\ d'.give_up = "HoldLimit" /\ ~d'.ask /\ SameOutage /\ SameFirst
  /\ reply # "Ok" /\ HoldLimitSecs > 0 /\ now - pending.first_ask >= HoldLimitSecs

HearsHold ==
  /\ Quietly /\ SameOutage /\ SameFirst /\ reply = "Hold"
  /\ ~pending'.outstanding /\ pending'.next_ask = now + AskInterval

AwaitsReply ==
  /\ Quietly /\ SameOutage /\ SameFirst /\ reply = NoReply
  /\ pending.outstanding /\ pending'.outstanding

StaysHeld ==
  /\ Quietly /\ SameOutage /\ SameFirst /\ reply = NoReply
  /\ ~pending.outstanding /\ ~pending'.outstanding /\ pending'.next_ask = pending.next_ask

AsksAgain ==
  /\ d'.give_up = "No" /\ d'.ask /\ SameOutage /\ SameFirst /\ reply = NoReply
  /\ ~pending.outstanding /\ pending'.outstanding /\ now >= pending.next_ask

LEMMA PollKinds ==
  ASSUME TypeOK, Asking, Poll, Assess
  PROVE  \/ Recovers
         \/ ~Fresh /\ \/ BeginsOutage
                      \/ disconnected_since # Never /\ StaysDown
                      \/ disconnected_since # Never /\ AsksFirst
                      \/ Consents \/ HoldRunsOut \/ HearsHold \/ AwaitsReply
                      \/ StaysHeld \/ AsksAgain
<1> USE HealthAssumption DEF Quietly, SameOutage, SameFirst
<1>0. /\ now \in Nat /\ disconnected_since \in Time /\ pending \in Pending
      /\ reply \in Reply \cup {NoReply}
  BY DEF TypeOK, HealthTypeOK
<1>1. /\ HealthPoll(Observation, Fresh, reply)
      /\ outage' = IF disconnected_since = Never /\ ~Fresh THEN outage + 1 ELSE outage
      /\ now' = now
  BY DEF Assess, Poll
<1>2. CASE Fresh /\ PollConnected
  <2>1. /\ disconnected_since' = Never /\ pending' = NotPending
        /\ d'.give_up = "No" /\ ~d'.ask /\ d'.repair = "None"
    BY <1>2 DEF PollConnected, Quiet
  <2>2. wg' = wg
    BY <2>1 DEF Assess, ReUp, NoReUp, ReUpFails, ReUps
  <2> QED
    BY <1>1, <1>2, <2>1, <2>2 DEF Recovers
<1>3. CASE ~Fresh /\ PollDisconnected(Observation, reply)
  <2>1. /\ disconnected_since' = OutageStart /\ pending' = PendingAfter(reply)
        /\ d'.give_up = GiveUpNow(reply)
        /\ d'.ask = (FirstAsk \/ AskAgain(reply))
    BY <1>3 DEF PollDisconnected
  <2>2. CASE disconnected_since = Never
    <3>1. pending = NotPending
      BY <2>2 DEF Asking
    <3>2. ~PastLimit /\ OutageStart = now
      BY <1>0, <2>2 DEF PastLimit, OutageStart
    <3>3. ~FirstAsk /\ ~AskAgain(reply) /\ GiveUpNow(reply) = "No"
          /\ PendingAfter(reply) = pending
      BY <3>1, <3>2 DEF FirstAsk, AskAgain, GiveUpNow, PendingAfter
    <3> QED
      BY <1>1, <1>3, <2>1, <2>2, <3>1, <3>2, <3>3 DEF BeginsOutage
  <2>3. CASE disconnected_since # Never /\ pending = NotPending
    <3>1. SameOutage /\ OutageStart = disconnected_since
      BY <1>1, <1>3, <2>1, <2>3 DEF OutageStart
    <3>2. ~AskAgain(reply) /\ GiveUpNow(reply) = "No"
      BY <2>3 DEF AskAgain, GiveUpNow
    <3>3. CASE PastLimit
      <4>1. FirstAsk
        BY <2>3, <3>3 DEF FirstAsk
      <4>2. pending' = [first_ask |-> now, outstanding |-> TRUE, next_ask |-> now]
        BY <2>1, <4>1 DEF PendingAfter, FirstAsk
      <4>3. pending' # NotPending /\ pending'.outstanding /\ pending'.first_ask = now
        <5>1. pending'.first_ask = now /\ pending'.outstanding
          BY <4>2
        <5> QED
          BY <1>0, <5>1 DEF NotPending, Never
      <4>4. ~Tolerate /\ now - disconnected_since >= LimitSecs
        BY <3>1, <3>3 DEF PastLimit
      <4> QED
        BY <1>3, <2>1, <2>3, <3>1, <3>2, <4>1, <4>3, <4>4 DEF AsksFirst
    <3>4. CASE ~PastLimit
      <4>1. ~FirstAsk /\ PendingAfter(reply) = pending
        BY <3>4 DEF FirstAsk, PendingAfter
      <4> QED
        BY <1>3, <2>1, <2>3, <3>1, <3>2, <4>1 DEF StaysDown
    <3> QED
      BY <3>3, <3>4
  <2>4. CASE pending # NotPending
    <3>1. /\ disconnected_since # Never /\ OutageStart = disconnected_since /\ PastLimit
          /\ pending.first_ask \in Nat
      BY <2>4 DEF Asking, OutageStart, PastLimit
    <3>2. SameOutage /\ ~FirstAsk
      BY <1>1, <2>1, <2>4, <3>1 DEF FirstAsk
    <3>3. pending' = [Heard(reply) EXCEPT !.outstanding = @ \/ AskAgain(reply)]
      BY <2>1, <2>4, <3>1, <3>2 DEF PendingAfter
    <3>4. /\ Heard(reply).first_ask = pending.first_ask
          /\ Heard(reply).outstanding = (pending.outstanding /\ reply = NoReply)
          /\ Heard(reply).next_ask = IF reply = "Hold" THEN now + AskInterval ELSE pending.next_ask
      BY <1>0 DEF Heard, Pending
    <3>5. /\ pending'.first_ask = pending.first_ask
          /\ pending'.outstanding = (Heard(reply).outstanding \/ AskAgain(reply))
          /\ pending'.next_ask = Heard(reply).next_ask
      BY <1>0, <3>3, <3>4 DEF Heard, Pending
    <3>6. SameFirst /\ pending.next_ask \in Time
      BY <1>0, <2>4, <3>5 DEF Pending
    <3>7. d'.ask <=> AskAgain(reply)
      BY <2>1, <3>2
    <3>8. AskAgain(reply) <=>
            /\ GiveUpNow(reply) = "No" /\ ~(pending.outstanding /\ reply = NoReply)
            /\ now >= Heard(reply).next_ask
      BY <2>4, <3>1, <3>4 DEF AskAgain
    <3>9. CASE reply = "Ok"
      <4>1. GiveUpNow(reply) = "Consent"
        BY <2>4, <3>1, <3>9 DEF GiveUpNow
      <4> QED
        BY <1>3, <2>1, <3>2, <3>6, <3>7, <3>8, <3>9, <4>1 DEF Consents
    <3>10. CASE reply # "Ok" /\ HoldLimitSecs > 0 /\ now - pending.first_ask >= HoldLimitSecs
      <4>1. GiveUpNow(reply) = "HoldLimit"
        BY <2>4, <3>1, <3>10 DEF GiveUpNow
      <4> QED
        BY <1>3, <2>1, <3>2, <3>6, <3>7, <3>8, <3>10, <4>1 DEF HoldRunsOut
    <3>11. CASE reply # "Ok" /\ ~(HoldLimitSecs > 0 /\ now - pending.first_ask >= HoldLimitSecs)
      <4>1. GiveUpNow(reply) = "No"
        BY <2>4, <3>1, <3>11 DEF GiveUpNow
      <4>2. CASE reply = "Hold"
        <5>1. ~AskAgain(reply) /\ pending'.next_ask = now + AskInterval
          BY <1>0, <3>4, <3>5, <3>8, <4>2
        <5>2. ~pending'.outstanding
          BY <3>4, <3>5, <4>2, <5>1 DEF NoReply
        <5> QED
          BY <1>3, <2>1, <3>2, <3>6, <3>7, <4>1, <4>2, <5>1, <5>2 DEF HearsHold
      <4>3. CASE reply = NoReply /\ pending.outstanding
        <5>1. ~AskAgain(reply) /\ pending'.outstanding
          BY <3>4, <3>5, <3>8, <4>3
        <5> QED
          BY <1>3, <2>1, <3>2, <3>6, <3>7, <4>1, <4>3, <5>1 DEF AwaitsReply
      <4>4. CASE reply = NoReply /\ ~pending.outstanding /\ now >= pending.next_ask
        <5>1. AskAgain(reply)
          BY <3>4, <3>8, <4>1, <4>4 DEF NoReply
        <5>2. pending'.outstanding
          BY <3>5, <5>1
        <5> QED
          BY <1>3, <2>1, <3>2, <3>6, <3>7, <4>1, <4>4, <5>1, <5>2 DEF AsksAgain
      <4>5. CASE reply = NoReply /\ ~pending.outstanding /\ ~(now >= pending.next_ask)
        <5>1. ~AskAgain(reply) /\ pending'.next_ask = pending.next_ask
          BY <3>4, <3>5, <3>8, <4>5 DEF NoReply
        <5>2. ~pending'.outstanding
          BY <3>4, <3>5, <4>5, <5>1
        <5> QED
          BY <1>3, <2>1, <3>2, <3>6, <3>7, <4>1, <4>5, <5>1, <5>2 DEF StaysHeld
      <4> QED
        BY <1>0, <3>11, <4>2, <4>3, <4>4, <4>5 DEF Reply
    <3> QED
      BY <3>9, <3>10, <3>11
  <2> QED
    BY <2>2, <2>3, <2>4
<1> QED
  BY <1>1, <1>2, <1>3 DEF HealthPoll

-----------------------------------------------------------------------------
(* An ask is over before the next outage can come to its first: it is      *)
(* shorter than the limit, or, when nothing but time makes a handshake     *)
(* stale, than the staleness bound.                                        *)
PromptReplies ==
  \/ AskTimeout + MaxLag < LimitSecs + PollSecs
  \/ ~Fetched /\ AskTimeout < StaleSecs

(* The ask's thread is at work, or its answer is one the next poll waits   *)
(* to be rid of.                                                           *)
Unheard == ask_job.status = "running" \/ (ask_job.status = "finished" /\ pc = "poll")

(* The handshake the kernel has was there, too old, at the ask; or it came *)
(* later.                                                                  *)
HandshakeSince == wg.handshake # Never /\ wg.handshake >= ask_job.asked
NoneAtAsk == wg.handshake = Never \/ ask_job.asked - wg.handshake >= StaleSecs

LoopTiming ==
  exit = None => LastPoll <= now /\ now <= next_poll + MaxLag

AskTimes ==
  /\ ask_job.asked <= LastPoll /\ ask_job.outage <= outage
  /\ ask_job.status = "running" => now <= ask_job.asked + AskTimeout
  /\ Unheard => LastPoll <= ask_job.asked + AskTimeout
  /\ disconnected_since = Never =>
       /\ LastPoll >= ask_job.asked + PollSecs
       /\ ~Fetched => HandshakeSince
  /\ disconnected_since # Never /\ ask_job.outage = outage =>
       /\ pending # NotPending
       /\ ~Fetched => HandshakeSince \/ NoneAtAsk
  /\ disconnected_since # Never /\ ask_job.outage # outage =>
       /\ disconnected_since >= ask_job.asked + 2 * PollSecs
       /\ ~Fetched => disconnected_since >= ask_job.asked + StaleSecs

AskTiming == exit = None /\ ask_job.status # Idle => AskTimes

OutageTiming ==
  /\ exit = None /\ disconnected_since # Never => disconnected_since <= LastPoll
  /\ ~Fetched => applied # NoConfig

Owed ==
  exit = None =>
    /\ ask_job.status = Idle \/ reply = NoReply
    /\ pending # NotPending =>
         /\ ~pending.outstanding => ask_job.status = Idle /\ reply = NoReply
         /\ ask_job.status # Idle => ask_job.outage = outage
         /\ reply # NoReply => reply_outage = outage
(* The numbers of an ask.                                                  *)
LEMMA AskNumbers ==
  ASSUME TypeOK
  PROVE  /\ now \in Nat /\ next_poll \in Nat /\ outage \in Nat
         /\ ask_job.asked \in Nat /\ ask_job.outage \in Nat
         /\ ask_job.status \in {Idle, "running", "finished"}
         /\ disconnected_since \in Time /\ wg.handshake \in Time
         /\ PollSecs \in Nat \ {0} /\ StaleSecs \in Nat \ {0} /\ LimitSecs \in Nat \ {0}
         /\ MaxLag \in Nat /\ AskTimeout \in Nat
BY TunnelAssumption, HealthAssumption DEF TypeOK, HealthTypeOK

(* A poll that the run survives, and what it does besides.                 *)
LEMMA SurvivedPoll ==
  ASSUME TypeOK, Poll, exit' = None
  PROVE  /\ Assess /\ AskStep /\ now' = now /\ next_poll' = now + PollSecs /\ LastPoll' = now
         /\ pc = "poll" /\ pc' = "collect" /\ now >= next_poll /\ applied' = applied
         /\ reply' = NoReply /\ d'.give_up = "No"
         /\ wg' = wg \/ wg'.handshake = Never \/ wg'.handshake = wg.handshake
<1>1. /\ now' = now /\ next_poll' = now + PollSecs /\ pc = "poll" /\ pc' = "collect"
      /\ now >= next_poll /\ applied' = applied
  BY DEF Poll
<1>2. Assess /\ ~ReUpFails
  BY DEF Poll, ShowFails, ReUpFails, None
<1>3. AskStep /\ reply' = NoReply /\ (ReUp \/ NoReUp) /\ d'.give_up = "No"
  BY <1>2 DEF Assess, None
<1>4. wg' = wg \/ wg'.handshake = Never \/ wg'.handshake = wg.handshake
  BY <1>3 DEF ReUp, NoReUp, NoPeer, TypeOK
<1>5. LastPoll' = now
  BY <1>1, AskNumbers DEF LastPoll
<1> QED
  BY <1>1, <1>2, <1>3, <1>4, <1>5

LEMMA LoopTimingKept == Spec => [](LoopTiming /\ OutageTiming)
<1> USE DEF None
<1>1. Init => LoopTiming /\ OutageTiming
  BY TunnelAssumption DEF Init, HealthNew, LoopTiming, LastPoll, OutageTiming, BootConfigured,
     BootUnconfigured, NoConfig, Absent
<1>2. TypeOK /\ FetchOrder /\ Asking /\ LoopTiming /\ OutageTiming /\ [Next]_vars
        => LoopTiming' /\ OutageTiming'
  <2> SUFFICES ASSUME TypeOK, FetchOrder, Asking, LoopTiming, OutageTiming, [Next]_vars
               PROVE  LoopTiming' /\ OutageTiming'
    OBVIOUS
  <2> USE AskNumbers DEF Time, Never
  <2>1. ~Fetched => applied' = applied
    <3> SUFFICES ASSUME ~Fetched PROVE applied' = applied
      OBVIOUS
    <3>1. CASE Collect
      <4>1. TakeNothing
        BY <3>1 DEF Collect, TakeOutcome, FetchOrder, Idle
      <4> QED
        BY <4>1 DEF TakeNothing, configVars
    <3>2. CASE ~Collect
      BY <3>2 DEF Next, Poll, NotDue, FetchVersion, FetchEnd, AskEnd, Handshake, Publish,
                  Tick, vars, loopVars, configVars
    <3> QED
      BY <3>1, <3>2
  <2>2. CASE UNCHANGED <<now, next_poll, disconnected_since>> /\ (exit = None \/ exit' = exit)
    BY <2>1, <2>2 DEF LoopTiming, OutageTiming, LastPoll
  <2>3. CASE Collect
    <3>1. UNCHANGED <<now, next_poll, disconnected_since>> /\ exit = None
      BY <2>3 DEF Collect, TakeNothing, TakeOutcome, TakeUnchanged, TakeUnavailable,
                TakeSameEntry, TakeNewEntry, TakeNewFails, TakeNotEnrolled,
                ConfigApplied, healthVars
    <3> QED
      BY <2>2, <3>1
  <2>4. CASE Poll
    <3>1. exit = None
      BY <2>4 DEF Poll
    <3>2. CASE exit' # None
      BY <2>1, <3>2 DEF LoopTiming, OutageTiming
    <3>3. CASE exit' = None
      <4>1. Assess /\ now' = now /\ LastPoll' = now /\ next_poll' = now + PollSecs
        BY <2>4, <3>3, SurvivedPoll
      <4>2. disconnected_since' # Never => disconnected_since' <= now
        BY <2>4, <3>1, <4>1, PollKinds DEF Recovers, BeginsOutage, StaysDown, AsksFirst,
             Consents, HoldRunsOut, HearsHold, AwaitsReply, StaysHeld, AsksAgain, SameOutage,
             OutageTiming, LoopTiming, LastPoll
      <4> QED
        BY <2>1, <4>1, <4>2 DEF LoopTiming, OutageTiming
    <3> QED
      BY <3>2, <3>3
  <2>5. CASE Tick
    <3>1. /\ UNCHANGED <<next_poll, disconnected_since, exit>> /\ now' = now + 1
          /\ now < next_poll + MaxLag
      BY <2>5 DEF Tick, loopVars, healthVars
    <3> QED
      BY <2>1, <3>1 DEF LoopTiming, OutageTiming, LastPoll
  <2>6. CASE NotDue \/ FetchVersion \/ FetchEnd \/ AskEnd \/ Handshake \/ Publish
               \/ UNCHANGED vars
    <3>1. UNCHANGED <<now, next_poll, disconnected_since, exit>>
      BY <2>6 DEF NotDue, FetchVersion, FetchEnd, AskEnd, Handshake, Publish, vars, loopVars,
                  healthVars
    <3> QED
      BY <2>2, <3>1
  <2> QED
    BY <2>3, <2>4, <2>5, <2>6 DEF Next
<1> QED
  BY <1>1, <1>2, TypesKept, AskingKept, PTL DEF Spec

(* A poll that the run survives, with an ask under way before and after.   *)
LEMMA AskTimingPolled ==
  ASSUME TypeOK, TypeOK', Asking, KernelFollowsConfig, LoopTiming, OutageTiming, AskTiming,
         Poll, exit = None, exit' = None, ask_job'.status # Idle
  PROVE  AskTimes'
<1> USE AskNumbers DEF Time, Never
<1>1. /\ Assess /\ AskStep /\ now' = now /\ next_poll' = now + PollSecs /\ LastPoll' = now
      /\ pc = "poll" /\ pc' = "collect" /\ now >= next_poll /\ applied' = applied
      /\ d'.give_up = "No"
      /\ wg' = wg \/ wg'.handshake = Never \/ wg'.handshake = wg.handshake
  BY SurvivedPoll
<1>2. LastPoll <= now /\ LastPoll = next_poll - PollSecs
  BY DEF LoopTiming, LastPoll
<1>3. ~Fetched /\ ~Fresh => wg.handshake = Never \/ now - wg.handshake >= StaleSecs
  BY DEF Fresh, OutageTiming, KernelFollowsConfig
<1>4. Fresh => wg.handshake # Never /\ now - wg.handshake < StaleSecs
  BY DEF Fresh
<1>5. pending # NotPending => disconnected_since # Never /\ pending.first_ask \in Nat
  BY DEF Asking
<1>6. SameFirst => pending' # NotPending
  BY <1>5 DEF SameFirst, NotPending
<1>7. \/ Recovers /\ ~d'.ask
      \/ ~Fresh /\ BeginsOutage /\ ~d'.ask
      \/ ~Fresh /\ disconnected_since # Never /\ SameOutage
           /\ \/ ~d'.ask /\ pending = NotPending
              \/ pending' # NotPending
  BY <1>1, <1>5, <1>6, PollKinds DEF Recovers, BeginsOutage, StaysDown, AsksFirst,
       Consents, HoldRunsOut, HearsHold, AwaitsReply, StaysHeld, AsksAgain, Quietly, SameFirst
<1>8. CASE ask_job' = ask_job
  <2>1. /\ ask_job.status # Idle /\ AskTimes
    BY <1>8 DEF AskTiming, AskTimes
  <2>2. /\ ask_job.asked <= LastPoll /\ ask_job.outage <= outage
        /\ ask_job.status = "running" => now <= ask_job.asked + AskTimeout
    BY <2>1 DEF AskTimes
  <2>3. Unheard' => ask_job.status = "running"
    BY <1>1, <1>8 DEF Unheard
  <2>4. CASE Recovers
    <3>1. Fresh /\ disconnected_since' = Never /\ outage' = outage /\ wg' = wg
      BY <2>4 DEF Recovers
    <3>2. ~Fetched => HandshakeSince
      <4>1. CASE disconnected_since = Never
        BY <2>1, <4>1 DEF AskTimes
      <4>2. CASE disconnected_since # Never /\ ask_job.outage = outage
        BY <1>2, <1>4, <2>1, <2>2, <3>1, <4>2 DEF AskTimes, NoneAtAsk
      <4>3. CASE disconnected_since # Never /\ ask_job.outage # outage
        BY <1>2, <1>4, <2>1, <3>1, <4>3 DEF AskTimes, HandshakeSince, OutageTiming
      <4> QED
        BY <4>1, <4>2, <4>3
    <3>3. HandshakeSince' <=> HandshakeSince
      BY <1>8, <3>1 DEF HandshakeSince
    <3> QED
      BY <1>1, <1>2, <1>8, <2>2, <2>3, <3>1, <3>2, <3>3 DEF AskTimes
  <2>5. CASE ~Fresh /\ BeginsOutage
    <3>1. /\ disconnected_since = Never /\ disconnected_since' = now /\ outage' = outage + 1
      BY <2>5 DEF BeginsOutage
    <3>2. LastPoll >= ask_job.asked + PollSecs /\ (~Fetched => HandshakeSince)
      BY <2>1, <3>1 DEF AskTimes
    <3>3. ~Fetched => now >= ask_job.asked + StaleSecs
      BY <1>3, <2>5, <3>2 DEF HandshakeSince
    <3> QED
      BY <1>1, <1>2, <1>8, <2>2, <2>3, <3>1, <3>2, <3>3 DEF AskTimes
  <2>6. CASE ~Fresh /\ disconnected_since # Never /\ SameOutage
    <3>1. disconnected_since' = disconnected_since /\ outage' = outage
      BY <2>6 DEF SameOutage
    <3>2. ASSUME ask_job.outage = outage
          PROVE  pending' # NotPending /\ (~Fetched => (HandshakeSince \/ NoneAtAsk)')
      <4>1. pending # NotPending /\ (~Fetched => HandshakeSince \/ NoneAtAsk)
        BY <2>1, <2>6, <3>2 DEF AskTimes
      <4>2. pending' # NotPending
        BY <1>7, <2>6, <4>1 DEF Recovers, BeginsOutage
      <4>3. ~Fetched => (HandshakeSince \/ NoneAtAsk)'
        BY <1>1, <1>8, <4>1 DEF HandshakeSince, NoneAtAsk
      <4> QED
        BY <4>2, <4>3
    <3>3. ASSUME ask_job.outage # outage
          PROVE  /\ disconnected_since >= ask_job.asked + 2 * PollSecs
                 /\ ~Fetched => disconnected_since >= ask_job.asked + StaleSecs
      BY <2>1, <2>6, <3>3 DEF AskTimes
    <3> QED
      BY <1>1, <1>2, <1>8, <2>2, <2>3, <2>6, <3>1, <3>2, <3>3 DEF AskTimes
  <2> QED
    BY <1>7, <2>4, <2>5, <2>6
<1>9. CASE ask_job' # ask_job
  <2>1. /\ d'.ask
        /\ ask_job' = [status |-> "running", asked |-> now, answer |-> "Ok",
                       outage |-> outage']
    BY <1>1, <1>9 DEF AskStep
  <2>2. /\ ask_job'.status = "running" /\ ask_job'.asked = now /\ ask_job'.outage = outage'
    BY <2>1
  <2>3. /\ ~Fresh /\ disconnected_since # Never /\ SameOutage /\ pending' # NotPending
    BY <1>7, <2>1
  <2>4. ~Fetched => NoneAtAsk'
    BY <1>1, <1>3, <2>2, <2>3 DEF NoneAtAsk
  <2>5. outage' \in Nat
    BY DEF TypeOK
  <2> QED
    BY <1>1, <2>2, <2>3, <2>4, <2>5 DEF AskTimes, SameOutage, Unheard
<1> QED
  BY <1>8, <1>9

(* Where an ask under way stands in time: in its own outage, after it, or  *)
(* in a later one.                                                         *)
LEMMA AskTimingKept == Spec => []AskTiming
<1> USE DEF None
<1>1. Init => AskTiming
  BY DEF Init, NoAsk, AskTiming, Idle
<1>2. TypeOK /\ FetchOrder /\ Asking /\ KernelFollowsConfig /\ LoopTiming /\ OutageTiming
        /\ AskTiming /\ [Next]_vars /\ TypeOK'
        => AskTiming'
  <2> SUFFICES ASSUME TypeOK, FetchOrder, Asking, KernelFollowsConfig, LoopTiming,
                      OutageTiming, AskTiming, [Next]_vars, TypeOK'
               PROVE  AskTiming'
    OBVIOUS
  <2> SUFFICES ASSUME exit' = None, ask_job'.status # Idle PROVE AskTimes'
    BY DEF AskTiming
  <2> USE AskNumbers DEF Time, Never
  <2>1. exit = None
    BY DEF Next, Collect, Poll, NotDue, FetchVersion, FetchEnd, AskEnd, Handshake, Publish, Tick,
           vars, loopVars
  <2>2. ask_job.status # Idle => AskTimes
    BY <2>1 DEF AskTiming, AskTimes
  <2>3. ASSUME UNCHANGED <<now, next_poll, disconnected_since, pending, outage>>,
               ask_job.status # Idle, ask_job'.asked = ask_job.asked,
               ask_job'.outage = ask_job.outage,
               ask_job'.status = "running" => ask_job.status = "running",
               Unheard' => Unheard,
               ~Fetched => wg' = wg
        PROVE  AskTimes'
    <3>1. LastPoll' = LastPoll
      BY <2>3 DEF LastPoll
    <3>2. ~Fetched => /\ HandshakeSince' <=> HandshakeSince
                      /\ NoneAtAsk' <=> NoneAtAsk
      BY <2>3 DEF HandshakeSince, NoneAtAsk
    <3> QED
      BY <2>2, <2>3, <3>1, <3>2 DEF AskTimes
  <2>4. CASE Collect
    <3>1. UNCHANGED <<now, next_poll, disconnected_since, pending, outage>>
      BY <2>4 DEF Collect, TakeNothing, TakeOutcome, TakeUnchanged, TakeUnavailable,
                TakeSameEntry, TakeNewEntry, TakeNewFails, TakeNotEnrolled,
                ConfigApplied, healthVars
    <3>2. ask_job' = ask_job /\ ask_job.status # "finished" /\ pc = "collect" /\ pc' = "poll"
      BY <2>4 DEF Collect, TakeReply, NoAsk
    <3>3. ~Fetched => wg' = wg
      BY <2>4 DEF Collect, TakeNothing, TakeOutcome, FetchOrder, Idle
    <3>4. Unheard' => Unheard
      BY <3>2 DEF Unheard
    <3> QED
      BY <2>3, <3>1, <3>2, <3>3, <3>4
  <2>5. CASE Poll
    BY <2>1, <2>5, AskTimingPolled
  <2>6. CASE NotDue
    <3>1. /\ UNCHANGED <<now, next_poll, disconnected_since, pending, outage, ask_job, wg>>
          /\ pc = "poll" /\ pc' = "collect"
      BY <2>6 DEF NotDue, healthVars, kernelVars
    <3>2. Unheard' => Unheard
      BY <3>1 DEF Unheard
    <3> QED
      BY <2>3, <3>1, <3>2
  <2>7. CASE FetchVersion \/ FetchEnd \/ Publish \/ UNCHANGED vars
    <3>1. UNCHANGED <<now, next_poll, disconnected_since, pending, outage, ask_job, wg, pc>>
      BY <2>7 DEF FetchVersion, FetchEnd, Publish, vars, loopVars, healthVars, kernelVars
    <3>2. Unheard' => Unheard
      BY <3>1 DEF Unheard
    <3> QED
      BY <2>3, <3>1, <3>2
  <2>8. CASE AskEnd
    <3>1. /\ UNCHANGED <<now, next_poll, disconnected_since, pending, outage, wg, pc>>
          /\ ask_job.status = "running"
      BY <2>8 DEF AskEnd, loopVars, healthVars, kernelVars
    <3>2. /\ ask_job'.asked = ask_job.asked /\ ask_job'.outage = ask_job.outage
          /\ ask_job'.status = "finished"
      BY <2>8 DEF AskEnd, TypeOK
    <3>3. Unheard' => Unheard
      BY <3>1 DEF Unheard
    <3> QED
      BY <2>3, <3>1, <3>2, <3>3 DEF Idle
  <2>9. CASE Handshake
    <3>1. UNCHANGED <<now, next_poll, disconnected_since, pending, outage, pc, ask_job>>
      BY <2>9 DEF Handshake, loopVars, healthVars
    <3>2. HandshakeSince' /\ LastPoll' = LastPoll /\ (Unheard' <=> Unheard)
      <4>1. wg'.handshake = now
        BY <2>9 DEF Handshake, TypeOK
      <4>2. ask_job.asked <= now
        BY <2>1, <2>2, <3>1 DEF AskTimes, LoopTiming, LastPoll
      <4> QED
        BY <3>1, <4>1, <4>2 DEF HandshakeSince, LastPoll, Unheard
    <3> QED
      BY <2>2, <3>1, <3>2 DEF AskTimes
  <2>10. CASE Tick
    <3>1. /\ UNCHANGED <<next_poll, disconnected_since, pending, outage, pc, ask_job, wg>>
          /\ now' = now + 1
          /\ ask_job.status = "running" => now < ask_job.asked + AskTimeout
      BY <2>10 DEF Tick, loopVars, healthVars, kernelVars
    <3>2. /\ LastPoll' = LastPoll /\ (Unheard' <=> Unheard)
          /\ HandshakeSince' <=> HandshakeSince
          /\ NoneAtAsk' <=> NoneAtAsk
      BY <3>1 DEF HandshakeSince, NoneAtAsk, LastPoll, Unheard
    <3> QED
      BY <2>2, <3>1, <3>2 DEF AskTimes
  <2> QED
    BY <2>4, <2>5, <2>6, <2>7, <2>8, <2>9, <2>10 DEF Next
<1> QED
  BY <1>1, <1>2, TypesKept, AskingKept, KernelFollows, LoopTimingKept, PTL DEF Spec

(* When an outage comes to its first ask, no ask of an earlier one is      *)
(* under way.                                                              *)
LEMMA FirstAskAlone ==
  ASSUME PromptReplies, TypeOK, LoopTiming, OutageTiming, AskTiming, Poll,
         disconnected_since # Never, AsksFirst
  PROVE  ask_job.status = Idle
<1> SUFFICES ASSUME ask_job.status # Idle PROVE FALSE
  OBVIOUS
<1>1. exit = None /\ pc = "poll"
  BY DEF Poll
<1>2. AskTimes
  BY <1>1 DEF AskTiming
<1>3. Unheard
  BY <1>1, AskNumbers DEF Unheard
<1>4. now - disconnected_since >= LimitSecs /\ pending = NotPending
  BY DEF AsksFirst
<1>5. /\ LastPoll <= ask_job.asked + AskTimeout
      /\ disconnected_since >= ask_job.asked + 2 * PollSecs
      /\ ~Fetched => disconnected_since >= ask_job.asked + StaleSecs
  BY <1>2, <1>3, <1>4 DEF AskTimes
<1>6. disconnected_since <= LastPoll /\ now <= LastPoll + PollSecs + MaxLag
      /\ LastPoll = next_poll - PollSecs
  BY <1>1, AskNumbers DEF LoopTiming, OutageTiming, LastPoll
<1> QED
  BY <1>4, <1>5, <1>6, AskNumbers DEF PromptReplies, Time, Never

(* The replies the health machine waits for are those of its own outage:   *)
(* while held there is none to come, and after an ask only that one.       *)
LEMMA OwedKept == PromptReplies /\ Spec => []Owed
<1> SUFFICES ASSUME PromptReplies PROVE Spec => []Owed
  OBVIOUS
<1> USE DEF None
<1>1. Init => Owed
  BY DEF Init, HealthNew, Owed, NoAsk
<1>2. TypeOK /\ Asking /\ LoopTiming /\ OutageTiming /\ AskTiming /\ Owed
        /\ [Next]_vars /\ TypeOK'
        => Owed'
  <2> SUFFICES ASSUME TypeOK, Asking, LoopTiming, OutageTiming, AskTiming, Owed,
                      [Next]_vars, TypeOK', exit' = None
               PROVE  Owed'
    BY DEF Owed
  <2>1. exit = None
    BY DEF Next, Collect, Poll, NotDue, FetchVersion, FetchEnd, AskEnd, Handshake, Publish, Tick,
           vars, loopVars
  <2>2. /\ ask_job.status = Idle \/ reply = NoReply
        /\ pending # NotPending =>
             /\ ~pending.outstanding => ask_job.status = Idle /\ reply = NoReply
             /\ ask_job.status # Idle => ask_job.outage = outage
             /\ reply # NoReply => reply_outage = outage
    BY <2>1 DEF Owed
  <2>3. CASE Collect
    <3>1. UNCHANGED <<pending, outage>>
      BY <2>3 DEF Collect, TakeNothing, TakeOutcome, TakeUnchanged, TakeUnavailable,
                TakeSameEntry, TakeNewEntry, TakeNewFails, TakeNotEnrolled,
                ConfigApplied, healthVars
    <3>2. CASE ask_job.status = "finished"
      <4>1. ask_job' = NoAsk /\ reply_outage' = ask_job.outage
        BY <2>3, <3>2 DEF Collect, TakeReply
      <4>2. ask_job'.status = Idle
        BY <4>1 DEF NoAsk
      <4> QED
        BY <2>2, <3>1, <3>2, <4>1, <4>2 DEF Owed, Idle
    <3>3. CASE ask_job.status # "finished"
      <4>1. UNCHANGED <<ask_job, reply, reply_outage>>
        BY <2>3, <3>3 DEF Collect, TakeReply
      <4> QED
        BY <2>2, <3>1, <4>1 DEF Owed
    <3> QED
      BY <3>2, <3>3
  <2>4. CASE Poll
    <3>1. Assess /\ AskStep /\ reply' = NoReply /\ d'.give_up = "No"
      BY <2>4, SurvivedPoll
    <3>2. ~d'.ask => ask_job' = ask_job
      BY <3>1 DEF AskStep
    <3>3. d'.ask /\ ask_job.status = Idle => ask_job'.status # Idle /\ ask_job'.outage = outage'
      BY <3>1 DEF AskStep, Idle
    <3>4. CASE Recovers \/ BeginsOutage \/ StaysDown
      BY <3>1, <3>4 DEF Recovers, BeginsOutage, StaysDown, Owed
    <3>5. CASE disconnected_since # Never /\ AsksFirst
      <4>1. ask_job.status = Idle
        BY <2>4, <3>5, FirstAskAlone
      <4> QED
        BY <3>1, <3>3, <3>5, <4>1 DEF AsksFirst, Owed
    <3>6. CASE HearsHold
      <4>1. ask_job.status = Idle
        BY <2>2, <3>6 DEF HearsHold, NoReply
      <4> QED
        BY <3>1, <3>2, <3>6, <4>1 DEF HearsHold, Quietly, Owed
    <3>7. CASE AwaitsReply \/ StaysHeld
      BY <2>2, <3>1, <3>2, <3>7 DEF AwaitsReply, StaysHeld, Quietly, SameOutage, SameFirst, Owed
    <3>8. CASE AsksAgain
      <4>1. ask_job.status = Idle
        BY <2>2, <3>8 DEF AsksAgain, SameFirst
      <4> QED
        BY <3>1, <3>3, <3>8, <4>1 DEF AsksAgain, Owed
    <3> QED
      BY <2>4, <3>1, <3>4, <3>5, <3>6, <3>7, <3>8, PollKinds DEF Consents, HoldRunsOut
  <2>5. CASE AskEnd
    <3>1. UNCHANGED <<pending, outage, reply, reply_outage>> /\ ask_job.status = "running"
      BY <2>5 DEF AskEnd, loopVars, healthVars
    <3>2. ask_job'.outage = ask_job.outage /\ ask_job'.status = "finished"
      BY <2>5 DEF AskEnd, TypeOK
    <3> QED
      BY <2>2, <3>1, <3>2 DEF Owed, Idle
  <2>6. CASE NotDue \/ FetchVersion \/ FetchEnd \/ Handshake \/ Publish \/ Tick
               \/ UNCHANGED vars
    <3>1. UNCHANGED <<pending, outage, reply, reply_outage, ask_job>>
      BY <2>6 DEF NotDue, FetchVersion, FetchEnd, Handshake, Publish, Tick, vars, loopVars,
                  healthVars
    <3> QED
      BY <2>2, <3>1 DEF Owed
  <2> QED
    BY <2>3, <2>4, <2>5, <2>6 DEF Next
<1> QED
  BY <1>1, <1>2, TypesKept, AskingKept, LoopTimingKept, AskTimingKept, PTL DEF Spec

(* The phase of the shutdown, read off the run's end, the outage and the   *)
(* pending shutdown: an ask the machine waits for is one of this outage.   *)
Phases ==
  /\ exit = "GiveUp" => ShutdownPhase = "over"
  /\ exit \in {"Broken", "Removed"} => ShutdownPhase = "aborted"
  /\ exit = None /\ disconnected_since = Never => ShutdownPhase = "up"
  /\ exit = None /\ disconnected_since # Never =>
       ShutdownPhase = IF pending = NotPending THEN "down"
                       ELSE IF pending.outstanding THEN "asked" ELSE "held"

LEMMA PhasesKnown == PromptReplies /\ Spec => []Phases
<1> SUFFICES ASSUME PromptReplies PROVE Spec => []Phases
  OBVIOUS
<1>1. TypeOK /\ Asking /\ Owed => Phases
  <2> SUFFICES ASSUME TypeOK, Asking, Owed PROVE Phases
    OBVIOUS
  <2> USE DEF None
  <2>1. CASE exit # None
    BY <2>1 DEF Phases, ShutdownPhase, TypeOK
  <2>2. CASE exit = None /\ disconnected_since = Never
    BY <2>2 DEF Phases, ShutdownPhase
  <2>3. CASE exit = None /\ disconnected_since # Never /\ pending = NotPending
    <3>1. ShutdownPhase = "down"
      BY <2>3 DEF ShutdownPhase
    <3> QED
      BY <2>3, <3>1 DEF Phases
  <2>4. CASE exit = None /\ disconnected_since # Never /\ pending # NotPending
             /\ ~pending.outstanding
    <3>1. ShutdownPhase = "held"
      BY <2>4 DEF ShutdownPhase
    <3> QED
      BY <2>4, <3>1 DEF Phases
  <2>5. CASE exit = None /\ disconnected_since # Never /\ pending # NotPending
             /\ pending.outstanding
    <3>1. Answerable
      BY <2>5 DEF Asking, AskNeverOrphaned, Owed, Answerable
    <3>2. ShutdownPhase = "asked"
      BY <2>5, <3>1 DEF ShutdownPhase
    <3> QED
      BY <2>5, <3>2 DEF Phases
  <2> QED
    BY <2>1, <2>2, <2>3, <2>4, <2>5
<1> QED
  BY <1>1, TypesKept, AskingKept, OwedKept, PTL

(* A run is given up only after the tunnel was down for the whole limit    *)
(* and the app was asked in that same outage, on its consent to that ask   *)
(* or at the hold limit; a held app is left alone for the interval         *)
(* (health.rs poll, supervisor.rs ask_job and reply).                      *)
THEOREM PromiseKept == PromptReplies /\ Spec => ShutdownPromise
<1> SUFFICES ASSUME PromptReplies PROVE Spec => ShutdownPromise
  OBVIOUS
<1> USE DEF None, Never, Promise!Never
<1>1. Init /\ Phases => Promise!Init
  BY DEF Init, HealthNew, Phases, NotPending, Promise!Init
<1>2. TypeOK /\ Asking /\ Owed /\ Phases /\ [Next]_vars /\ TypeOK' /\ Phases'
        => [Promise!Next]_Promise!vars
  <2> SUFFICES ASSUME TypeOK, Asking, Owed, Phases, [Next]_vars, TypeOK', Phases'
               PROVE  [Promise!Next]_Promise!vars
    OBVIOUS
  <2>1. ASSUME UNCHANGED <<now, exit, disconnected_since, pending>>
        PROVE  UNCHANGED Promise!vars
    <3>1. ShutdownPhase' = ShutdownPhase
      BY <2>1 DEF Phases, TypeOK
    <3> QED
      BY <2>1, <3>1 DEF Promise!vars
  <2>2. exit = None => ShutdownPhase \in Promise!Alive
    BY DEF Phases, Promise!Alive
  <2>3. ASSUME exit = None, exit' \in {"Broken", "Removed"}, now' = now
        PROVE  Promise!Abort
    BY <2>2, <2>3 DEF Phases, Promise!Abort
  <2>4. CASE Collect
    <3>1. exit = None /\ now' = now /\ UNCHANGED <<disconnected_since, pending>>
          /\ exit' \in {None, "Broken", "Removed"}
      BY <2>4 DEF Collect, TakeNothing, TakeOutcome, TakeUnchanged, TakeUnavailable,
                TakeSameEntry, TakeNewEntry, TakeNewFails, TakeNotEnrolled,
                ConfigApplied, healthVars
    <3> QED
      BY <2>1, <2>3, <3>1 DEF Promise!Next
  <2>5. CASE Poll /\ exit' = "Broken"
    BY <2>3, <2>5 DEF Poll, Promise!Next
  <2>6. CASE Poll /\ exit' # "Broken"
    <3>1. /\ Assess /\ exit = None /\ now' = now /\ now \in Nat
          /\ exit' = IF d'.give_up = "No" THEN None ELSE "GiveUp"
      BY <2>6, AskNumbers DEF Poll, Assess, ShowFails, ReUpFails
    <3>2. pending = NotPending => pending.first_ask = Never
      BY DEF NotPending
    <3>3. pending # NotPending => disconnected_since # Never /\ ~Tolerate
                                  /\ now - disconnected_since >= LimitSecs
      BY DEF Asking
    <3>4. CASE Recovers
      <4>1. exit' = None /\ disconnected_since' = Never /\ pending'.first_ask = Never
        BY <3>1, <3>4 DEF Recovers, Quietly, NotPending
      <4> QED
        BY <2>2, <3>1, <4>1 DEF Phases, Promise!Recover, Promise!Next
    <3>5. CASE BeginsOutage
      <4>1. exit' = None /\ disconnected_since = Never /\ disconnected_since' = now
            /\ pending' = pending /\ pending = NotPending
        BY <3>1, <3>5 DEF BeginsOutage, Quietly
      <4>2. ShutdownPhase = "up" /\ ShutdownPhase' = "down"
        BY <3>1, <4>1 DEF Phases
      <4> QED
        BY <3>1, <4>1, <4>2 DEF Promise!Lose, Promise!Next
    <3>6. CASE disconnected_since # Never /\ StaysDown
      <4>1. UNCHANGED <<now, exit, disconnected_since, pending>>
        BY <3>1, <3>6 DEF StaysDown, Quietly, SameOutage
      <4> QED
        BY <2>1, <4>1
    <3>7. CASE disconnected_since # Never /\ AsksFirst
      <4>1. exit' = None /\ disconnected_since' = disconnected_since /\ pending = NotPending
            /\ pending' # NotPending /\ pending'.outstanding /\ pending'.first_ask = now
            /\ now - disconnected_since >= LimitSecs
        BY <3>1, <3>7 DEF AsksFirst, SameOutage
      <4>2. ShutdownPhase = "down" /\ ShutdownPhase' = "asked"
        BY <3>1, <3>7, <4>1 DEF Phases
      <4> QED
        BY <3>1, <4>1, <4>2 DEF Promise!Ask, Promise!Next
    <3>8. CASE SameFirst /\ SameOutage
      <4>1. /\ pending # NotPending /\ pending'.first_ask = pending.first_ask
            /\ disconnected_since' = disconnected_since /\ disconnected_since # Never
            /\ pending' # NotPending
        BY <3>3, <3>8 DEF SameFirst, SameOutage, Asking, NotPending
      <4>2. ShutdownPhase = IF pending.outstanding THEN "asked" ELSE "held"
        BY <3>1, <4>1 DEF Phases
      <4>3. exit' = None => ShutdownPhase' = IF pending'.outstanding THEN "asked" ELSE "held"
        BY <4>1 DEF Phases
      <4>4. exit' = "GiveUp" => ShutdownPhase' = "over"
        BY DEF Phases
      <4>5. ~pending.outstanding => reply = NoReply
        BY <3>1, <4>1 DEF Owed
      <4>6. CASE Consents
        <5>1. exit' = "GiveUp" /\ pending.outstanding
          BY <3>1, <4>5, <4>6 DEF Consents, NoReply
        <5> QED
          BY <3>1, <4>1, <4>2, <4>4, <5>1 DEF Promise!Consent, Promise!Next
      <4>7. CASE HoldRunsOut
        <5>1. exit' = "GiveUp" /\ HoldLimitSecs > 0 /\ now - pending.first_ask >= HoldLimitSecs
          BY <3>1, <4>7 DEF HoldRunsOut
        <5> QED
          BY <3>1, <4>1, <4>2, <4>4, <5>1 DEF Promise!HoldLimitOut, Promise!Next
      <4>8. CASE HearsHold
        <5>1. exit' = None /\ pending.outstanding /\ ~pending'.outstanding
              /\ pending'.next_ask = now + AskInterval
          BY <3>1, <4>5, <4>8 DEF HearsHold, Quietly, NoReply
        <5> QED
          BY <3>1, <4>1, <4>2, <4>3, <5>1 DEF Promise!Hold, Promise!Next
      <4>9. CASE AwaitsReply
        <5>1. exit' = None /\ pending.outstanding /\ pending'.outstanding
          BY <3>1, <4>9 DEF AwaitsReply, Quietly
        <5> QED
          BY <3>1, <4>1, <4>2, <4>3, <5>1 DEF Promise!vars
      <4>10. CASE StaysHeld
        <5>1. exit' = None /\ ~pending.outstanding /\ ~pending'.outstanding
              /\ pending'.next_ask = pending.next_ask
          BY <3>1, <4>10 DEF StaysHeld, Quietly
        <5> QED
          BY <3>1, <4>1, <4>2, <4>3, <5>1 DEF Promise!vars
      <4>11. CASE AsksAgain
        <5>1. exit' = None /\ ~pending.outstanding /\ pending'.outstanding
              /\ now >= pending.next_ask
          BY <3>1, <4>11 DEF AsksAgain
        <5> QED
          BY <3>1, <4>1, <4>2, <4>3, <5>1 DEF Promise!Ask, Promise!Next
      <4> QED
        BY <2>6, <3>1, <3>8, <4>1, <4>6, <4>7, <4>8, <4>9, <4>10, <4>11, PollKinds
        DEF Recovers, BeginsOutage, StaysDown, AsksFirst
    <3> QED
      BY <2>6, <3>1, <3>4, <3>5, <3>6, <3>7, <3>8, PollKinds
      DEF Consents, HoldRunsOut, HearsHold, AwaitsReply, StaysHeld, AsksAgain
  <2>7. CASE Tick
    <3>1. exit = None /\ UNCHANGED <<exit, disconnected_since, pending>> /\ now' = now + 1
      BY <2>7 DEF Tick, loopVars, healthVars
    <3>2. ShutdownPhase' = ShutdownPhase
      BY <3>1 DEF Phases
    <3> QED
      BY <2>2, <3>1, <3>2 DEF Promise!Tick, Promise!Next
  <2>8. CASE NotDue \/ FetchVersion \/ FetchEnd \/ AskEnd \/ Handshake \/ Publish
               \/ UNCHANGED vars
    <3>1. UNCHANGED <<now, exit, disconnected_since, pending>>
      BY <2>8 DEF NotDue, FetchVersion, FetchEnd, AskEnd, Handshake, Publish, vars, loopVars,
                  healthVars
    <3> QED
      BY <2>1, <3>1
  <2> QED
    BY <2>4, <2>5, <2>6, <2>7, <2>8 DEF Next
<1> QED
  BY <1>1, <1>2, TypesKept, AskingKept, OwedKept, PhasesKnown, PTL
  DEF Spec, ShutdownPromise, Promise!Spec

(* The consent that ends a run answers an ask of the outage it ends        *)
(* (health.rs:344, supervisor.rs ask_job).                                 *)
THEOREM ConsentOfItsOutage == PromptReplies /\ Spec => ConsentOfThisOutage
<1> SUFFICES ASSUME PromptReplies PROVE Spec => ConsentOfThisOutage
  OBVIOUS
<1>1. TypeOK /\ Asking /\ Owed /\ [Next]_vars
        => [exit' = "GiveUp" /\ d'.give_up = "Consent" => reply_outage = outage]_vars
  <2> SUFFICES ASSUME TypeOK, Asking, Owed, Next, exit' = "GiveUp", d'.give_up = "Consent"
               PROVE  reply_outage = outage
    OBVIOUS
  <2>1. Poll /\ Assess /\ exit = None
    BY DEF Next, Collect, TakeNothing, TakeOutcome, TakeUnchanged, TakeUnavailable,
           TakeSameEntry, TakeNewEntry, TakeNewFails, TakeNotEnrolled, Poll, ShowFails, NotDue,
           FetchVersion, FetchEnd, AskEnd, Handshake, Publish, Tick, loopVars, None
  <2>2. Consents
    BY <2>1, PollKinds DEF Recovers, BeginsOutage, StaysDown, AsksFirst, HoldRunsOut, HearsHold,
         AwaitsReply, StaysHeld, AsksAgain, Quietly
  <2> QED
    BY <2>1, <2>2 DEF Consents, SameFirst, Owed, NoReply
<1> QED
  BY <1>1, TypesKept, AskingKept, OwedKept, PTL DEF Spec, ConsentOfThisOutage
=============================================================================
