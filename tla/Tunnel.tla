------------------------------- MODULE Tunnel -------------------------------
(***************************************************************************)
(* The tunnel side of the supervisor's loop: TunnelState of                *)
(* src/supervisor.rs driving the Health machine, its two worker threads    *)
(* (a fetch and a consent ask, at most one of each) and what they touch:   *)
(* the kernel's wg0, the hub's releases, the app that answers.             *)
(*                                                                         *)
(* An iteration of the loop is Collect, then a poll if one is due.  The    *)
(* loop waits in front of Collect.  Threads finish, the hub publishes and  *)
(* handshakes happen between any two steps.  Time passes one unit at a     *)
(* time and never passes a deadline the code sets; MaxLag is how long an   *)
(* iteration's shell-outs may keep the loop away from a poll that is due.  *)
(*                                                                         *)
(* outage, reply_outage, the outage of ask_job, published and contact are  *)
(* history: no guard reads them.                                           *)
(***************************************************************************)
EXTENDS Health

CONSTANTS
  PollSecs,         \* WG_POLL_SECS
  MaxLag,           \* a due poll starts at most this late
  StaleSecs,        \* WG_STALE_SECS
  VersionPollSecs,  \* WG_VERSION_POLL_SECS
  AskTimeout,       \* the longest a consent ask takes
  FetchTimeout,     \* the longest a fetch takes
  AppMayHold,       \* whether this app ever answers hold
  FetchMayFail,     \* whether the version endpoint or the release may be out of reach
  HubMayRollBack,   \* whether the hub may report an older release than before
  DiskMayFail,      \* whether a heartbeat or cache write may fail
  Entries,          \* the effective configurations of this spoke
  MaxReleases,      \* bound: how many releases the hub publishes
  Horizon           \* bound: the last time the clock shows

ASSUME TunnelAssumption ==
  /\ PollSecs \in Nat \ {0}
  /\ MaxLag \in Nat
  /\ StaleSecs \in Nat \ {0}
  /\ VersionPollSecs \in Nat \ {0}
  /\ AskTimeout \in Nat
  /\ FetchTimeout \in Nat
  /\ AppMayHold \in BOOLEAN
  /\ FetchMayFail \in BOOLEAN
  /\ HubMayRollBack \in BOOLEAN
  /\ DiskMayFail \in BOOLEAN
  /\ \A e \in Entries : e.hub # "None" /\ e.endpoint # "None"
  /\ MaxReleases \in Nat
  /\ Horizon \in Nat

VARIABLES
  pc,                  \* what the loop's thread does next
  exit,                \* the Exit the tunnel ended the run with, or "None"
  next_poll,
  applied,             \* the applied configuration: release and entry
  endpoint_ok,
  unconfigured,        \* the reason while nothing is applied
  fetch_job,
  ask_job,
  reply,               \* the reply collected since the latest poll
  next_version_check,
  cache,               \* the release cached for the next boot, 0 for none
  tunnel_beat,         \* the time in the tunnel's heartbeat file, or Never
  wg,                  \* wg0 in the kernel: its peer, endpoint, latest handshake
  release,             \* what each release of the hub says of this spoke
  newest,              \* the release the version endpoint reports
  outage,              \* history: outages begun
  reply_outage,        \* history: the outage whose ask `reply` answers
  published,           \* history: when the newest release appeared
  contact              \* history: the latest handshake of all

configVars == <<applied, endpoint_ok, unconfigured, cache>>
hubVars == <<release, newest, published>>
kernelVars == <<wg, contact>>

(* What no other thread than the loop's writes                             *)
loopVars == <<healthVars, pc, exit, next_poll, configVars, reply,
              reply_outage, next_version_check, tunnel_beat, outage>>

vars == <<now, loopVars, fetch_job, ask_job, kernelVars, hubVars>>

None == "None"
Absent == [hub |-> None, endpoint |-> None, net |-> None]
Release == 0..MaxReleases
NoConfig == [tag |-> 0, entry |-> Absent]
NoPeer == [hub |-> None, endpoint |-> None, handshake |-> Never]
Idle == "idle"
NoFetch == [status |-> Idle, have |-> 0, tag |-> 0, started |-> 0, outcome |-> None]
NoAsk == [status |-> Idle, asked |-> 0, answer |-> "Ok", outage |-> 0]

Outcome == {"Unchanged", "New", "NotEnrolled", "Unavailable", "Panicked"}
Hubs == {e.hub : e \in Entries}
Endpoints == {e.endpoint : e \in Entries}

TypeOK ==
  /\ HealthTypeOK
  /\ pc \in {"collect", "poll"}
  /\ exit \in {None, "Broken", "GiveUp", "Removed"}
  /\ next_poll \in Nat
  /\ applied \in [tag : Release, entry : Entries] \cup {NoConfig}
  /\ endpoint_ok \in BOOLEAN
  /\ unconfigured \in Unconfigured
  /\ fetch_job \in [status : {Idle, "running", "pinned", "finished"},
                    have : Release, tag : Release, started : Nat,
                    outcome : Outcome \cup {None}]
  /\ ask_job \in [status : {Idle, "running", "finished"}, asked : Nat,
                  answer : Reply, outage : Nat]
  /\ reply \in Reply \cup {NoReply}
  /\ reply_outage \in Nat
  /\ next_version_check \in Nat
  /\ cache \in Release
  /\ tunnel_beat \in Time
  /\ wg \in [hub : Hubs \cup {None}, endpoint : Endpoints \cup {None},
             handshake : Time]
  /\ release \in [1..MaxReleases -> Entries \cup {Absent}]
  /\ newest \in Release
  /\ outage \in Nat
  /\ published \in Nat
  /\ contact \in Time

-----------------------------------------------------------------------------
(* The tunnel as the boot left it.  Without the switch the boot applied a  *)
(* configuration and its endpoint; the handshake it saw may be stale by    *)
(* now, the startup scripts having no timeout.                             *)
Reported == IF HubMayRollBack THEN 1..MaxReleases ELSE 1..newest

BootConfigured ==
  /\ applied \in IF Fetched
                 THEN {[tag |-> t, entry |-> release[t]] :
                         t \in {r \in Reported : release[r] # Absent}}
                 ELSE [tag : {0}, entry : Entries]
  /\ endpoint_ok \in BOOLEAN
  /\ endpoint_ok \/ Tolerate
  /\ wg \in [hub : {applied.entry.hub},
             endpoint : {IF endpoint_ok THEN applied.entry.endpoint ELSE None},
             handshake : {0, Never}]
  /\ cache \in IF HubMayRollBack THEN Release ELSE 0..applied.tag

BootUnconfigured ==
  /\ Tolerate /\ Fetched
  /\ applied = NoConfig
  /\ endpoint_ok = TRUE
  /\ wg = NoPeer
  /\ cache \in Reported \cup {0}

Init ==
  /\ now = 0
  /\ HealthNew
  /\ release \in [1..MaxReleases -> Entries \cup {Absent}]
  /\ newest \in IF Fetched THEN 1..MaxReleases ELSE {0}
  /\ BootConfigured \/ BootUnconfigured
  /\ unconfigured \in IF applied = NoConfig THEN Unconfigured ELSE {"ConfigUnavailable"}
  /\ pc = "collect" /\ exit = None /\ next_poll = 0
  /\ fetch_job = NoFetch /\ ask_job = NoAsk
  /\ reply = NoReply /\ reply_outage = 0
  /\ next_version_check = VersionPollSecs
  /\ tunnel_beat = Never
  /\ contact = wg.handshake
  /\ outage = 0 /\ published = 0

-----------------------------------------------------------------------------
(* The outcomes of collect.  CacheWrite is atomic and best effort.         *)
CacheWrite(tag) ==
  \/ cache' = tag
  \/ DiskMayFail /\ cache' = cache

TakeNothing ==
  /\ fetch_job.status # "finished"
  /\ UNCHANGED <<fetch_job, configVars, wg, exit, healthVars>>

(* A version check that found nothing new, and a panicked thread, only log *)
TakeUnchanged ==
  /\ fetch_job.outcome \in {"Unchanged", "Panicked"}
  /\ UNCHANGED <<configVars, wg, exit, healthVars>>

(* MUTANT of TakeUnavailable: falls back to the cache, as the boot does.   *)
TakeUnavailableFromCache ==
  /\ fetch_job.outcome = "Unavailable"
  /\ applied' = IF cache # 0 /\ release[cache] # Absent
                THEN [tag |-> cache, entry |-> release[cache]] ELSE applied
  /\ UNCHANGED <<unconfigured, endpoint_ok, cache, wg, exit, healthVars>>

TakeUnavailable ==
  /\ fetch_job.outcome = "Unavailable"
  /\ unconfigured' = IF applied = NoConfig THEN "ConfigUnavailable" ELSE unconfigured
  /\ UNCHANGED <<applied, endpoint_ok, cache, wg, exit, healthVars>>

Fetch == [tag |-> fetch_job.tag, entry |-> release[fetch_job.tag]]

(* A release that changes nothing for this spoke moves the tag alone       *)
TakeSameEntry ==
  /\ fetch_job.outcome = "New"
  /\ CacheWrite(fetch_job.tag)
  /\ applied # NoConfig
  /\ applied.entry = Fetch.entry
  /\ applied' = Fetch
  /\ UNCHANGED <<endpoint_ok, unconfigured, wg, exit, healthVars>>

(* Whether the apply or the in-place re-apply ends with the endpoint       *)
(* command, the only one that resolves a name.                             *)
KeyChanged(new) == applied = NoConfig \/ applied.entry.hub # new.hub
(* MUTANT of EndpointCommand: a failed resolution is not retried.          *)
EndpointCommandOnChange(new) ==
  KeyChanged(new) \/ applied.entry.endpoint # new.endpoint

EndpointCommand(new) ==
  KeyChanged(new) \/ applied.entry.endpoint # new.endpoint \/ ~endpoint_ok

(* wg0 after the commands: a new peer starts with no endpoint and no       *)
(* handshake; a failed resolution leaves the endpoint that was there.      *)
Reconfigured(new, resolved) ==
  LET peer == IF KeyChanged(new)
              THEN [NoPeer EXCEPT !.hub = new.hub] ELSE wg
  IN  IF EndpointCommand(new) /\ resolved
      THEN [peer EXCEPT !.endpoint = new.endpoint] ELSE peer

TakeNewEntry ==
  /\ fetch_job.outcome = "New"
  /\ CacheWrite(fetch_job.tag)
  /\ applied = NoConfig \/ applied.entry # Fetch.entry
  /\ \E resolved \in IF EndpointCommand(Fetch.entry) THEN BOOLEAN ELSE {TRUE} :
       /\ wg' = Reconfigured(Fetch.entry, resolved)
       /\ endpoint_ok' = resolved
  /\ applied' = Fetch
  /\ ConfigApplied
  /\ UNCHANGED <<unconfigured, exit>>

(* A local command of the apply fails: Broken, nothing recorded.           *)
TakeNewFails ==
  /\ fetch_job.outcome = "New"
  /\ CacheWrite(fetch_job.tag)
  /\ applied = NoConfig \/ applied.entry # Fetch.entry
  /\ exit' = "Broken"
  /\ UNCHANGED <<applied, endpoint_ok, unconfigured, wg, healthVars>>

TakeNotEnrolled ==
  /\ fetch_job.outcome = "NotEnrolled"
  /\ CacheWrite(fetch_job.tag)
  /\ IF applied = NoConfig
     THEN unconfigured' = "NotEnrolled" /\ UNCHANGED exit
     ELSE exit' = "Removed" /\ UNCHANGED unconfigured
  /\ UNCHANGED <<applied, endpoint_ok, wg, healthVars>>

(* MUTANT of TakeOutcome: the next fetch starts before the outcome of this *)
(* one is applied.                                                         *)
TakeOutcomeRefetches ==
  /\ fetch_job.status = "finished"
  /\ fetch_job' = [NoFetch EXCEPT !.status = "running", !.have = applied.tag,
                                  !.started = now]
  /\ \/ TakeUnchanged
     \/ TakeUnavailable
     \/ TakeSameEntry
     \/ TakeNewEntry
     \/ TakeNewFails
     \/ TakeNotEnrolled

TakeOutcome ==
  /\ fetch_job.status = "finished"
  /\ fetch_job' = NoFetch
  /\ \/ TakeUnchanged
     \/ TakeUnavailable
     \/ TakeSameEntry
     \/ TakeNewEntry
     \/ TakeNewFails
     \/ TakeNotEnrolled

(* An exit returns before the ask is looked at.                            *)
TakeReply ==
  IF exit' = None /\ ask_job.status = "finished"
  THEN /\ reply' = ask_job.answer
       /\ reply_outage' = ask_job.outage
       /\ ask_job' = NoAsk
  ELSE UNCHANGED <<ask_job, reply, reply_outage>>

(* TunnelState::collect                                                    *)
Collect ==
  /\ pc = "collect" /\ exit = None
  /\ TakeNothing \/ TakeOutcome
  /\ TakeReply
  /\ pc' = "poll"
  /\ UNCHANGED <<now, next_poll, next_version_check, tunnel_beat, contact,
                 hubVars, outage>>

-----------------------------------------------------------------------------
Observation ==
  IF applied = NoConfig THEN unconfigured
  ELSE IF endpoint_ok THEN "EndpointOk" ELSE "EndpointFailed"

Fresh ==
  /\ applied # NoConfig
  /\ wg.hub = applied.entry.hub
  /\ wg.handshake # Never
  /\ now - wg.handshake < StaleSecs

(* start_fetch: one attempt at a time, told the tag applied now.           *)
StartFetch ==
  IF Fetched /\ fetch_job.status = Idle
  THEN [NoFetch EXCEPT !.status = "running", !.have = applied.tag, !.started = now]
  ELSE fetch_job

VersionCheckDue ==
  d'.state = "Connected" /\ Fetched /\ now >= next_version_check

(* MUTANT of FetchStep: every Connected poll puts the version check off.   *)
FetchStepPutsOff ==
  /\ next_version_check' =
       IF d'.state = "Connected" THEN now + VersionPollSecs ELSE next_version_check
  /\ fetch_job' = IF d'.repair = "Obtain" \/ d'.check_version \/ VersionCheckDue
                  THEN StartFetch ELSE fetch_job

FetchStep ==
  /\ next_version_check' =
       IF VersionCheckDue THEN now + VersionPollSecs ELSE next_version_check
  /\ fetch_job' = IF d'.repair = "Obtain" \/ d'.check_version \/ VersionCheckDue
                  THEN StartFetch ELSE fetch_job

AskStep ==
  ask_job' = IF d'.ask /\ ask_job.status = Idle
             THEN [status |-> "running", asked |-> now, answer |-> "Ok",
                   outage |-> outage']
             ELSE ask_job

(* The two re-ups, and their classification; only wg0's down and up has    *)
(* local commands.                                                         *)
ReUp ==
  \E resolved \in BOOLEAN :
    /\ d'.repair \in ReUps
    /\ endpoint_ok' = resolved
    /\ wg' = LET peer == IF d'.repair = "DownUp"
                         THEN [NoPeer EXCEPT !.hub = applied.entry.hub] ELSE wg
             IN  IF resolved
                 THEN [peer EXCEPT !.endpoint = applied.entry.endpoint] ELSE peer

NoReUp ==
  /\ d'.repair \notin ReUps
  /\ UNCHANGED <<endpoint_ok, wg>>

(* A local command of the down and up fails: Broken, before any fetch, ask *)
(* or give-up of this poll.                                                *)
ReUpFails ==
  /\ d'.repair = "DownUp"
  /\ exit' = "Broken"
  /\ UNCHANGED <<endpoint_ok, wg, fetch_job, next_version_check, ask_job>>

(* MUTANT of BeatStep: every poll writes the heartbeat.                    *)
BeatStepAlways == tunnel_beat' = now

(* heartbeat::write of the tunnel's file, best effort                      *)
BeatStep ==
  \/ Fresh /\ tunnel_beat' = now
  \/ (Fresh => DiskMayFail) /\ tunnel_beat' = tunnel_beat

Assess ==
  /\ HealthPoll(Observation, Fresh, reply)
  /\ reply' = NoReply
  /\ outage' = IF disconnected_since = Never /\ ~Fresh THEN outage + 1 ELSE outage
  /\ BeatStep
  /\ \/ ReUpFails
     \/ /\ ReUp \/ NoReUp
        /\ FetchStep
        /\ AskStep
        /\ exit' = IF d'.give_up = "No" THEN None ELSE "GiveUp"

(* `wg show` fails: Broken, before the health machine sees this poll.      *)
ShowFails ==
  /\ applied # NoConfig
  /\ exit' = "Broken"
  /\ UNCHANGED <<healthVars, reply, outage, tunnel_beat, endpoint_ok, wg,
                 fetch_job, next_version_check, ask_job>>

(* TunnelState::poll, when the loop finds it due                           *)
Poll ==
  /\ pc = "poll" /\ exit = None
  /\ now >= next_poll
  /\ next_poll' = now + PollSecs
  /\ pc' = "collect"
  /\ Assess \/ ShowFails
  /\ UNCHANGED <<now, applied, unconfigured, cache, reply_outage, contact, hubVars>>

NotDue ==
  /\ pc = "poll" /\ exit = None
  /\ now < next_poll
  /\ pc' = "collect"
  /\ UNCHANGED <<now, healthVars, exit, next_poll, configVars, fetch_job,
                 ask_job, reply, reply_outage, next_version_check, tunnel_beat,
                 kernelVars, hubVars, outage>>

-----------------------------------------------------------------------------
(* fetch::obtain on its thread: the version first, then that release.      *)
FetchVersion ==
  /\ fetch_job.status = "running" /\ exit = None
  /\ fetch_job' = [fetch_job EXCEPT !.status = "pinned", !.tag = newest]
  /\ UNCHANGED <<now, loopVars, ask_job, kernelVars, hubVars>>

(* MUTANT of ObtainOutcome: only a newer release is a change.              *)
ObtainOutcomeNewer ==
  IF fetch_job.tag <= fetch_job.have THEN "Unchanged"
  ELSE IF release[fetch_job.tag] = Absent THEN "NotEnrolled" ELSE "New"

ObtainOutcome ==
  IF fetch_job.tag = fetch_job.have THEN "Unchanged"
  ELSE IF release[fetch_job.tag] = Absent THEN "NotEnrolled" ELSE "New"

FetchEnd ==
  /\ exit = None
  /\ \/ /\ fetch_job.status = "pinned"
        /\ fetch_job' = [fetch_job EXCEPT !.status = "finished", !.outcome = ObtainOutcome]
     \/ /\ fetch_job.status \in {"running", "pinned"}
        /\ FetchMayFail
        /\ \E o \in {"Unavailable", "Panicked"} :
             fetch_job' = [fetch_job EXCEPT !.status = "finished", !.outcome = o]
  /\ UNCHANGED <<now, loopVars, ask_job, kernelVars, hubVars>>

(* consent::ask on its thread: a timeout or any failure is Ok.             *)
AskEnd ==
  /\ ask_job.status = "running" /\ exit = None
  /\ \E answer \in IF AppMayHold THEN Reply ELSE {"Ok"} :
       ask_job' = [ask_job EXCEPT !.status = "finished", !.answer = answer]
  /\ UNCHANGED <<now, loopVars, fetch_job, kernelVars, hubVars>>

(* The kernel completes a handshake with the peer it has.                  *)
Handshake ==
  /\ wg.hub # None /\ exit = None
  /\ wg' = [wg EXCEPT !.handshake = now]
  /\ contact' = now
  /\ UNCHANGED <<now, loopVars, fetch_job, ask_job, hubVars>>

(* The hub's version endpoint moves on to the next release, or to any      *)
(* other.                                                                  *)
Publish ==
  /\ Fetched /\ exit = None
  /\ newest' \in IF HubMayRollBack THEN 1..MaxReleases \ {newest}
                  ELSE {newest + 1} \cap Release
  /\ published' = now
  /\ UNCHANGED <<now, loopVars, fetch_job, ask_job, kernelVars, release>>

Tick ==
  /\ now < Horizon /\ exit = None
  /\ now < next_poll + MaxLag
  /\ ask_job.status = "running" => now < ask_job.asked + AskTimeout
  /\ fetch_job.status \in {"running", "pinned"} => now < fetch_job.started + FetchTimeout
  /\ now' = now + 1
  /\ UNCHANGED <<loopVars, fetch_job, ask_job, kernelVars, hubVars>>

Next ==
  \/ Collect
  \/ Poll
  \/ NotDue
  \/ FetchVersion
  \/ FetchEnd
  \/ AskEnd
  \/ Handshake
  \/ Publish
  \/ Tick

Spec == Init /\ [][Next]_vars

-----------------------------------------------------------------------------
(* The shutdown the tunnel's variables stand for.  An ask counts as one of *)
(* this outage only if its thread, or the reply waiting for the next poll, *)
(* was started in this outage.                                             *)
Answerable ==
  \/ ask_job.status # Idle /\ ask_job.outage = outage
  \/ reply # NoReply /\ reply_outage = outage

ShutdownPhase ==
  LET waiting == exit = None /\ disconnected_since # Never /\ pending # NotPending
  IN  CASE exit = "GiveUp" -> "over"
        [] exit \in {"Broken", "Removed"} -> "aborted"
        [] exit = None /\ disconnected_since = Never -> "up"
        [] waiting /\ ~pending.outstanding -> "held"
        [] waiting /\ pending.outstanding /\ Answerable -> "asked"
        [] OTHER -> "down"

Promise == INSTANCE Shutdown WITH
  Limit <- LimitSecs,
  HoldLimit <- HoldLimitSecs,
  Interval <- AskInterval,
  phase <- ShutdownPhase,
  since <- IF exit \in {"Broken", "Removed"} THEN Never ELSE disconnected_since,
  first_ask <- IF exit \in {"Broken", "Removed"} THEN Never ELSE pending.first_ask,
  hold_until <- IF ShutdownPhase = "held" THEN pending.next_ask ELSE Never

(* The supervisor implements the promise of Shutdown.tla: a run given up   *)
(* had the tunnel down for the whole limit and the app asked in that same  *)
(* outage (health.rs poll, supervisor.rs ask_job and reply).               *)
ShutdownPromise == Promise!Spec

(* A consent ends the run only if it answers an ask of this outage: a      *)
(* late reply after Connected is ignored (health.rs:344, the test          *)
(* a_timeout_counts_as_ok_by_the_client_and_connected_cancels_everything). *)
ConsentOfThisOutage ==
  [][exit' = "GiveUp" /\ d'.give_up = "Consent" => reply_outage = outage]_vars

(* An ask the health machine waits for is always on its way: a thread is   *)
(* asking, or its reply waits for the next poll.  Otherwise the pending    *)
(* shutdown would hang for good (health.rs `outstanding`, supervisor.rs    *)
(* `ask_job.is_none()`).                                                   *)
AskNeverOrphaned ==
  exit = None /\ pending.outstanding => ask_job.status # Idle \/ reply # NoReply

(* A hold limit bounds every outage, whatever the app answers and however  *)
(* late: the limit, the hold limit, and a poll for each.                   *)
OutageBounded ==
  exit = None /\ ~Tolerate /\ HoldLimitSecs > 0 /\ disconnected_since # Never
    => now - disconnected_since
         <= LimitSecs + HoldLimitSecs + 2 * (PollSecs + MaxLag)

(* The kernel's peer is the applied one, and endpoint_ok is only set when  *)
(* the applied endpoint is the one in the kernel, across failed            *)
(* resolutions, re-applies and re-ups in any order (wireguard.rs           *)
(* reapply_commands' `endpoint_ok`).                                       *)
KernelFollowsConfig ==
  exit = None /\ applied # NoConfig =>
    /\ wg.hub = applied.entry.hub
    /\ endpoint_ok => wg.endpoint = applied.entry.endpoint

(* A fetch compares the version with the tag it was started with; that tag *)
(* is still the applied one when its outcome is taken (supervisor.rs       *)
(* start_fetch captures it).                                               *)
FetchKnowsApplied ==
  exit = None /\ fetch_job.status # Idle => fetch_job.have = applied.tag

(* With the hub in reach, what it reports is what the spoke runs on within *)
(* a version interval, the fetch that was in flight, its own fetch and the *)
(* polls between them: Connected or not, tolerated or not, also when the   *)
(* hub went back to an older release, and a spoke that was dropped stops.  *)
FollowDeadline == VersionPollSecs + 2 * FetchTimeout + 4 * (PollSecs + MaxLag) - 1
Behind ==
  /\ Fetched /\ applied.tag # newest
  /\ applied = NoConfig => release[newest] # Absent

FollowsHubInTime ==
  exit = None /\ Behind /\ ~FetchMayFail => now - published <= FollowDeadline

(* A heartbeat the healthcheck takes for fresh means a handshake within    *)
(* twice the staleness bound, whatever resets wg0 went through since.      *)
BeatMeansContact ==
  tunnel_beat # Never /\ now - tunnel_beat < StaleSecs
    => contact # Never /\ now - contact < 2 * StaleSecs

(* wg0 is taken down only by a poll right after one that re-set the        *)
(* endpoint: never as an outage's first repair, never twice in a row.      *)
DownUpOnlyAfterReset ==
  [][next_poll' # next_poll /\ exit' # "Broken" /\ d'.repair = "DownUp"
       => d.repair = "ResetEndpoint"]_vars

(* Neither the configuration in use nor the cached bundle ever goes back   *)
(* to an older release, unless the hub does.                               *)
NeverBackward ==
  [][~HubMayRollBack =>
       cache' >= cache /\ (applied # NoConfig => applied'.tag >= applied.tag)]_vars

Thread == INSTANCE FetchJob WITH
  Tag <- Release, Longest <- FetchTimeout,
  status <- fetch_job.status, have <- fetch_job.have, tag <- fetch_job.tag,
  outcome <- IF fetch_job.outcome = "Panicked" THEN "Unavailable" ELSE fetch_job.outcome,
  spent <- IF fetch_job.status \in {"running", "pinned"} THEN now - fetch_job.started ELSE 0

(* The loop's use of the fetch thread: one job at a time, whose outcome is *)
(* taken before there is another, and changes nothing on the way.          *)
FetchIsAJob == Thread!Spec

(* Threads run, timeouts fire, the loop's thread is scheduled.             *)
Fairness ==
  /\ WF_vars(Collect) /\ WF_vars(Poll) /\ WF_vars(NotDue)
  /\ WF_vars(FetchVersion) /\ WF_vars(FetchEnd) /\ WF_vars(AskEnd)
  /\ WF_vars(Tick)

FairSpec == Spec /\ Fairness

(* An outage that is not tolerated ends, in a Connected poll or in the end *)
(* of the run.                                                             *)
OutageEnds ==
  (/\ disconnected_since # Never /\ ~Tolerate /\ HoldLimitSecs > 0
   /\ disconnected_since + LimitSecs + HoldLimitSecs + 2 * (PollSecs + MaxLag) < Horizon)
    ~> (disconnected_since = Never \/ exit # None)
=============================================================================
