# TLA+ for devkit-container

Specifications, model checks and proofs of the runtime half of `devkit-container`: the
entrypoint that boots a WireGuard tunnel, the supervisor that keeps it up beside the app and
its daemons, and the promises both make. Paths below are relative to `src/` (so `src/run.rs`
is the entrypoint).

## The system

| Component | State it keeps | Operations | Modelled in |
|---|---|---|---|
| Health machine, `src/health.rs` | `disconnected_since`, `next_repair`, `pending` (the shutdown being asked for), the repair log's clock and count | `new`, `poll(iface, fresh, reply) -> Decision`, `config_applied` | `Health` |
| Tunnel loop, `TunnelState` in `src/supervisor.rs` | `applied`, `endpoint_ok`, `unconfigured`, `fetch_job`, `ask_job`, `next_version_check` | `collect` (a finished fetch, a consent reply), `poll` (`wg show`, heartbeat, health, re-up, fetch, ask) | `Tunnel` |
| Process supervision, `run`, `reap`, `stop` in `src/supervisor.rs` | `live` (the children not yet reaped), signal flags, `stopping`, the `Exit` | spawn, forward, reap, the shutdown path of each exit | `Supervisor` |
| Pings, `Pinger`, `send`, `send_now` in `src/supervisor.rs`, `src/ping.rs` | `started`, `last_fresh`, the ping in flight | decide, send on a thread, join and send at the end | `PingSender` |
| Waker in `src/supervisor.rs` | a non-blocking socket pair the handlers write to | `wait`, drain | `Waker` |
| Boot, `run`, `boot_tunnel` in `src/run.rs` | `wg0`, the configuration, the failure | create, obtain, apply, wait for a handshake, the gate, prepare, startup scripts, hand over | `Boot` |
| Bundle cache, `src/cache.rs` | `peers.toml`, its temporary file | `write`, `read` | `Boot`, `Tunnel` |
| Heartbeat files, `src/heartbeat.rs`, `src/healthcheck.rs` | one timestamp per file | `write`, `check`, the healthcheck command | `Heartbeats`; the tunnel's file in `Tunnel`, `Boot` |
| Consent client, `src/consent.rs` | none | `ask` | `Consent`; a thread in `Tunnel` |
| Fetch, `src/fetch.rs` | none | `obtain`: version, then that release, in up to four requests | `Obtain`, `FetchJob`; a thread in `Tunnel`, a step of `Boot` |
| Interface, `src/wireguard.rs` | `wg0` in the kernel, `Plan.applied` | create, apply, reapply, set endpoint, down and up, handshakes | `Wg0`, `WgView`; a step of `Tunnel` and `Boot` |
| Bundle, `src/bundle.rs` | none | `parse`, `select`, `require_version` | `Bundle`, `KeyText`; `require_version` in `Obtain` |
| Persisted directories, `src/mounts.rs`, `src/prepare.rs` | the file system | the mount check, `prepare`, `walk` | `Prepare`; a step of `Boot` |
| Queries on `pyproject.toml`, `src/pyproject.rs` | none | one function per `[tool.docker]` table | their results are constants: `Prepare`'s `Required`, `Supervisor`'s daemons and switches |

How they interact. One thread runs the loop: forward the signal flags, reap, `collect`, `poll`
when it is due, ping, wait on the waker. Signal handlers, at most one fetch thread, one consent
thread and one ping thread run beside it and hand over through atomics and channels. The loop
calls the health machine with what it observed and acts on the decision in the same poll. The
boot hands the loop an interface, a configuration and a reason. The healthcheck is a process of
its own that meets the rest in two files; those, the cache and the required directories, all
under mounted volumes, outlive the container.

What is hard here:

- **Stale answers.** A fetch or an ask is answered several polls later, after an outage ended,
  another began, or the configuration changed; the hub moves between two requests of one fetch.
- **Ordering within one iteration.** A signal, a daemon's death and the app's exit may all
  fall between two iterations and are handled in a fixed order.
- **Partial failure.** Every exit has its own clean-up: children, `wg0`, `/fail`. A plan of
  `wg` and `ip` commands stops at the first that fails, and the next is made from what was applied.
- **Timeouts.** A per-read socket timeout, a hold limit, a grace period, a ping timeout longer
  than the smallest poll interval, four requests with a timeout each.
- **Crashes.** A kill between the steps of a cache write, of a boot, or of a `mkdir` and its `chown`.
- **Wake-ups.** A signal between the check of its flag and the wait.
- **Clocks.** Stamps of the wall clock, compared after it was set, by two processes.
- **Boundaries.** The hub's network mask, a key's padding.

`PROJECT.json` lists each hazard at its line, with the property that covers it or why none does.

## Modules

`Health` has the state and the actions of the health machine and no specification of its own:
`Tunnel` EXTENDS it and is the only driver, as in the source. Three modules are abstract
specifications, written for whoever relies on the promise:

| Abstract | Whose promise | Implemented by |
|---|---|---|
| `Shutdown` | the give-up, as the app sees it | `Tunnel` (`ShutdownPromise`) |
| `FetchJob` | one fetch, as its caller sees it: one tag, one outcome, a longest duration | `Tunnel`'s fetch thread (`FetchIsAJob`) and the requests of `Obtain` (`ObtainIsAJob`) |
| `WgView` | `wg0`, as the loop and the boot use it: an apply or a repair is one step | the commands of `Wg0` (`OneStepToCallers`) |

So the fetch that is one thread with three outcomes in `Tunnel` is what four requests come to,
and the `wg0` that is one assignment there is what eleven kinds of command come to.

The others stand alone, and meet at places that are checked on either side: `Boot`'s hand-over
is the start of `Tunnel` (`HandedOver` against `Tunnel`'s `Init`), `Tunnel`'s exits are the
choices of `Supervisor`'s `TunnelStep`, `Consent`'s bound is `Tunnel`'s `AskTimeout`, what
`Bundle` accepts is what `Wg0` and `Tunnel` take for an entry, and `Prepare` is `Boot`'s step of
that name. `MC*` modules hold the values a `.cfg` cannot; `*Proofs` modules hold theorems.

`MCBoot`, `MCThreads` and `MCConfig` each check several modules in one run. These share no
variable; a variable `part` picks one of them in the initial state, and a behaviour is a
behaviour of that one. Some of their properties are conjunctions of the parts' own:

| Property | Its parts |
|---|---|
| `AcceptedIsSound` | `Bundle`'s `OneRowPerKey`, `OneNetwork`, `UsableEntry`, and `KeyText`'s `KeyShape` |
| `DirsOwned` | `Prepare`'s `TypeOK`, `EntriesOwned`, `WayOwned` |
| `TokenToApiOnly` | `Obtain`'s `TypeOK` and its property of that name |
| `FreshMeansAlive` | `Heartbeats`' `TypeOK`, `FreshMeansBeaten`, `FreshMeansContact` |
| `SilenceReported` | `Heartbeats`' `HungAppReported`, `SilentTunnelReported` |
| `PingOrder` | `PingSender`'s `StartFirst`, `FailIsLast` |

Definitions named `MUTANT of X` are plausible wrong versions of `X`; no specification uses
them. `PROJECT.json` pairs each with the property it must break (of a conjunction, with one
part of it).

### Health and Tunnel

`HealthPoll` is `Health::poll`: `PollConnected` or `PollDisconnected`, whose parts are named
for the steps of the function (`RepairStep`, `FirstAsk`, `Heard`, `GiveUpNow`, `AskAgain`).
The decision stays in `d`, so that properties can speak of it.

`Tunnel` splits an iteration in two steps, as the loop is: `Collect` (what
`TunnelState::collect` does with a finished fetch and a finished ask, every outcome of
`take_outcome` a disjunct) and `Poll` or `NotDue`. `Poll` is one action: `wg show`, the
heartbeat, `Health::poll`, the re-up, the fetch, the ask, the give-up, with the two early
exits of the code (`ShowFails`, `ReUpFails`). Threads end, handshakes complete, releases
appear and time passes between any two steps. The kernel's `wg0` is a peer, an endpoint and a
handshake; a replaced peer or an interface taken down loses its handshake.

Time is a counter. `Tick` never passes a poll that is due by more than `MaxLag` (the time the
loop's own shell-outs may take), nor the end of a thread's timeout. `outage`, `reply_outage`,
`published` and `contact` are history variables.

### Supervisor

A process is unborn, running, a zombie or reaped. The shutdown path of an exit is a sequence of
steps (`Script`), each of which is an action or two, so that children die and signals arrive
inside it: a stop sends its signal, reaps, and after the grace sends SIGKILL and waits.
`after_app` is `stop_daemons_after_app`. The tunnel is a choice of exit.

### PingSender, Waker, Consent

`PingSender`: freshness is the environment's choice at each poll; a ping may be lost; the exit
may come at any time. `Waker`: the two handlers of a signal (its flag, then the byte) are
separate steps, the socket has a capacity, the drain reads in chunks. `Consent`: the reply
arrives in pieces, each read starting the timeout over.

### Boot and Prepare

`Boot`: each step of `boot_tunnel` and `run`. Each that may fail fails in an action of its own
(`CreateFails`, `SetKeyFails`, `ApplyFails`, `WaitFails`, the refusal of `Gate`, `PrepareFails`,
`ConsentDirFails`, `ScriptsFail`), which goes on to the clean-up that path has in the code: `wg0`
down (`TakeDown`), `/fail` (`Alert`). `ip link del` is taken to succeed, as the code takes it.
The cache's write is open, fill and rename; there is a kill between any two steps, and a restart.
The hub may move to any other release at any moment, an older one too; `gone_back` remembers that
it did, and `touched` that this boot changed a file.

`Prepare` has a tree of paths (a path is the sequence of its components, `UpTo` its prefixes),
each shown by a mounted volume or by the container's layer. The mount check passes or refuses; a
pass makes a directory, chowns a created ancestor or visits an entry of the walk, one file-system
call a step. Before a pass the host puts files, directories and links into a volume; while the app
runs (`AppStarts`) it makes files, directories and links, and removes what it may, so that a
directory, on the way to an entry too, may give way to a link. The container is killed, restarted,
or replaced by one with other mounts, at any step. `Place(p)` is where `lchown` and `mkdir` act:
links on the way to `p` are followed, one at `p` itself is not. `Leads(p)` is what `exists` and
`is_dir` see: that one is followed too. So a link on the way to an entry, or at it, leads the pass
as it leads the code (`src/prepare.rs:20-30`), while one the walk meets is a leaf (36-41).

### Heartbeats

The app's writer truncates and writes; the supervisor's poll takes its time, takes the time it
stamps, writes the sibling, renames it and checks both files; the healthcheck takes its time and
reads one file, then the other, and remembers a fault in `failed`. All three interleave, with
restarts of the container and a wall clock that is set. The files outlive a container: a boot
starts with those of the run before, and the healthcheck may read the tunnel's until the boot has
removed it (`Unbeat`), which may fail. A reader has a limit for each file (`Limit`): the
healthcheck `MaxAge` for both, the supervisor `StaleSecs` for the tunnel's. A stamp is kept as two
ages, the one the wall clock shows and the real one no program sees; the properties relate the
verdicts, made of the first, to the second.

### Obtain

The requests one by one, with the token or without: version, listing, asset, download. The hub
reports another version and releases are uploaded, stamped anew or removed between any two; a
request may be redirected anywhere, fail, or take its whole timeout.

### Wg0

A plan is a set of commands, and `Rank` the order of the vectors the planner builds; commands of
one rank (the routes) run in any order. `CanRun` says what the kernel must hold for a command
not to fail, `After` what it leaves. A resolution fails or not, a local command fails only into
`Broken`. Between plans any of apply, re-apply and the two repairs may come next.

### Bundle and KeyText

`Bundle` holds a table that starts good; an edit sets one field of one row to any of a set of
good and bad values, or removes a row. What is accepted is decided by `Parses`, the checks of
`parse` over numbers and model values; the properties say what an accepted table guarantees, in
terms of sets of addresses rather than of the masks and prefixes the code computes with.
`KeyText` reads a key's text group by group, any class of group at each step.

## Runs

| Run | Shows | Bounds |
|---|---|---|
| `consent` | `AskNeverOrphaned`, `OutageBounded`, `BeatMeansContact`, `DownUpOnlyAfterReset`, the refinement `ShutdownPromise`, and `OutageEnds` under fairness, in environment mode with an app that may hold | 11 time units with a poll each, a limit of 1, a hold limit of 4, asks of up to 2: the clock passes a whole outage with three asks, its hold limit, and a second outage |
| `fetch` | `KernelFollowsConfig`, `FetchKnowsApplied`, `NeverBackward`, and the refinement `FetchIsAJob`, with every fetch, resolution and write failing in any pattern | three entries of one hub, two releases of any content, 3 time units: a failed resolution, a release that leaves the endpoint alone, and a repair fit in |
| `follow` | `FollowsHubInTime`: the configuration is the hub's, or the run has ended, within the version interval, two fetches and four polls of a change; also when the hub goes back to an older release | a hub that moves to any other of two releases at any moment, 8 units against a deadline of 7 |
| `rotate` | **violates** `ConsentOfThisOutage` | two hub keys, an ask of 6 units |
| `threads` | of the pings `FailOnStale`, `PingOrder`; of the waker `NoLostWakeup`; of an ask `AskBounded`; of a fetch `TokenToApiOnly`, `PinnedToItsTag`, and the refinement `ObtainIsAJob` | poll 4, ping timeout 2, lag 1: polls further apart than a ping; three signals, four deliveries, a socket of two bytes, so that it is full; an ask with timeout 3 and replies of 5 bytes; two tags, one call after another, a request timeout of 1, so that calls of every length up to 4 occur |
| `ping_skipped` | **violates** `FailOnStale` | a poll of 1, shorter than the ping's timeout |
| `ask_late` | **violates** `HoldInTime` | timeout 3, a hold of 3 bytes |
| `supervisor` | `NothingLeftBehind`, `DeathNotMasked`, `DaemonsAfterApp`, `SignalsOnlyUnreaped`, and `EndSeen` under fairness: what is to end the run is seen, and the run ends | two daemons, the app, two signals, both settings of `stop_daemons_after_app` |
| `masked` | **violates** `DaemonExitIsFailure` | one daemon |
| `boot` | `RefusedCleanly`, `HandedOver` (no heartbeat of an earlier run among it), `OfflineBoot`, `CacheAdvances`; of the directories `DirsOwned`, `OnlyOwnTrees`, `StoredSurvives` | three starts, two releases that the hub goes to and fro between, both modes, the switch on and off; ten paths up to three levels deep, two mount points, entries at a mount, two levels below each mount and at a link, three places for a link, any number of starts |
| `config` | of `wg0` `ConfigInKernel`, `NoStaleCommand`, `ReapplyInPlace`, and the refinement `OneStepToCallers`; of the bundle `AcceptedIsSound`, `OnlyTheConcerned` | 48 configurations a hub may send and 24 of the environment, in any sequence; three edits of a hub and two peers over four-bit addresses, so that a mask's boundary is two addresses away; keys of the real length, 11 groups for 32 bytes |
| `heartbeats` | `FreshMeansAlive`, `NoFalseAlarm`, and `SilenceReported` under fairness | a file is old at 2 to the healthcheck and to the app's check, at 1 to the tunnel's, as is a handshake: the two limits differ; a poll or a healthcheck may take 1, the clock is set by 1 forward or back; time and restarts have no bound, as ages beyond every comparison are one |

Type invariants are listed by the run that has room for them (`TypeOK` of `consent`, those of
`Prepare`, `Obtain` and `Heartbeats` inside the properties above) and proved for all of
these and for `Supervisor`, `PingSender`, `Waker`, `Consent`, `Boot` and `Wg0`. Deadlock is not checked: each
model stops where the program has ended or its bound is reached.

Bounds named in the modules: `Horizon` (the clock), `MaxReleases`, `MaxSignals`, `MaxRaises`,
`MaxBoots`, `MaxEdits`, `MaxShift` (of the wall clock). They are small because what the
properties compare is small: two outages, two releases, a stop and a second signal, a boot that
caches, one that uses the cache and one after, two configurations and what a failed resolution
left of a third. Three edits are two fields that collide and one that hides it.

Fairness. `Tunnel`: weak fairness of the loop's actions, of the end of each thread (each has a
timeout) and of the clock; none of handshakes or of the hub. `Supervisor`: of the loop and of
the grace period; none of the children, so `EndSeen` holds though every child ignores its
signals (SIGKILL takes effect in the step that sends it and waits). `Heartbeats`: strong fairness
of time, which other steps may hold up but not for good; weak fairness of the supervisor's steps,
which is none once it is wedged, and of the healthcheck's, which Docker runs again and again;
none of the app or of handshakes. Without the supervisor's, the
reasons it last found would stand for ever.

Assumptions on the settings. `ShutdownPromise` and `ConsentOfThisOutage` need `PromptReplies`: an
ask is over before the outage after it can come to its own first ask. Either an ask and the loop's
lag are shorter than `WG_DISCONNECTED_LIMIT_SECS` and a poll, or the configuration is the
environment's, so that nothing but time makes a handshake stale, and an ask is shorter than
`WG_STALE_SECS`. With the 60 s of `src/consent.rs:15` the default limit of 1800 s gives the first
and the floor of 150 s of the staleness bound the second; what is left out is a limit below a
minute with configurations from the hub, and an app that drips its reply (run `ask_late`).
`consent` has constants of the second kind, `rotate` constants that are of neither.
`FailOnStale` needs polls further
apart than a ping's timeout and the loop's lag, which is true of the default of 30 s and not of
every value the code accepts. The positive intervals the modules assume are the floors of
`Settings::from_env`; it has no ceiling for `WG_STALE_SECS`, although `src/wireguard.rs:170` says
it does for every timer, nor for the environment's keepalive, and no property needs one.

## What the violations say

- `rotate`: a consent reply is not tied to the outage it was asked in (`src/supervisor.rs:380`).
  A Connected poll clears the pending shutdown and not the ask in flight; if a hub key change
  makes the tunnel stale again within that ask's 60 s, its reply ends the run in the new
  outage, without the app having been asked in it. The test comment at `src/health.rs:344` says
  a late reply after Connected is ignored.
- `ping_skipped`: with `WG_POLL_SECS` below the ping's 10 s timeout the `/fail` of a transition
  can be skipped behind the ping in flight, and `Pinger` has recorded the transition, so it is
  never sent (`src/supervisor.rs:510`, against line 13).
- `masked`: a daemon that dies before a SIGTERM arrives is reaped after the flag is handled, so
  it counts as one that exited after a forwarded stop, and the run returns the app's code
  (`src/supervisor.rs:599`, against `README.md:56` and `:60`).
- `ask_late`: the reply's timeout is for each read, so a `hold` in pieces may be complete after
  60 s and still count (`src/consent.rs:27`, against line 14 and `README.md:101`).

Six more things the models show and no property forbids:

- An error of the signal handlers' set-up returns with `wg0` up and no `/fail`
  (`src/supervisor.rs:477`; `NothingLeftBehind` leaves that exit out).
- Settings that are refused send no `/fail` (`src/run.rs:173`).
- Allowed IPs are compared as texts (`src/wireguard.rs:284`). Where one release respells a
  network, the re-apply sets the route of the new text and then deletes that of the old one,
  which is the same: the route is gone until the next down-and-up. `ConfigInKernel` is checked
  and proved for texts that denote distinct networks (`DistinctNets`).
- The uniqueness of addresses is of texts too (`src/bundle.rs:122`), and a prefix is parsed as a
  number, so `/32`, `/032` and `/+32` are three spellings of one host: two rows may have one
  address. `AcceptedIsSound` speaks of names and keys.
- `exists`, `create_dir_all` and every call of the walk follow a link on the way to an entry
  (`src/prepare.rs:20-31`): where the app or the host has put one, the entry is made, and given to
  nonroot, at the place it leads to. The comment at `src/prepare.rs:36-39` is about the links the
  walk meets, and of those `OnlyOwnTrees` shows it; the trees it speaks of are at the entries'
  places.
- Until `src/run.rs:110`, and after it if the removal fails, a healthcheck may find the tunnel's
  file of the run before fresh, with no handshake in this one. What `FreshMeansContact` says of
  the file holds then too: contact, in whichever run wrote it.

## Proofs

`tlapm` proves the theorems below for every value of the constants that meets the named `ASSUME`s
of the modules (positive timeouts and intervals, entries that name a hub, distinct processes, a
tree of paths closed upwards, links that lead past no second one; TLC evaluates each of them in the
runs). Where a run checks several modules (`MCThreads`, `MCConfig`, `MCBoot`), the theorem is about
the run's own specification, with the constants left open. Four more hypotheses stand in the
statements: polls further apart than a ping (`PollsApart`), asks that end in their outage
(`PromptReplies`), a hub that does not go back (in `NeverBackward` and `CacheAdvances` themselves),
one spelling for each network (`DistinctNets`). The bounds of the runs (`Horizon`, `MaxReleases`,
`MaxSignals`, `MaxShift`) are constants too, so no bound is left in these results. They hold of the models: what the models leave out of the code is listed below.

| Module | Theorem | Property |
|---|---|---|
| `TunnelProofs` | `TypeCorrect`, `AsksAnswered`, `FetchComparesApplied`, `KernelFollows`, `ReleasesGoForward`, `ResetFirst`, `OutagesBounded`, `BeatsMeanContact`, `FollowsInTime`, `FetchImplementsJob`, `PromiseKept`, `ConsentOfItsOutage` | `TypeOK`, `AskNeverOrphaned`, `FetchKnowsApplied`, `KernelFollowsConfig`, `NeverBackward`, `DownUpOnlyAfterReset`, `OutageBounded`, `BeatMeansContact`, `FollowsHubInTime`, the refinements `FetchIsAJob` and `ShutdownPromise`, `ConsentOfThisOutage` (these two with `PromptReplies`) |
| `SupervisorProofs` | `TypeCorrect`, `NoKillOfReaped`, `CleanReturn`, `AppBeforeDaemons`, `DeathsCount` | `TypeOK`, `SignalsOnlyUnreaped`, `NothingLeftBehind`, `DaemonsAfterApp`, `DeathNotMasked` |
| `BootProofs` | `TypeCorrect`, `Refusals`, `HandOvers`, `CacheNeverBack`, `Offline` | `TypeOK`, `RefusedCleanly`, `HandedOver`, `CacheAdvances`, `OfflineBoot` |
| `ThreadsProofs` | `TypesCorrect`, `PingsInOrder`, `FailLeaves`, `WakeupsKept`, `AskEnds`, `TokenStays`, `BundleOfItsTag`, `ObtainImplementsJob` | the four `TypeOK`, `PingOrder`, `FailOnStale` (with `PollsApart`), `NoLostWakeup`, `AskBounded`, `TokenToApiOnly`, `PinnedToItsTag`, the refinement `ObtainIsAJob` |
| `HeartbeatsProofs` | `FreshIsAlive`, `NoAlarmWithoutCause` | `FreshMeansAlive`, `NoFalseAlarm` |
| `ConfigProofs` | `AcceptedEntries`, `EditsConcern` | `AcceptedIsSound`, `OnlyTheConcerned` |
| `PrepareProofs` | `PassOwns`, `NothingElseGiven`, `StoredIsKept` | `DirsOwned`, `OnlyOwnTrees`, `StoredSurvives` |
| `Wg0Proofs` | `TypeCorrect`, `Implements`, `KernelIsConfig`, `CommandsRun`, `InPlace` | `TypeOK`, the refinement `OneStepToCallers`, `ConfigInKernel`, `NoStaleCommand`, `ReapplyInPlace` (these three with `DistinctNets`) |

The argument of each:

- **Tunnel.** `TypeOK` alone is not inductive: that an applied release has an entry of this spoke
  rests on what a fetch in flight will report. `FetchOrder` adds it: a pinned fetch, or a finished
  one that found a change, names a release the hub had. Unless the hub goes back
  (`HubMayRollBack`), it is also one the loop has not passed; going forward
  follows, as nothing but the outcome of that one fetch moves the cache or the applied release.
  `AskNeverOrphaned` needs `Asking`: a pending shutdown belongs to an outage past the limit, so
  that the early return of `poll` can never skip the reply it waits for. `OutageBounded` needs
  `PollTiming`, which says where the latest poll stood: within the limit if no ask was made yet,
  within the hold limit after the first ask; the next poll is at most `PollSecs + MaxLag` later.
  `DownUpOnlyAfterReset` needs `RepairTurn`: while nothing is applied the alternation rests at its
  start. `BeatMeansContact` needs `BeatOfContact`: the handshake a heartbeat was written on may
  be gone from the kernel, but contact was made at that time. `FetchIsAJob` needs `Fetching`: a
  fetch under way has found nothing yet and is within its time; each step of the tunnel then
  starts a job, ends it, takes it, or leaves it alone. `KernelFollowsConfig` and
  `FetchKnowsApplied` are inductive next to the types.
- **Tunnel, in time.** `FollowTiming` follows a change of the hub through the two fetches it may
  take: one that read its tag before the change (`Blind`), which began before it, and whose end is
  taken up to two polls after its timeout; the version check it put off, due by `CheckBy`; and the
  fetch that sees the change, begun by `StartBy` and taken up to two polls after its timeout. The
  proof corrected the bound: two fetches and three polls, which TLC had found to hold where a poll
  and a lag are one unit, are one poll too few in general.
- **Tunnel and its promise.** `PollKinds` says that a poll makes of the outage and of the pending
  shutdown one of ten things, each a step of `Shutdown` or a stutter. What remains is that a reply
  is about the ask `Shutdown` has: `Owed`. It needs `AskTiming`, when the outage under way can have
  begun if it is not the ask's own: a fresh poll and a stale one after the ask, and, where only
  time makes a handshake stale, the staleness bound after it. So no ask is in flight at the first
  ask of an outage (`FirstAskAlone`, the one place where `PromptReplies` is used).
- **Supervisor.** `Shape` types the state, `Life` says that the list of children is the set of
  unreaped ones and holds the app while the loop runs. `OnPath` is the heart: during a shutdown,
  whatever is still there (a child, the app, `wg0`, an unsent `/fail`) has its step ahead in the
  path that is left. At the path's end nothing is (`AtEnd`). `Unmasked` follows a daemon's death
  to the reap that sees it.
- **Boot.** `Progress` says, for each step, what a boot that came this far knows of `wg0`, of the
  configuration and of the failure; the clean refusals and the hand-over are its last lines.
  `RefusedCleanly`: each failure enters its clean-up with what its path leaves to do, `wg0` is down
  at `alert` on every one of them, and a boot whose failure is not tolerated never comes to
  `prepare`. `NoLeftoverBeat` follows the heartbeat of an earlier run to the step that removes it.
  `Cached`: whatever the kill left, the cache is whole and what is being written is the bundle
  fetched last. `InOrder`: unless the hub went back, the cache is no newer than that bundle, nor it
  than what the hub reports. `Kept`: after a start
  that ran on a fetched configuration it holds one, unless a write failed.
- **PingSender.** `Order` ties what was sent to what the pinger recorded. `Timing`, which holds
  if `PollSecs > PingTimeout + MaxLag` (`PollsApart`), says that a poll finds no ping in flight;
  the run `ping_skipped` shows that the assumption is needed.
- **Waker.** `Awaited`: a signal whose handlers have run and which the loop has not seen has a
  byte in the socket, or the loop is on its way to a check of its flag.
- **Consent.** `Paid`: a read began no later than one timeout for each byte before it.
- **Obtain.** `Underway`: the tag of a call is one the hub reported to its first request, the
  token is there for the requests that carry it, and the time spent is paid for by the requests
  begun, `Begun` of them by each step and at most four. That a bundle is stamped with its tag is
  the comparison before it is returned.
- **Heartbeats.** Stamps age together, and the wall clock moves under all of them at once: so it is
  the *difference* of two wall ages that follows the real one, less what the clock was set back
  between the two (`Told`), and a single age is off by no more than the clock was ever set
  (`Drift`). `Backed` has the tunnel's file written on a handshake fresh by the wall clock then,
  of this run or of the one that left the file;
  `Taken` says which stamps there are at each step, and that a reader's is no older than a read.
- **Bundle and KeyText.** `IsTable` is kept by every edit; the rest is about `Parses` and `Select`
  alone. `Reading` says what a text that is still in the running looks like after any number of
  characters: letters, padding in the last two places only and to the end, and the bytes counted.
  That a spoke is a host of the hub's network (`OneNetwork`) compares the mask, arithmetic on
  powers of two, with the bits of the address. It is an induction over the places of the bits,
  made by the least element of the set of counterexamples (`LeastOf`), which needs no operator
  parameter; that a power doubles (`Halves`) comes from the number of subsets of a set (`FS_SUBSET`).
- **Prepare.** `Volumes` and `Layers`: what exists is in directories, on each volume and in the
  layer apart, so that a mount hides or shows whole trees. `Owners` is the heart: what exists in a
  settled tree (`Settled`: its entry was walked, or is being walked) or was made on the way is
  nonroot's, or `Owed` to it: created and not yet chowned, or below something the walk has still to
  visit. At the end nothing is owed. That entries may be nested in one another in any order, and
  that a later `mkdir` may fall into an earlier tree, is why all trees are followed at once. Links
  do not change during a pass, so places do not either (`SamePlaces`); `Ways` says
  that each ancestor still missing is among those remembered, where the way to it leads, and that
  the walk stays in the entry's tree. Paths need lemmas of their own (`Order`, `Cut`, `NextDown`): what is on the way to a path is a chain.
- **Wg0.** `Underway`: what is left of a plan is a part of it, and holds the endpoint to the last.
  `Where` says what the peers are so far (the old one, none, the new one), `Held` that what
  callers see is what was applied. `Outcome`: at the end of a plan, however it ended, the peer is
  the one `WgView` is left with; until then a step of the plan is a stutter.
  For the other three, `Progress` says of each plan how far its commands, in their order, have
  brought the link, the addresses, the routes and the peers, from what of the plan is left;
  `Later`, that what has run was due before what is left, is what makes this a function of the
  rest. One lemma a part shows a command to keep it (`LinkedStep` to `PeeredStep`). Between plans
  `Rests` holds: the kernel is settled on what is applied, `AllButEndpoint` at a plan's end
  together with the endpoint's own command. `DistinctNets` is needed where a route is removed.

## Only model-checked, and not modelled

Liveness (`OutageEnds`, `EndSeen`, `SilenceReported`) is out of the prover's reach and stays with
TLC. Every invariant, action property and refinement of a passing run has a theorem. Where the
code's own rule is not kept (the four violations), TLC shows the behaviour; `FailLeaves` and
`ConsentOfItsOutage` say under which settings the rule of `ping_skipped` and of `rotate` does hold.

Not modelled, and why:

- The log file, `main.rs` and its command line: lines appended and never read back, arguments
  dispatched. The templates and the container tests: no state of the program.
- `Settings::from_env`: a parse of variables. Its bounds are the assumptions above. The check of
  the uid, and `WG_POLL_SECS` refused when there is no tunnel (`src/run.rs:128`), end the run
  before there is anything to clean up, and without a `/fail`.
- The exec mode, with no tunnel and no daemons: after the startup scripts the boot drops its
  privileges and is replaced by the app, and no code of the program runs from then on.
- Texts: the commands' arguments and the parsing of `wg`'s output, the syntax of TOML, URLs,
  headers, redirects and timestamps, of `/proc/self/mountinfo`, of log lines and pings. Where a
  text decides something (a stamp, a mask, a key's padding, a network's spelling), the models
  have what it decides.
- Time of a kind the models have none of: the waker's 250 ms tick, without which its properties
  hold; the time a connect to the consent socket takes (a full backlog has no bound in the code).
  The wall clock is set only in `Heartbeats`, which is where the code reads it.

`Prepare` assumes, by name, what the theorems of it rest on: no volume is mounted inside another
(`PrepareAssumption`), nothing of the image lies below what is no directory, with directories where
volumes are mounted (`ImageAssumption`), and a link leads to a path below `/app`, past no second link
(`TargetAssumption`). Any mount counts as a volume, a tmpfs or an anonymous one too, as it does in
`src/mounts.rs`. A kill between a `mkdir` and its `chown` leaves an ancestor root's, and the next
pass finds it there and leaves it so: `DirsOwned` speaks of the entries, of what is in them, and of
the ancestors the finished pass itself made (`WayOwned`), not of those. `StoredSurvives` speaks of
what lies in a required directory by its own name; what is stored through a link on the way is
where the link leads, which may be the container's layer.

Where a property says less than its name may promise: `AcceptedIsSound` speaks of names and key
texts, not of two spellings of one address. `OnlyTheConcerned` says whom an edit concerns by the
places of the rows, so that the removal of a row concerns every spoke whose row comes after it.
`FetchIsAJob` maps the tunnel's fetch to the job nearly one to one; what is behind a job is
`ObtainIsAJob`. A `RefusedCleanly` boot is one whose settings were read.

## Plan

Done: `Health` and `Tunnel` with `Shutdown`; `Supervisor`; `PingSender`; `Waker`; `Boot`;
`Consent`; `Obtain` with `FetchJob`; `Heartbeats`; `Wg0` with `WgView`; `Bundle`, `KeyText`;
`Prepare`; a hub that goes back; the proofs above, which cover every safety property of a passing
run. What would come next:

1. A boot without a tunnel, up to the supervisor or the exec, and `Settings::from_env`, whose
   bounds are assumptions so far; then the theorems of `Boot` over both.
2. The version tag's and the key's validators as the producers of what `Bundle` and `Obtain` take
   for tags and keys, and a bundle that is respelt, to say what `DistinctNets` leaves out.
3. The hand-over as a theorem: what `Boot` leaves is an initial state of `Tunnel`.
