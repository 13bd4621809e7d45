-------------------------------- MODULE Boot --------------------------------
(***************************************************************************)
(* The entrypoint of src/run.rs with [tool.docker].wireguard on: the       *)
(* tunnel booted before any file is touched, the gate, then the files, the *)
(* startup scripts and the hand-over to the supervisor; and the two files  *)
(* that outlive a container, the cached bundle of src/cache.rs and the     *)
(* tunnel's heartbeat.  A container may be killed between any two steps    *)
(* and started again.  What the run does after the hand-over is Tunnel.tla *)
(* and Supervisor.tla; here it only writes the two files and ends.         *)
(*                                                                         *)
(* A file is written to a temporary one, which is then renamed over it.    *)
(* A step that fails goes on to the clean-up of its own path.  `touched`,  *)
(* `gone_back`, `ran`, `fallen_back` and `disk_failed` are history: no     *)
(* guard reads them.                                                       *)
(***************************************************************************)
EXTENDS Integers

CONSTANTS
  Entries,      \* the effective configurations of this spoke
  MaxReleases,  \* bound: how many releases the hub publishes
  MaxBoots      \* bound: how many times the container is started

ASSUME BootAssumption ==
  /\ \A e \in Entries : e.hub # "None" /\ e.endpoint # "None"
  /\ MaxReleases \in Nat \ {0}
  /\ MaxBoots \in Nat \ {0}

VARIABLES
  tolerate,        \* WG_TOLERATE_DISCONNECTED=1, in every start's environment
  fetched,         \* fetched mode (WG_HUB_URL is set), likewise
  pc,              \* the step the entrypoint is at
  boots,           \* starts of the container so far
  wg_up, wg,       \* wg0 exists; its peer, endpoint and latest handshake
  applied,         \* the configuration applied, or NoConfig
  endpoint_ok,
  failure,         \* why this boot is not Connected, or "None"
  cache_text,      \* the release to cache, 0 for none
  alerted,         \* /fail was sent in this boot
  cache, tmp,      \* peers.toml and its temporary file
  writing,         \* where the cache's write is
  beat,            \* the tunnel's heartbeat file
  release, newest, \* the hub's releases, and the one its endpoint reports
  touched,         \* history: this boot wrote, made or removed a file
  gone_back,       \* history: the hub went back to an older release
  ran,             \* history: a boot ran on a fetched configuration
  fallen_back,     \* history: this boot looked at the cache
  disk_failed      \* history: a best-effort write or removal failed

fileVars == <<cache, tmp, writing, beat>>
settings == <<tolerate, fetched>>
hubVars == <<settings, release, newest>>
bootVars == <<applied, endpoint_ok, failure, cache_text>>
history == <<gone_back, ran, fallen_back, disk_failed>>
vars == <<pc, boots, wg_up, wg, bootVars, alerted, fileVars, hubVars, touched, history>>

None == "None"
Never == -1
Absent == [hub |-> None, endpoint |-> None, net |-> None]
Release == 0..MaxReleases
NoConfig == [tag |-> 0, entry |-> Absent]
NoPeer == [hub |-> None, endpoint |-> None, handshake |-> Never]
NoFile == [tag |-> 0, whole |-> TRUE]
File == [tag : Release, whole : BOOLEAN]
Peer == [hub : {e.hub : e \in Entries} \cup {None},
         endpoint : {e.endpoint : e \in Entries} \cup {None},
         handshake : {0, Never}]

Failures == {"ConfigUnavailable", "NotEnrolled", "EndpointUnresolvable", "NoHandshake"}
TunnelSteps ==
  {"settings", "create", "key", "obtain", "apply", "handshake", "gate", "announce"}
LaterSteps == {"prepare", "consent_dir", "cache", "unbeat", "scripts", "handover", "running"}
CleanUp == {"down", "alert"}

TypeOK ==
  /\ tolerate \in BOOLEAN /\ fetched \in BOOLEAN
  /\ pc \in TunnelSteps \cup LaterSteps \cup CleanUp \cup {"invalid", "refused", "over"}
  /\ boots \in 1..MaxBoots
  /\ wg_up \in BOOLEAN
  /\ wg \in Peer
  /\ applied \in [tag : Release, entry : Entries] \cup {NoConfig}
  /\ endpoint_ok \in BOOLEAN
  /\ failure \in Failures \cup {None}
  /\ cache_text \in Release
  /\ alerted \in BOOLEAN
  /\ cache \in File /\ tmp \in File
  /\ writing \in {"no", "open", "full"}
  /\ beat \in {"none", "ours", "leftover"}
  /\ release \in [1..MaxReleases -> Entries \cup {Absent}]
  /\ newest \in Release
  /\ touched \in BOOLEAN /\ gone_back \in BOOLEAN
  /\ ran \in BOOLEAN /\ fallen_back \in BOOLEAN /\ disk_failed \in BOOLEAN

Init ==
  /\ tolerate \in BOOLEAN /\ fetched \in BOOLEAN
  /\ pc = "settings"
  /\ wg_up = FALSE /\ wg = NoPeer
  /\ applied = NoConfig /\ endpoint_ok = TRUE
  /\ failure = None /\ cache_text = 0 /\ alerted = FALSE
  /\ writing = "no"
  /\ fallen_back = FALSE
  /\ boots = 1
  /\ cache = NoFile /\ tmp = NoFile /\ beat = "none"
  /\ release \in [1..MaxReleases -> Entries \cup {Absent}]
  /\ newest \in IF fetched THEN 1..MaxReleases ELSE {0}
  /\ touched = FALSE /\ gone_back = FALSE /\ ran = FALSE /\ disk_failed = FALSE

-----------------------------------------------------------------------------
(* The clean-up of a path that fails: the interface down, which is best    *)
(* effort but for the model succeeds, then /fail with the reason, exit 1.  *)
TakeDown ==
  /\ pc = "down"
  /\ wg_up' = FALSE /\ wg' = NoPeer
  /\ pc' = "alert"
  /\ UNCHANGED <<boots, bootVars, alerted, fileVars, hubVars, touched, history>>

Alert ==
  /\ pc = "alert"
  /\ alerted' = TRUE
  /\ pc' = "refused"
  /\ UNCHANGED <<boots, wg_up, wg, bootVars, fileVars, hubVars, touched, history>>

ReadSettings ==
  /\ pc = "settings"
  /\ pc' = "create"
  /\ UNCHANGED <<boots, wg_up, wg, bootVars, alerted, fileVars, hubVars, touched, history>>

(* Settings::from_env's error returns through `?`: no interface yet, and   *)
(* no /fail.                                                               *)
SettingsFail ==
  /\ pc = "settings"
  /\ pc' = "invalid"
  /\ UNCHANGED <<boots, wg_up, wg, bootVars, alerted, fileVars, hubVars, touched, history>>

(* Interface::create: the link, then its key.                              *)
Create ==
  /\ pc = "create"
  /\ wg_up' = TRUE /\ wg' = NoPeer
  /\ pc' = "key"
  /\ UNCHANGED <<boots, bootVars, alerted, fileVars, hubVars, touched, history>>

(* Before the link, or at it, when `create` takes down what is not there.  *)
CreateFails ==
  /\ pc = "create"
  /\ pc' \in {"down", "alert"}
  /\ UNCHANGED <<boots, wg_up, wg, bootVars, alerted, fileVars, hubVars, touched, history>>

SetKey ==
  /\ pc = "key"
  /\ pc' = "obtain"
  /\ UNCHANGED <<boots, wg_up, wg, bootVars, alerted, fileVars, hubVars, touched, history>>

(* `create` takes down the link it made; boot_tunnel only alerts.          *)
SetKeyFails ==
  /\ pc = "key"
  /\ pc' = "down"
  /\ UNCHANGED <<boots, wg_up, wg, bootVars, alerted, fileVars, hubVars, touched, history>>

(* The configuration; `applied` holds it from here on, though the code     *)
(* names it so only after the apply.                                       *)
ObtainEnv ==
  /\ ~fetched
  /\ \E e \in Entries : applied' = [tag |-> 0, entry |-> e]
  /\ UNCHANGED <<failure, cache_text, fallen_back>>

ObtainBundle ==
  /\ fetched
  /\ cache_text' = newest
  /\ IF release[newest] # Absent
     THEN applied' = [tag |-> newest, entry |-> release[newest]] /\ UNCHANGED failure
     ELSE failure' = "NotEnrolled" /\ UNCHANGED applied
  /\ UNCHANGED fallen_back

(* The cache is the fallback; one that does not parse, or without this     *)
(* spoke's entry, counts as none.                                          *)
CacheUsable == cache.tag # 0 /\ cache.whole /\ release[cache.tag] # Absent

ObtainCached ==
  /\ fetched
  /\ IF CacheUsable
     THEN applied' = [tag |-> cache.tag, entry |-> release[cache.tag]] /\ UNCHANGED failure
     ELSE failure' = "ConfigUnavailable" /\ UNCHANGED applied
  /\ fallen_back' = TRUE
  /\ UNCHANGED cache_text

Obtain ==
  /\ pc = "obtain"
  /\ ObtainEnv \/ ObtainBundle \/ ObtainCached
  /\ pc' = IF failure' = None THEN "apply" ELSE "gate"
  /\ UNCHANGED <<boots, wg_up, wg, endpoint_ok, alerted, fileVars, hubVars, touched,
                 gone_back, ran, disk_failed>>

(* The apply ends with the endpoint, whose failure is no local one.        *)
Apply ==
  /\ pc = "apply"
  /\ \E resolved \in BOOLEAN :
       /\ wg' = [NoPeer EXCEPT !.hub = applied.entry.hub,
                               !.endpoint = IF resolved THEN applied.entry.endpoint ELSE @]
       /\ endpoint_ok' = resolved
       /\ failure' = IF resolved THEN None ELSE "EndpointUnresolvable"
       /\ pc' = IF resolved THEN "handshake" ELSE "gate"
  /\ UNCHANGED <<boots, wg_up, applied, cache_text, alerted, fileVars, hubVars, touched, history>>

(* A local command of the plan fails: its endpoint is not set any more.    *)
ApplyFails ==
  /\ pc = "apply"
  /\ wg' \in {wg, [NoPeer EXCEPT !.hub = applied.entry.hub]}
  /\ pc' = "down"
  /\ UNCHANGED <<boots, wg_up, bootVars, alerted, fileVars, hubVars, touched, history>>

(* wait_handshake: seen, or not in time                                    *)
WaitHandshake ==
  /\ pc = "handshake"
  /\ \/ wg.handshake # Never /\ UNCHANGED failure
     \/ wg.handshake = Never /\ failure' = "NoHandshake"
  /\ pc' = "gate"
  /\ UNCHANGED <<boots, wg_up, wg, applied, endpoint_ok, cache_text, alerted,
                 fileVars, hubVars, touched, history>>

(* `wg show` fails                                                         *)
WaitFails ==
  /\ pc = "handshake"
  /\ pc' = "down"
  /\ UNCHANGED <<boots, wg_up, wg, bootVars, alerted, fileVars, hubVars, touched, history>>

(* The gate: Connected, or Disconnected under the switch and announced.    *)
Gate ==
  /\ pc = "gate"
  /\ pc' = IF failure = None THEN "prepare" ELSE IF tolerate THEN "announce" ELSE "down"
  /\ UNCHANGED <<boots, wg_up, wg, bootVars, alerted, fileVars, hubVars, touched, history>>

Announce ==
  /\ pc = "announce"
  /\ alerted' = TRUE
  /\ pc' = "prepare"
  /\ UNCHANGED <<boots, wg_up, wg, bootVars, fileVars, hubVars, touched, history>>

-----------------------------------------------------------------------------
Prepare ==
  /\ pc = "prepare"
  /\ pc' = "consent_dir"
  /\ touched' = TRUE
  /\ UNCHANGED <<boots, wg_up, wg, bootVars, alerted, fileVars, hubVars, history>>

(* At any entry; the closure `down` cleans up here and in the steps after. *)
PrepareFails ==
  /\ pc = "prepare"
  /\ pc' = "down"
  /\ touched' = TRUE
  /\ UNCHANGED <<boots, wg_up, wg, bootVars, alerted, fileVars, hubVars, history>>

ConsentDir ==
  /\ pc = "consent_dir"
  /\ pc' = IF cache_text = 0 THEN "unbeat" ELSE "cache"
  /\ UNCHANGED <<boots, wg_up, wg, bootVars, alerted, fileVars, hubVars, touched, history>>

ConsentDirFails ==
  /\ pc = "consent_dir"
  /\ pc' = "down"
  /\ UNCHANGED <<boots, wg_up, wg, bootVars, alerted, fileVars, hubVars, touched, history>>

(* cache::write, of the boot and of the run: open and truncate, write,     *)
(* rename.  A failure of any of these is logged and forgotten.             *)
Caching == pc = "cache" \/ (pc = "running" /\ cache_text # 0)

(* MUTANT of CacheOpen: the file itself is opened and written.             *)
CacheOpenInPlace ==
  /\ Caching /\ writing = "no"
  /\ tmp' = [tag |-> cache_text, whole |-> FALSE]
  /\ cache' = tmp'
  /\ writing' = "open" /\ touched' = TRUE
  /\ UNCHANGED <<pc, boots, wg_up, wg, bootVars, alerted, beat, hubVars, history>>

CacheOpen ==
  /\ Caching /\ writing = "no"
  /\ tmp' = [tag |-> cache_text, whole |-> FALSE]
  /\ writing' = "open" /\ touched' = TRUE
  /\ UNCHANGED <<pc, boots, wg_up, wg, bootVars, alerted, cache, beat, hubVars, history>>

CacheFill ==
  /\ writing = "open" /\ Caching
  /\ tmp' = [tmp EXCEPT !.whole = TRUE]
  /\ writing' = "full"
  /\ UNCHANGED <<pc, boots, wg_up, wg, bootVars, alerted, cache, beat, hubVars, touched,
                 history>>

(* What comes after the write, of the boot or of the run: the run applies  *)
(* the release, unless it drops the spoke.                                 *)
CacheDone ==
  /\ writing' = "no" /\ cache_text' = 0
  /\ \/ /\ pc = "cache" /\ pc' = "unbeat"
        /\ UNCHANGED <<applied, ran>>
     \/ /\ pc = "running" /\ UNCHANGED pc
        /\ IF release[cache_text] # Absent
           THEN /\ applied' = [tag |-> cache_text, entry |-> release[cache_text]]
                /\ ran' = TRUE
           ELSE UNCHANGED <<applied, ran>>
  /\ UNCHANGED <<boots, wg_up, wg, endpoint_ok, failure, alerted, beat, hubVars, touched,
                 gone_back, fallen_back>>

(* MUTANT of CacheRename: the bundle of the boot is not cached.            *)
CacheRenameAtBoot ==
  /\ writing = "full" /\ Caching
  /\ cache' = IF pc = "cache" THEN cache ELSE tmp
  /\ tmp' = NoFile /\ UNCHANGED disk_failed
  /\ CacheDone

CacheRename ==
  /\ writing = "full" /\ Caching
  /\ cache' = tmp /\ tmp' = NoFile
  /\ UNCHANGED disk_failed
  /\ CacheDone

CacheFails ==
  /\ Caching
  /\ disk_failed' = TRUE
  /\ UNCHANGED <<cache, tmp>>
  /\ CacheDone

(* MUTANT of Unbeat: removed only when the tunnel starts Disconnected.     *)
UnbeatDisconnected ==
  /\ pc = "unbeat"
  /\ beat' = IF failure = None THEN beat ELSE "none"
  /\ pc' = "scripts"
  /\ ran' = (ran \/ (fetched /\ applied # NoConfig))
  /\ touched' = TRUE
  /\ UNCHANGED <<boots, wg_up, wg, bootVars, alerted, cache, tmp, writing, hubVars,
                 gone_back, fallen_back, disk_failed>>

(* The heartbeat an earlier run left is removed, best effort.              *)
Unbeat ==
  /\ pc = "unbeat"
  /\ \/ beat' = "none" /\ UNCHANGED disk_failed
     \/ disk_failed' = TRUE /\ UNCHANGED beat
  /\ pc' = "scripts"
  /\ ran' = (ran \/ (fetched /\ applied # NoConfig))
  /\ touched' = TRUE
  /\ UNCHANGED <<boots, wg_up, wg, bootVars, alerted, cache, tmp, writing, hubVars,
                 gone_back, fallen_back>>

Scripts ==
  /\ pc = "scripts"
  /\ pc' = "handover"
  /\ UNCHANGED <<boots, wg_up, wg, bootVars, alerted, fileVars, hubVars, touched, history>>

(* MUTANT of ScriptsFail: a failed startup script leaves wg0 up.           *)
ScriptsFailUp ==
  /\ pc = "scripts"
  /\ pc' = "alert"
  /\ UNCHANGED <<boots, wg_up, wg, bootVars, alerted, fileVars, hubVars, touched, history>>

ScriptsFail ==
  /\ pc = "scripts"
  /\ pc' = "down"
  /\ UNCHANGED <<boots, wg_up, wg, bootVars, alerted, fileVars, hubVars, touched, history>>

HandOver ==
  /\ pc = "handover"
  /\ pc' = "running"
  /\ UNCHANGED <<boots, wg_up, wg, bootVars, alerted, fileVars, hubVars, touched, history>>

-----------------------------------------------------------------------------
(* The run: a poll that finds a fresh handshake, which is Tunnel.tla's to  *)
(* say, writes the heartbeat; a fetch that finds another release, older or *)
(* newer, caches it.                                                       *)
RunBeats ==
  /\ pc = "running" /\ writing = "no"
  /\ applied # NoConfig
  /\ beat' = "ours"
  /\ UNCHANGED <<pc, boots, wg_up, wg, bootVars, alerted, cache, tmp, writing, hubVars,
                 touched, history>>

RunFetches ==
  /\ pc = "running" /\ cache_text = 0
  /\ fetched /\ newest # applied.tag
  /\ cache_text' = newest
  /\ UNCHANGED <<pc, boots, wg_up, wg, applied, endpoint_ok, failure, alerted, fileVars,
                 hubVars, touched, history>>

(* Killed at any moment, or ended: the network namespace goes with it.     *)
Stop ==
  /\ pc # "over"
  /\ pc' = "over"
  /\ wg_up' = FALSE /\ wg' = NoPeer
  /\ UNCHANGED <<boots, bootVars, alerted, fileVars, hubVars, touched, history>>

Restart ==
  /\ pc = "over" /\ boots < MaxBoots
  /\ boots' = boots + 1
  /\ pc' = "settings"
  /\ applied' = NoConfig /\ endpoint_ok' = TRUE
  /\ failure' = None /\ cache_text' = 0 /\ alerted' = FALSE
  /\ writing' = "no" /\ fallen_back' = FALSE /\ touched' = FALSE
  /\ beat' = IF beat = "ours" THEN "leftover" ELSE beat
  /\ UNCHANGED <<wg_up, wg, cache, tmp, hubVars, gone_back, ran, disk_failed>>

Handshake ==
  /\ wg_up /\ wg.hub # None
  /\ wg' = [wg EXCEPT !.handshake = 0]
  /\ UNCHANGED <<pc, boots, wg_up, bootVars, alerted, fileVars, hubVars, touched, history>>

(* The hub moves to any other release, rolled back to an older one too.    *)
Publish ==
  /\ fetched
  /\ newest' \in (1..MaxReleases) \ {newest}
  /\ gone_back' = (gone_back \/ newest' < newest)
  /\ UNCHANGED <<settings, pc, boots, wg_up, wg, bootVars, alerted, fileVars, release,
                 touched, ran, fallen_back, disk_failed>>

Next ==
  \/ ReadSettings
  \/ SettingsFail
  \/ Create
  \/ CreateFails
  \/ SetKey
  \/ SetKeyFails
  \/ Obtain
  \/ Apply
  \/ ApplyFails
  \/ WaitHandshake
  \/ WaitFails
  \/ Gate
  \/ Announce
  \/ TakeDown
  \/ Alert
  \/ Prepare
  \/ PrepareFails
  \/ ConsentDir
  \/ ConsentDirFails
  \/ CacheOpen
  \/ CacheFill
  \/ CacheRename
  \/ CacheFails
  \/ Unbeat
  \/ Scripts
  \/ ScriptsFail
  \/ HandOver
  \/ RunBeats
  \/ RunFetches
  \/ Stop
  \/ Restart
  \/ Handshake
  \/ Publish

Spec == Init /\ [][Next]_vars

-----------------------------------------------------------------------------
(* Each path on which a boot is refused or breaks once its settings were   *)
(* read, with a clean-up of its own, ends with no wg0 and a /fail; and a   *)
(* boot that its tunnel's state refuses has touched no file (run.rs 69,    *)
(* 76-114, 189-195, 252-256, 270-300).                                     *)
RefusedCleanly ==
  /\ pc = "refused" => ~wg_up /\ alerted
  /\ failure # None /\ ~tolerate => ~touched

(* What the supervisor is handed: wg0 up and, if nothing is said to be     *)
(* wrong, a tunnel that had a handshake with the hub of the configuration  *)
(* applied, at its endpoint.  Anything else only under the switch, and     *)
(* announced; without a configuration only for the two reasons Tunnel.tla  *)
(* starts from.  No heartbeat of an earlier run is there to be taken for   *)
(* this one's, unless its removal failed (run.rs 108-110, 289-314).        *)
HandedOver ==
  pc = "handover" =>
    /\ wg_up
    /\ IF failure = None
       THEN wg = [hub |-> applied.entry.hub, endpoint |-> applied.entry.endpoint,
                  handshake |-> 0]
       ELSE tolerate /\ alerted
    /\ applied = NoConfig <=> failure \in {"ConfigUnavailable", "NotEnrolled"}
    /\ endpoint_ok <=> failure # "EndpointUnresolvable"
    /\ beat = "leftover" => disk_failed

(* Whatever the moment the container is killed, the cached bundle is a     *)
(* whole one; it is replaced by the bundle fetched last and by no other;   *)
(* and it goes back to an older release only if the hub once did (cache.rs *)
(* 1-3, 20-34).                                                            *)
CacheAdvances ==
  [][/\ cache'.whole
     /\ cache' # cache => cache'.tag = cache_text
     /\ cache'.tag < cache.tag => gone_back]_vars

(* Once a boot ran on a fetched configuration, no later boot is without    *)
(* one for want of the hub, unless the bundle cached since drops the spoke *)
(* or a disk write failed (cache.rs 1-3: so a boot can reach Connected     *)
(* with GitHub down).                                                      *)
OfflineBoot ==
  ran /\ fallen_back /\ failure = "ConfigUnavailable" /\ ~disk_failed /\ pc = "gate"
    => cache.tag # 0 /\ release[cache.tag] = Absent
=============================================================================
