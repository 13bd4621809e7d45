----------------------------- MODULE BootProofs -----------------------------
(***************************************************************************)
(* Proofs about Boot.tla: its safety properties for any configurations,    *)
(* any number of releases and any number of starts.                        *)
(***************************************************************************)
EXTENDS Boot, TLAPS

(* In fetched mode the hub always reports a release.                       *)
Shape == TypeOK /\ (fetched => newest # 0)

LEMMA AbsentIsNoEntry == Absent \notin Entries
  BY BootAssumption DEF Absent, None

(* A step that changes nothing but the step, wg0, the alert and `touched`. *)
LEMMA RestUnchanged ==
  ASSUME Shape, UNCHANGED <<boots, bootVars, fileVars, hubVars, history>>,
         pc' \in TunnelSteps \cup LaterSteps \cup CleanUp \cup {"invalid", "refused", "over"},
         wg_up' \in BOOLEAN, wg' \in Peer, alerted' \in BOOLEAN, touched' \in BOOLEAN
  PROVE  Shape'
<1> USE DEF Shape, TypeOK, fileVars, settings, hubVars, bootVars, history
<1>1. /\ tolerate' \in BOOLEAN /\ fetched' \in BOOLEAN /\ boots' \in 1..MaxBoots
      /\ endpoint_ok' \in BOOLEAN
      /\ gone_back' \in BOOLEAN
      /\ ran' \in BOOLEAN /\ fallen_back' \in BOOLEAN /\ disk_failed' \in BOOLEAN
  OBVIOUS
<1>2. /\ applied' \in [tag : Release, entry : Entries] \cup {NoConfig}
      /\ failure' \in Failures \cup {None}
      /\ cache_text' \in Release
  OBVIOUS
<1>3. /\ cache' \in File /\ tmp' \in File
      /\ writing' \in {"no", "open", "full"} /\ beat' \in {"none", "ours", "leftover"}
  OBVIOUS
<1>4. /\ release' \in [1..MaxReleases -> Entries \cup {Absent}]
      /\ newest' \in Release /\ (fetched' => newest' # 0)
  OBVIOUS
<1> QED
  BY <1>1, <1>2, <1>3, <1>4

LEMMA ShapeInvariant == Spec => []Shape
<1> USE BootAssumption, AbsentIsNoEntry
<1>0. /\ NoFile \in File /\ 0 \in Release
      /\ NoPeer \in Peer
  BY DEF NoFile, File, Release, NoPeer, Peer
<1>1. Init => Shape
  <2> SUFFICES ASSUME Init PROVE Shape
    OBVIOUS
  <2>1. newest \in Release /\ (fetched => newest # 0) /\ boots \in 1..MaxBoots
    BY DEF Init, Release
  <2>2. /\ tolerate \in BOOLEAN /\ fetched \in BOOLEAN
        /\ pc \in TunnelSteps
        /\ failure = None /\ writing = "no" /\ beat = "none"
    BY DEF Init, TunnelSteps
  <2>3. /\ wg_up = FALSE /\ endpoint_ok = TRUE /\ alerted = FALSE
        /\ ran = FALSE /\ fallen_back = FALSE /\ disk_failed = FALSE
        /\ touched = FALSE /\ gone_back = FALSE
    BY DEF Init
  <2>4. /\ wg = NoPeer /\ applied = NoConfig /\ cache_text = 0
        /\ cache = NoFile /\ tmp = NoFile
        /\ release \in [1..MaxReleases -> Entries \cup {Absent}]
    BY DEF Init
  <2> QED
    BY <1>0, <2>1, <2>2, <2>3, <2>4 DEF Shape, TypeOK
<1>2. Shape /\ [Next]_vars => Shape'
  <2> SUFFICES ASSUME Shape, [Next]_vars PROVE Shape'
    OBVIOUS
  <2> USE DEF Shape, TypeOK, TunnelSteps, LaterSteps, fileVars, settings, hubVars, bootVars, history
  <2>1. CASE ReadSettings \/ SettingsFail \/ SetKey \/ SetKeyFails \/ CreateFails
    <3>1. pc' \in {"create", "invalid", "obtain", "down", "alert"}
      BY <2>1 DEF ReadSettings, SettingsFail, SetKey, SetKeyFails, CreateFails
    <3>2. UNCHANGED <<boots, bootVars, fileVars, hubVars, history, wg_up, wg, alerted, touched>>
      BY <2>1 DEF ReadSettings, SettingsFail, SetKey, SetKeyFails, CreateFails
    <3> QED
      BY <3>1, <3>2, RestUnchanged DEF CleanUp
  <2>2. CASE Create \/ TakeDown
    <3>1. pc' \in {"key", "alert"} /\ wg_up' \in BOOLEAN /\ wg' \in Peer
      BY <1>0, <2>2 DEF Create, TakeDown
    <3>2. UNCHANGED <<boots, bootVars, fileVars, hubVars, history, alerted, touched>>
      BY <2>2 DEF Create, TakeDown
    <3> QED
      BY <3>1, <3>2, RestUnchanged DEF CleanUp
  <2>3. CASE Gate \/ Announce \/ Alert \/ WaitFails
    <3>1. pc' \in {"prepare", "announce", "down", "refused"} /\ alerted' \in BOOLEAN
      BY <2>3 DEF Gate, Announce, Alert, WaitFails
    <3>2. UNCHANGED <<boots, bootVars, fileVars, hubVars, history, wg_up, wg, touched>>
      BY <2>3 DEF Gate, Announce, Alert, WaitFails
    <3> QED
      BY <3>1, <3>2, RestUnchanged DEF CleanUp
  <2>16. CASE Prepare \/ PrepareFails \/ ConsentDir \/ ConsentDirFails
    <3>1. pc' \in {"consent_dir", "unbeat", "cache", "down"} /\ touched' \in BOOLEAN
      BY <2>16 DEF Prepare, PrepareFails, ConsentDir, ConsentDirFails
    <3>2. UNCHANGED <<boots, bootVars, fileVars, hubVars, history, wg_up, wg, alerted>>
      BY <2>16 DEF Prepare, PrepareFails, ConsentDir, ConsentDirFails
    <3> QED
      BY <3>1, <3>2, RestUnchanged DEF CleanUp
  <2>18. CASE Scripts \/ ScriptsFail \/ HandOver
    <3>1. pc' \in {"handover", "down", "running"}
      BY <2>18 DEF Scripts, ScriptsFail, HandOver
    <3>2. UNCHANGED <<boots, bootVars, fileVars, hubVars, history, wg_up, wg, alerted, touched>>
      BY <2>18 DEF Scripts, ScriptsFail, HandOver
    <3> QED
      BY <3>1, <3>2, RestUnchanged DEF CleanUp
  <2>19. CASE ApplyFails
    <3>1. applied.entry.hub \in {e.hub : e \in Entries} \cup {None}
      BY DEF NoConfig, Absent
    <3>2. pc' = "down" /\ wg' \in Peer
      BY <2>19, <3>1 DEF ApplyFails, NoPeer, Peer
    <3>3. UNCHANGED <<boots, bootVars, fileVars, hubVars, history, wg_up, alerted, touched>>
      BY <2>19 DEF ApplyFails
    <3> QED
      BY <3>2, <3>3, RestUnchanged DEF CleanUp
  <2>4. CASE Obtain
    <3>1. /\ applied' \in [tag : Release, entry : Entries] \cup {NoConfig}
          /\ failure' \in Failures \cup {None}
          /\ cache_text' \in Release
          /\ fallen_back' \in BOOLEAN
      <4>1. CASE ObtainEnv
        BY <4>1 DEF ObtainEnv, Release
      <4>2. CASE ObtainBundle
        BY <4>2 DEF ObtainBundle, Release, Failures
      <4>3. CASE ObtainCached
        BY <4>3 DEF ObtainCached, CacheUsable, Release, File, Failures
      <4> QED
        BY <2>4, <4>1, <4>2, <4>3 DEF Obtain
    <3> QED
      BY <2>4, <3>1 DEF Obtain
  <2>5. CASE Apply
    <3>1. applied.entry.hub \in {e.hub : e \in Entries} \cup {None}
      BY DEF NoConfig, Absent
    <3>2. applied.entry.endpoint \in {e.endpoint : e \in Entries} \cup {None}
      BY DEF NoConfig, Absent
    <3>3. PICK resolved \in BOOLEAN :
            /\ wg' = [NoPeer EXCEPT !.hub = applied.entry.hub,
                                    !.endpoint = IF resolved THEN applied.entry.endpoint ELSE @]
            /\ endpoint_ok' = resolved
            /\ failure' = IF resolved THEN None ELSE "EndpointUnresolvable"
            /\ pc' = IF resolved THEN "handshake" ELSE "gate"
      BY <2>5 DEF Apply
    <3>4. wg' \in Peer
      BY <3>1, <3>2, <3>3 DEF NoPeer, Peer
    <3> QED
      BY <2>5, <3>3, <3>4 DEF Apply, Failures
  <2>6. CASE WaitHandshake
    BY <2>6 DEF WaitHandshake, Failures
  <2>7. CASE CacheOpen
    <3>1. tmp' \in File
      BY <2>7 DEF CacheOpen, File
    <3> QED
      BY <2>7, <3>1 DEF CacheOpen
  <2>17. CASE CacheFill
    <3>1. tmp' \in File
      BY <2>17 DEF CacheFill, File
    <3> QED
      BY <2>17, <3>1 DEF CacheFill
  <2>8. CASE CacheRename \/ CacheFails
    <3>1. /\ cache' \in File /\ tmp' \in File
          /\ disk_failed' \in BOOLEAN
      BY <1>0, <2>8 DEF CacheRename, CacheFails
    <3>2. CacheDone
      BY <2>8 DEF CacheRename, CacheFails
    <3>3. /\ applied' \in [tag : Release, entry : Entries] \cup {NoConfig}
          /\ ran' \in BOOLEAN
      <4>1. CASE pc = "running" /\ release[cache_text] # Absent
        <5>1. cache_text # 0
          BY <2>8, <4>1 DEF CacheRename, CacheFails, Caching
        <5>2. release[cache_text] \in Entries
          BY <4>1, <5>1 DEF Release
        <5> QED
          BY <3>2, <4>1, <5>2 DEF CacheDone
      <4>2. CASE ~(pc = "running" /\ release[cache_text] # Absent)
        BY <3>2, <4>2 DEF CacheDone
      <4> QED
        BY <4>1, <4>2
    <3>4. pc' \in {"unbeat", "running"}
      BY <3>2 DEF CacheDone
    <3> QED
      BY <1>0, <3>1, <3>2, <3>3, <3>4 DEF CacheDone
  <2>9. CASE Unbeat
    <3>1. beat' \in {"none", "ours", "leftover"} /\ disk_failed' \in BOOLEAN
      BY <2>9 DEF Unbeat
    <3>2. ran' \in BOOLEAN
      BY <2>9, Zenon DEF Unbeat
    <3> QED
      BY <2>9, <3>1, <3>2 DEF Unbeat
  <2>10. CASE RunBeats \/ RunFetches
    BY <2>10 DEF RunBeats, RunFetches
  <2>11. CASE Stop
    <3>1. /\ pc' = "over" /\ wg_up' = FALSE /\ wg' \in Peer
          /\ alerted' = alerted /\ touched' = touched
      BY <1>0, <2>11 DEF Stop
    <3>2. UNCHANGED <<boots, bootVars, fileVars, hubVars, history>>
      BY <2>11 DEF Stop
    <3> QED
      BY <3>1, <3>2, RestUnchanged
  <2>12. CASE Restart
    <3>1. boots' \in 1..MaxBoots /\ beat' \in {"none", "ours", "leftover"}
      BY <2>12 DEF Restart
    <3> QED
      BY <1>0, <2>12, <3>1 DEF Restart
  <2>13. CASE Handshake
    BY <2>13 DEF Handshake, Peer
  <2>14. CASE Publish
    <3>1. gone_back' \in BOOLEAN
      BY <2>14, Zenon DEF Publish
    <3>2. newest' \in Release /\ newest' # 0
      BY <2>14 DEF Publish, Release
    <3> QED
      BY <2>14, <3>1, <3>2 DEF Publish
  <2>15. CASE UNCHANGED vars
    BY <2>15 DEF vars
  <2> QED
    BY <2>1, <2>2, <2>3, <2>4, <2>5, <2>6, <2>7, <2>8, <2>9, <2>10, <2>11, <2>12, <2>13,
       <2>14, <2>15, <2>16, <2>17, <2>18, <2>19 DEF Next
<1> QED
  BY <1>1, <1>2, PTL DEF Spec

(* The shape of the state is kept by every step (run.rs 60-300).           *)
THEOREM TypeCorrect == Spec => []TypeOK
<1>1. Shape => TypeOK
  BY DEF Shape
<1> QED
  BY <1>1, ShapeInvariant, PTL

-----------------------------------------------------------------------------
(* What a boot knows of its tunnel, step by step.                          *)
Before == {"settings", "create", "key", "obtain"}
Known == {"gate", "announce"} \cup (LaterSteps \ {"running"})

Progress ==
  /\ pc = "refused" => ~wg_up /\ alerted
  /\ pc \in {"settings", "create", "alert", "over"} => ~wg_up
  /\ pc \in (TunnelSteps \cup LaterSteps) \ {"settings", "create"} => wg_up
  /\ pc \in Before => failure = None /\ applied = NoConfig /\ endpoint_ok /\ cache_text = 0
  /\ pc \in {"apply", "handshake"} => failure = None /\ applied # NoConfig /\ endpoint_ok
  /\ pc = "handshake" => wg.hub = applied.entry.hub /\ wg.endpoint = applied.entry.endpoint
  /\ pc \in Known =>
       /\ failure = None => wg = [hub |-> applied.entry.hub, endpoint |-> applied.entry.endpoint,
                                  handshake |-> 0]
       /\ applied = NoConfig <=> failure \in {"ConfigUnavailable", "NotEnrolled"}
       /\ endpoint_ok <=> failure # "EndpointUnresolvable"
  /\ pc = "announce" => tolerate /\ failure # None
  /\ pc \in LaterSteps /\ failure # None => tolerate /\ alerted
  /\ pc \in TunnelSteps => ~touched
  /\ touched /\ failure # None => tolerate

LEMMA ProgressInvariant == Spec => []Progress
<1> USE BootAssumption, AbsentIsNoEntry
<1>1. Init => Progress
  BY DEF Init, Progress, TunnelSteps, LaterSteps, Before, Known
<1>2. Shape /\ Progress /\ [Next]_vars => Progress'
  <2> SUFFICES ASSUME Shape, Progress, [Next]_vars PROVE Progress'
    OBVIOUS
  <2> USE DEF Progress, TunnelSteps, LaterSteps, Before, Known, fileVars, settings, hubVars,
              bootVars, history
  <2>1. CASE ReadSettings \/ SettingsFail \/ Scripts \/ ScriptsFail \/ HandOver
    BY <2>1 DEF ReadSettings, SettingsFail, Scripts, ScriptsFail, HandOver
  <2>2. CASE Create \/ CreateFails \/ SetKey \/ SetKeyFails
    BY <2>2 DEF Create, CreateFails, SetKey, SetKeyFails
  <2>3. CASE TakeDown \/ Alert \/ WaitFails \/ ApplyFails
    BY <2>3 DEF TakeDown, Alert, WaitFails, ApplyFails
  <2>16. CASE Gate \/ Announce
    BY <2>16 DEF Gate, Announce
  <2>17. CASE Prepare \/ PrepareFails \/ ConsentDir \/ ConsentDirFails
    BY <2>17 DEF Prepare, PrepareFails, ConsentDir, ConsentDirFails
  <2>4. CASE Obtain
    <3>1. \/ failure' = None /\ applied' # NoConfig
          \/ failure' \in {"ConfigUnavailable", "NotEnrolled"} /\ applied' = NoConfig
      <4>0. pc = "obtain" /\ failure = None /\ applied = NoConfig
        BY <2>4 DEF Obtain
      <4>1. CASE ObtainEnv
        BY <4>0, <4>1 DEF ObtainEnv, NoConfig
      <4>2. CASE ObtainBundle
        BY <4>0, <4>2 DEF ObtainBundle, NoConfig
      <4>3. CASE ObtainCached
        BY <4>0, <4>3 DEF ObtainCached, CacheUsable, NoConfig
      <4> QED
        BY <2>4, <4>1, <4>2, <4>3 DEF Obtain
    <3> QED
      BY <2>4, <3>1 DEF Obtain, None
  <2>5. CASE Apply
    BY <2>5 DEF Apply, NoPeer, None
  <2>6. CASE WaitHandshake
    BY <2>6 DEF WaitHandshake, Shape, TypeOK, Peer, None
  <2>7. CASE CacheOpen \/ CacheFill
    BY <2>7 DEF CacheOpen, CacheFill, Caching
  <2>8. CASE CacheRename \/ CacheFails
    BY <2>8 DEF CacheRename, CacheFails, CacheDone, Caching
  <2>9. CASE Unbeat
    BY <2>9 DEF Unbeat
  <2>10. CASE RunBeats \/ RunFetches
    BY <2>10 DEF RunBeats, RunFetches
  <2>11. CASE Stop
    BY <2>11 DEF Stop
  <2>12. CASE Restart
    BY <2>12 DEF Restart
  <2>13. CASE Handshake
    BY <2>13 DEF Handshake
  <2>14. CASE Publish
    BY <2>14 DEF Publish
  <2>15. CASE UNCHANGED vars
    BY <2>15 DEF vars
  <2> QED
    BY <2>1, <2>2, <2>3, <2>4, <2>5, <2>6, <2>7, <2>8, <2>9, <2>10, <2>11, <2>12, <2>13,
       <2>14, <2>15, <2>16, <2>17 DEF Next
<1> QED
  BY <1>1, <1>2, ShapeInvariant, PTL DEF Spec

(* Whichever path refused it once its settings were read, a boot leaves no *)
(* wg0 and has sent /fail; one its tunnel's state refuses touched no file  *)
(* (run.rs 76-114, 170-300).                                               *)
THEOREM Refusals == Spec => []RefusedCleanly
<1>1. Progress => RefusedCleanly
  BY DEF Progress, RefusedCleanly
<1> QED
  BY <1>1, ProgressInvariant, PTL

(* From the startup scripts on no heartbeat of an earlier run is left,     *)
(* unless its removal failed.                                              *)
NoLeftoverBeat ==
  pc \in {"scripts", "handover", "running"} /\ beat = "leftover" => disk_failed

LEMMA BeatInvariant == Spec => []NoLeftoverBeat
<1>1. Init => NoLeftoverBeat
  BY DEF Init, NoLeftoverBeat
<1>2. NoLeftoverBeat /\ [Next]_vars => NoLeftoverBeat'
  <2> SUFFICES ASSUME NoLeftoverBeat, [Next]_vars PROVE NoLeftoverBeat'
    OBVIOUS
  <2> USE DEF NoLeftoverBeat, fileVars, hubVars, bootVars, history
  <2>1. CASE Unbeat \/ RunBeats \/ Stop \/ Restart
    BY <2>1 DEF Unbeat, RunBeats, Stop, Restart
  <2>2. CASE CacheRename \/ CacheFails
    BY <2>2 DEF CacheRename, CacheFails, CacheDone, Caching
  <2>3. CASE Next /\ ~(Unbeat \/ RunBeats \/ Stop \/ Restart \/ CacheRename \/ CacheFails)
    <3>1. CASE ReadSettings \/ SettingsFail \/ Create \/ CreateFails \/ SetKey \/ SetKeyFails
      BY <3>1 DEF ReadSettings, SettingsFail, Create, CreateFails, SetKey, SetKeyFails
    <3>2. CASE Obtain \/ Apply \/ ApplyFails \/ WaitHandshake \/ WaitFails
      BY <3>2 DEF Obtain, Apply, ApplyFails, WaitHandshake, WaitFails
    <3>3. CASE Gate \/ Announce \/ TakeDown \/ Alert \/ Prepare \/ PrepareFails
      BY <3>3 DEF Gate, Announce, TakeDown, Alert, Prepare, PrepareFails
    <3>4. CASE ConsentDir \/ ConsentDirFails \/ CacheOpen \/ CacheFill
      BY <3>4 DEF ConsentDir, ConsentDirFails, CacheOpen, CacheFill
    <3>5. CASE Scripts \/ ScriptsFail \/ HandOver \/ RunFetches \/ Handshake \/ Publish
      BY <3>5 DEF Scripts, ScriptsFail, HandOver, RunFetches, Handshake, Publish
    <3> QED
      BY <2>3, <3>1, <3>2, <3>3, <3>4, <3>5 DEF Next
  <2>4. CASE UNCHANGED vars
    BY <2>4 DEF vars
  <2> QED
    BY <2>1, <2>2, <2>3, <2>4
<1> QED
  BY <1>1, <1>2, PTL DEF Spec

(* What the supervisor is handed is what its reason says, and no heartbeat *)
(* of an earlier run (run.rs 108-110, 289-314).                            *)
THEOREM HandOvers == Spec => []HandedOver
<1>1. Progress /\ NoLeftoverBeat => HandedOver
  BY DEF Progress, NoLeftoverBeat, HandedOver, TunnelSteps, LaterSteps, Known
<1> QED
  BY <1>1, ProgressInvariant, BeatInvariant, PTL

-----------------------------------------------------------------------------
(* The cache: whole, and what is on its way to it is the bundle fetched    *)
(* last; as long as the hub never went back, the hub is never behind it.   *)
Cached ==
  /\ cache.whole
  /\ pc = "cache" => cache_text # 0
  /\ writing # "no" => cache_text # 0 /\ tmp.tag = cache_text
  /\ writing = "full" => tmp.whole

InOrder ==
  ~gone_back =>
    /\ cache.tag <= newest
    /\ cache_text # 0 => cache.tag <= cache_text /\ cache_text <= newest

Kept ==
  /\ ran /\ ~disk_failed => cache.tag # 0
  /\ /\ pc \in {"apply", "handshake", "gate", "announce", "prepare", "consent_dir",
                "cache", "unbeat"}
     /\ fetched /\ applied # NoConfig /\ ~disk_failed
     => cache.tag # 0 \/ cache_text # 0
  /\ pc = "unbeat" => cache_text = 0
  /\ pc = "gate" /\ failure = "ConfigUnavailable" => ~CacheUsable

LEMMA CachedInvariant == Spec => [](Cached /\ InOrder)
<1> USE BootAssumption
<1>1. Init => Cached /\ InOrder
  BY DEF Init, Cached, InOrder, NoFile, Release
<1>2. Shape /\ Progress /\ Cached /\ InOrder /\ [Next]_vars => Cached' /\ InOrder'
  <2> SUFFICES ASSUME Shape, Progress, Cached, InOrder, [Next]_vars PROVE Cached' /\ InOrder'
    OBVIOUS
  <2>0. /\ cache.tag \in Nat /\ cache_text \in Nat /\ newest \in Nat /\ tmp.tag \in Nat
        /\ MaxReleases \in Nat /\ fetched => newest # 0
        /\ cache \in File /\ tmp \in File
    BY DEF Shape, TypeOK, File, Release
  <2> USE <2>0 DEF Cached, InOrder, fileVars, settings, hubVars, bootVars, history
  <2>1. CASE ReadSettings \/ SettingsFail \/ Create \/ CreateFails \/ SetKey \/ SetKeyFails
    BY <2>1 DEF ReadSettings, SettingsFail, Create, CreateFails, SetKey, SetKeyFails
  <2>2. CASE Gate \/ Announce \/ TakeDown \/ Alert \/ Handshake
    BY <2>2 DEF Gate, Announce, TakeDown, Alert, Handshake
  <2>13. CASE Prepare \/ PrepareFails \/ ConsentDir \/ ConsentDirFails
    BY <2>13 DEF Prepare, PrepareFails, ConsentDir, ConsentDirFails
  <2>14. CASE Scripts \/ ScriptsFail \/ HandOver \/ ApplyFails \/ WaitFails
    BY <2>14 DEF Scripts, ScriptsFail, HandOver, ApplyFails, WaitFails
  <2>3. CASE Obtain
    <3>1. cache_text = 0 /\ writing = "no"
      BY <2>3 DEF Obtain, Progress, Before, Shape, TypeOK
    <3> QED
      BY <2>3, <3>1 DEF Obtain, ObtainEnv, ObtainBundle, ObtainCached
  <2>4. CASE Apply \/ WaitHandshake
    BY <2>4 DEF Apply, WaitHandshake
  <2>5. CASE CacheOpen
    BY <2>5 DEF CacheOpen, Caching
  <2>6. CASE CacheFill
    BY <2>6 DEF CacheFill, Caching, File
  <2>7. CASE CacheRename
    BY <2>7 DEF CacheRename, CacheDone, Caching
  <2>8. CASE CacheFails
    BY <2>8 DEF CacheFails, CacheDone, Caching
  <2>9. CASE Unbeat \/ RunBeats \/ RunFetches
    BY <2>9 DEF Unbeat, RunBeats, RunFetches
  <2>10. CASE Stop \/ Restart
    BY <2>10 DEF Stop, Restart
  <2>11. CASE Publish
    <3>1. ~gone_back' => ~gone_back /\ ~(newest' < newest)
      BY <2>11, Zenon DEF Publish
    <3>2. newest' \in Nat /\ UNCHANGED <<cache, tmp, cache_text, pc, writing>>
      BY <2>11 DEF Publish
    <3> QED
      BY <3>1, <3>2
  <2>12. CASE UNCHANGED vars
    BY <2>12 DEF vars
  <2> QED
    BY <2>1, <2>2, <2>3, <2>4, <2>5, <2>6, <2>7, <2>8, <2>9, <2>10, <2>11, <2>12,
       <2>13, <2>14 DEF Next
<1> QED
  BY <1>1, <1>2, ShapeInvariant, ProgressInvariant, PTL DEF Spec

(* Wherever it is killed, the cache is never half written, is replaced by  *)
(* the bundle fetched last only, and goes back to an older release only if *)
(* the hub once did (cache.rs 20-34).                                      *)
THEOREM CacheNeverBack == Spec => CacheAdvances
<1> DEFINE Advances == /\ cache'.whole
                       /\ cache' # cache => cache'.tag = cache_text
                       /\ cache'.tag < cache.tag => gone_back
<1>1. Shape /\ Cached /\ InOrder /\ [Next]_vars => [Advances]_vars
  <2> SUFFICES ASSUME Shape, Cached, InOrder, Next PROVE Advances
    OBVIOUS
  <2>0. cache.tag \in Nat /\ tmp.tag \in Nat /\ cache_text \in Nat
    BY DEF Shape, TypeOK, File, Release
  <2> USE <2>0 DEF Cached, InOrder, fileVars
  <2>1. CASE CacheRename
    BY <2>1 DEF CacheRename
  <2>2. CASE ~CacheRename
    <3>1. cache' = cache
      <4>1. CASE ReadSettings \/ SettingsFail \/ Create \/ CreateFails \/ SetKey \/ SetKeyFails
        BY <4>1 DEF ReadSettings, SettingsFail, Create, CreateFails, SetKey, SetKeyFails
      <4>2. CASE Obtain \/ Apply \/ ApplyFails \/ WaitHandshake \/ WaitFails
        BY <4>2 DEF Obtain, Apply, ApplyFails, WaitHandshake, WaitFails
      <4>3. CASE Gate \/ Announce \/ TakeDown \/ Alert \/ Prepare \/ PrepareFails
        BY <4>3 DEF Gate, Announce, TakeDown, Alert, Prepare, PrepareFails
      <4>4. CASE ConsentDir \/ ConsentDirFails \/ CacheOpen \/ CacheFill \/ CacheFails \/ Unbeat
        BY <4>4 DEF ConsentDir, ConsentDirFails, CacheOpen, CacheFill, CacheFails, Unbeat
      <4>5. CASE Scripts \/ ScriptsFail \/ HandOver \/ RunBeats \/ RunFetches
        BY <4>5 DEF Scripts, ScriptsFail, HandOver, RunBeats, RunFetches
      <4>6. CASE Stop \/ Restart \/ Handshake \/ Publish
        BY <4>6 DEF Stop, Restart, Handshake, Publish
      <4> QED
        BY <2>2, <4>1, <4>2, <4>3, <4>4, <4>5, <4>6 DEF Next
    <3> QED
      BY <3>1
  <2> QED
    BY <2>1, <2>2
<1> QED
  BY <1>1, ShapeInvariant, CachedInvariant, PTL DEF Spec, CacheAdvances

LEMMA KeptInvariant == Spec => []Kept
<1> USE BootAssumption
<1>1. Init => Kept
  BY DEF Init, Kept
<1>2. Shape /\ Progress /\ Cached /\ Kept /\ [Next]_vars => Kept'
  <2> SUFFICES ASSUME Shape, Progress, Cached, Kept, [Next]_vars PROVE Kept'
    OBVIOUS
  <2>0. fetched => newest # 0
    BY DEF Shape
  <2> USE <2>0 DEF Kept, fileVars, settings, hubVars, bootVars, history
  <2>1. CASE ReadSettings \/ SettingsFail \/ Create \/ CreateFails \/ SetKey \/ SetKeyFails
    BY <2>1 DEF ReadSettings, SettingsFail, Create, CreateFails, SetKey, SetKeyFails, CacheUsable
  <2>2. CASE Gate \/ Announce \/ TakeDown \/ Alert \/ Handshake
    BY <2>2 DEF Gate, Announce, TakeDown, Alert, Handshake, CacheUsable
  <2>13. CASE Prepare \/ PrepareFails \/ ConsentDir \/ ConsentDirFails
    BY <2>13 DEF Prepare, PrepareFails, ConsentDir, ConsentDirFails, CacheUsable
  <2>14. CASE Scripts \/ ScriptsFail \/ HandOver \/ ApplyFails \/ WaitFails
    BY <2>14 DEF Scripts, ScriptsFail, HandOver, ApplyFails, WaitFails, CacheUsable
  <2>3. CASE Obtain
    <3>0. /\ pc = "obtain" /\ failure = None /\ applied = NoConfig /\ cache_text = 0
          /\ pc' \in {"apply", "gate"}
          /\ UNCHANGED <<cache, disk_failed, ran, fetched, release>>
      BY <2>3 DEF Obtain, Progress, Before
    <3>1. CASE ObtainEnv
      BY <3>0, <3>1 DEF ObtainEnv, None
    <3>2. CASE ObtainBundle
      BY <3>0, <3>2 DEF ObtainBundle, None
    <3>3. CASE ObtainCached
      BY <3>0, <3>3 DEF ObtainCached, CacheUsable, None
    <3> QED
      BY <2>3, <3>1, <3>2, <3>3 DEF Obtain
  <2>4. CASE Apply \/ WaitHandshake
    <3>1. /\ failure' # "ConfigUnavailable"
          /\ pc \in {"apply", "handshake"} /\ pc' \in {"handshake", "gate"}
      BY <2>4 DEF Apply, WaitHandshake, Progress, None
    <3>2. UNCHANGED <<cache, cache_text, disk_failed, ran, fetched, applied>>
      BY <2>4 DEF Apply, WaitHandshake
    <3> QED
      BY <3>1, <3>2
  <2>5. CASE CacheOpen \/ CacheFill
    BY <2>5 DEF CacheOpen, CacheFill, Caching, CacheUsable
  <2>6. CASE CacheRename
    BY <2>6 DEF CacheRename, CacheDone, Caching, Cached
  <2>7. CASE CacheFails
    BY <2>7 DEF CacheFails, CacheDone, Caching
  <2>8. CASE Unbeat
    <3>1. /\ pc = "unbeat" /\ pc' = "scripts"
          /\ UNCHANGED <<cache, cache_text>>
          /\ disk_failed => disk_failed'
      BY <2>8 DEF Unbeat, Shape, TypeOK
    <3>2. ran' => ran \/ (fetched /\ applied # NoConfig)
      BY <2>8, Zenon DEF Unbeat
    <3> QED
      BY <3>1, <3>2
  <2>12. CASE RunBeats \/ RunFetches
    BY <2>12 DEF RunBeats, RunFetches
  <2>9. CASE Stop \/ Restart
    BY <2>9 DEF Stop, Restart, CacheUsable
  <2>10. CASE Publish
    BY <2>10 DEF Publish, CacheUsable
  <2>11. CASE UNCHANGED vars
    BY <2>11 DEF vars, CacheUsable
  <2> QED
    BY <2>1, <2>2, <2>3, <2>4, <2>5, <2>6, <2>7, <2>8, <2>9, <2>10, <2>11, <2>12,
       <2>13, <2>14 DEF Next
<1> QED
  BY <1>1, <1>2, ShapeInvariant, ProgressInvariant, CachedInvariant, PTL DEF Spec

(* A boot after one that ran on a fetched configuration has one again with *)
(* the hub away, unless the bundle cached since drops the spoke or a disk  *)
(* write failed (cache.rs 1-3).                                            *)
THEOREM Offline == Spec => []OfflineBoot
<1>1. Cached /\ Kept => OfflineBoot
  BY DEF Cached, Kept, OfflineBoot, CacheUsable
<1> QED
  BY <1>1, CachedInvariant, KeptInvariant, PTL
=============================================================================
