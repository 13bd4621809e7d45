-------------------------- MODULE SupervisorProofs --------------------------
(***************************************************************************)
(* Proofs about Supervisor.tla: its safety properties for any number of    *)
(* daemons and of signals.                                                 *)
(***************************************************************************)
EXTENDS Supervisor, SequenceTheorems, TLAPS

LEMMA ScriptIsOfSteps ==
  ASSUME NEW why, NEW code
  PROVE  Script(why, code) \in Seq(Steps)
<1> DEFINE Long == <<"stopApp", "stopDaemons", "down", "fail">>
           Short == <<"stop", "down", "fail">>
<1>1. /\ <<"stopDaemons", "down", "fail">> \in Seq(Steps)
      /\ <<"fail", "stopApp", "stopDaemons", "down">> \in Seq(Steps)
      /\ <<"fail", "stop", "down">> \in Seq(Steps)
      /\ <<"stopApp", "stopDaemons", "down">> \in Seq(Steps)
      /\ <<"stop", "down">> \in Seq(Steps)
      /\ Long \in Seq(Steps)
      /\ Short \in Seq(Steps)
  BY DEF Steps, StopSteps
<1> HIDE DEF Long, Short
<1>2. CASE why \in {"SpawnDaemon", "SpawnApp"}
  BY <1>1, <1>2 DEF Script
<1>3. CASE why = "Removed"
  BY <1>1, <1>3 DEF Script
<1>4. CASE why = "AppExit" /\ code = 0
  BY <1>1, <1>4 DEF Script
<1>5. CASE /\ why \notin {"SpawnDaemon", "SpawnApp", "Removed"}
           /\ ~(why = "AppExit" /\ code = 0)
  BY <1>1, <1>5 DEF Script, Long, Short
<1> QED
  BY <1>2, <1>3, <1>4, <1>5

(* The shape of the state, which needs that a stop has steps left.         *)
Shape == TypeOK /\ (pc = "wait" => script # <<>>)

LEMMA ShapeInvariant == Spec => []Shape
<1>1. Init => Shape
  BY SupervisorAssumption
     DEF Init, Shape, TypeOK, Exits, Steps, StopSteps, Procs, Signals
<1>2. Shape /\ [Next]_vars => Shape'
  <2> SUFFICES ASSUME Shape, [Next]_vars PROVE Shape'
    OBVIOUS
  <2> USE SupervisorAssumption
      DEF Shape, TypeOK, procVars, signalVars, endVars, Exits, Signals, Forwarded
  <2>1. CASE SetUp
    BY <2>1 DEF SetUp
  <2>2. CASE SetUpFails
    BY <2>2 DEF SetUpFails
  <2>3. ASSUME NEW p \in Procs, Spawn(p) PROVE Shape'
    BY <2>3 DEF Spawn
  <2>4. ASSUME NEW p \in Procs, SpawnFails(p) PROVE Shape'
    BY <2>4, ScriptIsOfSteps DEF SpawnFails, Shutdown
  <2>5. CASE Forward
    <3>1. sent' \in [Procs -> SUBSET Signals]
      <4>1. \A p \in Procs : sent[p] \cup flags \in SUBSET Signals
        OBVIOUS
      <4>2. ToDaemons \subseteq flags
        BY DEF ToDaemons
      <4>3. \A p \in Procs : sent[p] \cup ToDaemons \in SUBSET Signals
        BY <4>1, <4>2
      <4> HIDE DEF ToDaemons
      <4> QED
        BY <2>5, <4>1, <4>3 DEF Forward, SendTo
    <3>2. stopping' \in BOOLEAN
      BY <2>5 DEF Forward
    <3> QED
      BY <2>5, <3>1, <3>2 DEF Forward
  <2>6. CASE Reap
    BY <2>6, ScriptIsOfSteps DEF Reap, ReapAll, Shutdown
  <2>7. CASE TunnelStep
    BY <2>7, ScriptIsOfSteps DEF TunnelStep, Shutdown
  <2>8. CASE StopBegins
    <3>1. sent' \in [Procs -> SUBSET Signals]
      BY <2>8 DEF StopBegins, SendTo, AppSignal
    <3> QED
      BY <2>8, <3>1 DEF StopBegins
  <2>9. CASE StopReaps
    BY <2>9 DEF StopReaps, ReapAll
  <2>10. script # <<>> => Tail(script) \in Seq(Steps)
    BY HeadTailProperties
  <2>11. CASE StopEnds
    BY <2>10, <2>11 DEF StopEnds
  <2>12. CASE StopKills
    <3>1. sent' \in [Procs -> SUBSET Signals]
      BY <2>12 DEF StopKills, SendTo
    <3>2. live' \subseteq Procs
      BY <2>12 DEF StopKills, ReapAll
    <3>3. proc' \in [Procs -> {"unborn", "running", "zombie", "reaped"}]
      BY <2>12 DEF StopKills, ReapAll
    <3>4. script' \in Seq(Steps)
      BY <2>10, <2>12 DEF StopKills
    <3> QED
      BY <2>12, <3>1, <3>2, <3>3, <3>4 DEF StopKills
  <2>13. CASE Down
    BY <2>10, <2>13 DEF Down
  <2>14. CASE Fail
    BY <2>10, <2>14 DEF Fail
  <2>15. CASE Return
    BY <2>15 DEF Return, ExitCode, App, Procs
  <2>16. CASE GraceEnds
    BY <2>16 DEF GraceEnds
  <2>17. ASSUME NEW p \in Procs, Die(p) PROVE Shape'
    BY <2>17 DEF Die
  <2>18. ASSUME NEW sig \in Forwarded, Signal(sig) PROVE Shape'
    BY <2>18 DEF Signal
  <2>19. CASE UNCHANGED vars
    BY <2>19 DEF vars
  <2> QED
    BY <2>1, <2>2, <2>3, <2>4, <2>5, <2>6, <2>7, <2>8, <2>9, <2>11, <2>12, <2>13,
       <2>14, <2>15, <2>16, <2>17, <2>18, <2>19 DEF Next, Supervise
<1> QED
  BY <1>1, <1>2, PTL DEF Spec

(* The shape of the state is kept by every step (supervisor.rs 402-733).   *)
THEOREM TypeCorrect == Spec => []TypeOK
<1>1. Shape => TypeOK
  BY DEF Shape
<1> QED
  BY <1>1, ShapeInvariant, PTL

-----------------------------------------------------------------------------
(* The list of children is exact, and the app is in it while the loop runs.*)
Running == {"forward", "reap", "tunnel"}
Life ==
  /\ live = {p \in Procs : proc[p] \in {"running", "zombie"}}
  /\ pc \in {"setup", "spawn"} =>
       proc[App] = "unborn" /\ \A p \in Procs : sent[p] = {}
  /\ pc \in Running => App \in live
  /\ exit = "None" <=> pc \in {"setup", "spawn"} \cup Running
  /\ exit = "Setup" => pc = "done"

LEMMA LifeInvariant == Spec => []Life
<1>1. Init => Life
  BY SupervisorAssumption DEF Init, Life, Procs, App, Running
<1>2. Shape /\ Life /\ [Next]_vars => Life'
  <2> SUFFICES ASSUME Shape, Life, [Next]_vars PROVE Life'
    OBVIOUS
  <2>0. App \in Procs
    BY SupervisorAssumption DEF App, Procs
  <2> USE <2>0 DEF Shape, TypeOK, Life, procVars, signalVars, endVars, Running
  <2>1. CASE SetUp
    BY <2>1 DEF SetUp
  <2>2. CASE SetUpFails
    BY <2>2 DEF SetUpFails
  <2>3. ASSUME NEW p \in Procs, Spawn(p) PROVE Life'
    BY <2>3 DEF Spawn
  <2>4. ASSUME NEW p \in Procs, SpawnFails(p) PROVE Life'
    BY <2>4 DEF SpawnFails, Shutdown
  <2>5. CASE Forward
    BY <2>5 DEF Forward
  <2>6. CASE Reap
    BY <2>6 DEF Reap, ReapAll, Shutdown, Zombies, Dead
  <2>7. CASE TunnelStep
    BY <2>7 DEF TunnelStep, Shutdown
  <2>8. CASE StopBegins
    BY <2>8 DEF StopBegins
  <2>9. CASE StopReaps
    BY <2>9 DEF StopReaps, ReapAll, Zombies, Dead
  <2>10. CASE StopEnds
    BY <2>10 DEF StopEnds
  <2>11. CASE StopKills
    BY <2>11 DEF StopKills, ReapAll, Left
  <2>12. CASE Down \/ Fail \/ Return
    BY <2>12 DEF Down, Fail, Return
  <2>13. CASE GraceEnds
    BY <2>13 DEF GraceEnds
  <2>14. ASSUME NEW p \in Procs, Die(p) PROVE Life'
    BY <2>14 DEF Die
  <2>15. ASSUME NEW sig \in Forwarded, Signal(sig) PROVE Life'
    BY <2>15 DEF Signal
  <2>16. CASE UNCHANGED vars
    BY <2>16 DEF vars
  <2> QED
    BY <2>1, <2>2, <2>3, <2>4, <2>5, <2>6, <2>7, <2>8, <2>9, <2>10, <2>11, <2>12,
       <2>13, <2>14, <2>15, <2>16 DEF Next, Supervise
<1> QED
  BY <1>1, <1>2, ShapeInvariant, PTL DEF Spec

(* No kill goes to a process that was reaped (supervisor.rs 402-444,       *)
(* 595-607).                                                               *)
THEOREM NoKillOfReaped == Spec => SignalsOnlyUnreaped
<1> DEFINE Unreaped(p) == proc[p] \in {"running", "zombie"}
<1>1. Shape /\ Life /\ [Next]_vars
        => [\A p \in Procs : sent'[p] # sent[p] => Unreaped(p)]_vars
  <2> SUFFICES ASSUME Shape, Life, Next, NEW p \in Procs, sent'[p] # sent[p]
               PROVE  p \in live
    BY DEF vars, Life
  <2> USE DEF Shape, TypeOK, Life, SendTo
  <2>1. CASE Forward
    BY <2>1 DEF Forward, Running
  <2>2. CASE StopBegins
    BY <2>2 DEF StopBegins, Left
  <2>3. CASE StopKills
    BY <2>3 DEF StopKills, Left
  <2>4. CASE sent' = sent
    BY <2>4
  <2> QED
    BY <2>1, <2>2, <2>3, <2>4
       DEF Next, Supervise, SetUp, SetUpFails, Spawn, SpawnFails, Reap, TunnelStep,
           StopReaps, StopEnds, Down, Fail, Return, GraceEnds, Die, Signal
<1> QED
  BY <1>1, ShapeInvariant, LifeInvariant, PTL DEF Spec, SignalsOnlyUnreaped

-----------------------------------------------------------------------------
(* What a shutdown path has left to do, by what it still owes.             *)
AppNext == {<<"fail", "stopApp", "stopDaemons", "down">>,
            <<"stopApp", "stopDaemons", "down">>,
            <<"stopApp", "stopDaemons", "down", "fail">>}
AllNext == {<<"fail", "stop", "down">>, <<"stop", "down">>, <<"stop", "down", "fail">>}
DaemonsNext == {<<"stopDaemons", "down">>, <<"stopDaemons", "down", "fail">>}
DownNext == {<<"down">>, <<"down", "fail">>}
FailNext == {<<"fail">>}
Stopping == AppNext \cup AllNext \cup DaemonsNext
Scripts == Stopping \cup DownNext \cup FailNext \cup {<<>>}
TellsFail == {<<"fail", "stopApp", "stopDaemons", "down">>,
              <<"stopApp", "stopDaemons", "down", "fail">>,
              <<"fail", "stop", "down">>, <<"stop", "down", "fail">>,
              <<"stopDaemons", "down", "fail">>, <<"down", "fail">>, <<"fail">>}

(* One step of a path discharges what its head stands for and owes the     *)
(* rest as before.                                                         *)
LEMMA StepDone ==
  ASSUME NEW s \in Scripts, s # <<>>
  PROVE  /\ Tail(s) \in Scripts
         /\ Head(s) = "stopApp" => s \in AppNext /\ Tail(s) \in DaemonsNext
         /\ Head(s) = "stopDaemons" => s \in DaemonsNext /\ Tail(s) \in DownNext
         /\ Head(s) = "stop" => s \in AllNext /\ Tail(s) \in DownNext
         /\ Head(s) = "down" => s \in DownNext /\ Tail(s) \in FailNext \cup {<<>>}
         /\ Head(s) = "fail" => /\ s \in AppNext => Tail(s) \in AppNext
                                /\ s \in AllNext => Tail(s) \in AllNext
                                /\ s \in AppNext \cup AllNext \cup FailNext
                                /\ s \in FailNext => Tail(s) = <<>>
         /\ Head(s) # "fail" /\ s \in TellsFail => Tail(s) \in TellsFail
         /\ Head(s) \in {"stopApp", "stopDaemons", "stop", "down", "fail"}
<1> USE DEF Scripts, Stopping, AppNext, AllNext, DaemonsNext, DownNext, FailNext, TellsFail
<1>1. CASE s = <<"fail", "stopApp", "stopDaemons", "down">>
  BY <1>1
<1>2. CASE s = <<"stopApp", "stopDaemons", "down">>
  BY <1>2
<1>3. CASE s = <<"stopApp", "stopDaemons", "down", "fail">>
  BY <1>3
<1>4. CASE s = <<"fail", "stop", "down">>
  BY <1>4
<1>5. CASE s = <<"stop", "down">>
  BY <1>5
<1>6. CASE s = <<"stop", "down", "fail">>
  BY <1>6
<1>7. CASE s = <<"stopDaemons", "down">>
  BY <1>7
<1>8. CASE s = <<"stopDaemons", "down", "fail">>
  BY <1>8
<1>9. CASE s = <<"down">>
  BY <1>9
<1>10. CASE s = <<"down", "fail">>
  BY <1>10
<1>11. CASE s = <<"fail">>
  BY <1>11
<1> QED
  BY <1>1, <1>2, <1>3, <1>4, <1>5, <1>6, <1>7, <1>8, <1>9, <1>10, <1>11

LEMMA Disjoint ==
  /\ AppNext \cap (AllNext \cup DaemonsNext \cup DownNext \cup FailNext \cup {<<>>}) = {}
  /\ AllNext \cap (DaemonsNext \cup DownNext \cup FailNext \cup {<<>>}) = {}
  /\ DaemonsNext \cap (DownNext \cup FailNext \cup {<<>>}) = {}
  /\ DownNext \cap (FailNext \cup {<<>>}) = {}
  /\ <<>> \notin FailNext /\ <<>> \notin TellsFail
BY DEF AppNext, AllNext, DaemonsNext, DownNext, FailNext, TellsFail

(* Where each path starts.                                                 *)
LEMMA PathStart ==
  ASSUME NEW why \in Exits \ {"None", "Setup"}, NEW code
  PROVE  /\ Script(why, code) \in Stopping
         /\ why \notin {"SpawnDaemon", "SpawnApp"}
              => Script(why, code) \in AppNext \cup AllNext
         /\ after_app => Script(why, code) \notin AllNext
         /\ Script(why, code) \in TellsFail \/ (why = "AppExit" /\ code = 0)
<1> USE DEF Stopping, AppNext, AllNext, DaemonsNext, TellsFail
<1>1. CASE why \in {"SpawnDaemon", "SpawnApp"}
  BY <1>1 DEF Script
<1>2. CASE why = "Removed"
  BY <1>2 DEF Script
<1>3. CASE why = "AppExit" /\ code = 0
  BY <1>3 DEF Script
<1>4. CASE /\ why \notin {"SpawnDaemon", "SpawnApp", "Removed"}
           /\ ~(why = "AppExit" /\ code = 0)
  BY <1>4 DEF Script
<1> QED
  BY <1>1, <1>2, <1>3, <1>4

(* While a path is walked, whatever is still there has its step ahead; at  *)
(* its end nothing is.                                                     *)
OnPath ==
  /\ script \in Scripts
  /\ pc = "wait" => script # <<>> /\ Head(script) \in StopSteps
  /\ App \in live => script \in AppNext \cup AllNext
  /\ live # {} => script \in Stopping
  /\ wg_up => script \notin FailNext \cup {<<>>}
  /\ after_app => script \notin AllNext
  /\ failed \/ script \in TellsFail \/ (exit = "AppExit" /\ status[App] = 0)
  /\ exit = "AppExit" => proc[App] = "reaped"

AtEnd == live = {} /\ ~wg_up /\ (result # 0 => failed)

Path ==
  /\ pc \in {"shutdown", "wait"} => OnPath
  /\ pc = "done" /\ exit # "Setup" => AtEnd

(* A path begins with every child it may find alive still to be stopped.   *)
LEMMA PathBegins ==
  ASSUME Shape, NEW why \in Exits \ {"None", "Setup"}, NEW code, Shutdown(why, code),
         why \in {"SpawnDaemon", "SpawnApp"} => App \notin live',
         why = "AppExit" => proc'[App] = "reaped" /\ status'[App] = code,
         after_app' = after_app
  PROVE  Path'
<1>1. script' = Script(why, code) /\ exit' = why /\ pc' = "shutdown"
  BY DEF Shutdown
<1> HIDE DEF Script
<1> QED
  BY <1>1, PathStart, Disjoint DEF Path, OnPath, Stopping, Scripts

(* Any step of a stop that leaves none of its targets.                     *)
LEMMA StopDischarges ==
  ASSUME Shape, Life, Path, pc = "wait", pc' = "shutdown", script' = Tail(script),
         live' = live \ Left,
         UNCHANGED <<after_app, wg_up, failed, exit, status>>,
         proc[App] = "reaped" => proc'[App] = "reaped"
  PROVE  Path'
<1> USE DEF Shape, TypeOK, Path, OnPath
<1>1. script \in Scripts /\ script # <<>> /\ Head(script) \in StopSteps
  OBVIOUS
<1>2. /\ script \in TellsFail => script' \in TellsFail
      /\ script' \in Scripts
  BY <1>1, StepDone DEF StopSteps
<1>3. CASE Head(script) = "stopApp"
  <2>1. script' \in DaemonsNext /\ App \notin live'
    BY <1>1, <1>3, StepDone DEF Left, Targets
  <2> QED
    BY <1>2, <2>1, Disjoint DEF Stopping
<1>4. CASE Head(script) = "stopDaemons"
  <2>1. script \in DaemonsNext /\ script' \in DownNext
    BY <1>1, <1>4, StepDone
  <2>2. App \notin live
    BY <2>1, Disjoint
  <2>3. live' = {}
    BY <1>4, <2>2, SupervisorAssumption DEF Left, Targets, Procs, Daemons, App
  <2> QED
    BY <1>2, <2>1, <2>3, Disjoint
<1>5. CASE Head(script) = "stop"
  <2>1. script' \in DownNext
    BY <1>1, <1>5, StepDone
  <2>2. live' = {}
    BY <1>5 DEF Left, Targets
  <2> QED
    BY <1>2, <2>1, <2>2, Disjoint
<1> QED
  BY <1>1, <1>3, <1>4, <1>5 DEF StopSteps

LEMMA PathInvariant == Spec => []Path
<1>1. Init => Path
  BY DEF Init, Path
<1>2. Shape /\ Life /\ Shape' /\ Life' /\ Path /\ [Next]_vars => Path'
  <2> SUFFICES ASSUME Shape, Life, Shape', Life', Path, [Next]_vars PROVE Path'
    OBVIOUS
  <2>0. App \in Procs
    BY SupervisorAssumption DEF App, Procs
  <2> USE <2>0 DEF procVars, signalVars, endVars
  <2>1. CASE SetUp
    BY <2>1 DEF SetUp, Path
  <2>2. CASE SetUpFails
    BY <2>2 DEF SetUpFails, Path
  <2>3. ASSUME NEW p \in Procs, Spawn(p) PROVE Path'
    BY <2>3 DEF Spawn, Path
  <2>4. ASSUME NEW p \in Procs, SpawnFails(p) PROVE Path'
    <3> DEFINE why == IF p = App THEN "SpawnApp" ELSE "SpawnDaemon"
    <3>1. why \in {"SpawnApp", "SpawnDaemon"} /\ Shutdown(why, 1)
      BY <2>4 DEF SpawnFails
    <3>2. App \notin live' /\ after_app' = after_app
      BY <2>4 DEF SpawnFails, Life
    <3> HIDE DEF why
    <3> QED
      BY <3>1, <3>2, PathBegins DEF Exits
  <2>5. CASE Forward
    BY <2>5 DEF Forward, Path
  <2>6. CASE Reap
    <3>1. CASE ~stopping /\ Zombies \cap Daemons # {}
      BY <2>6, <3>1, PathBegins DEF Reap, Exits
    <3>2. CASE App \in Zombies /\ ~(~stopping /\ Zombies \cap Daemons # {})
      <4>1. Shutdown("AppExit", status[App]) /\ status' = status /\ after_app' = after_app
        BY <2>6, <3>2 DEF Reap
      <4>2. proc'[App] = "reaped"
        BY <2>6, <3>2 DEF Reap, ReapAll
      <4> QED
        BY <4>1, <4>2, PathBegins DEF Exits
    <3>3. CASE App \notin Zombies /\ ~(~stopping /\ Zombies \cap Daemons # {})
      BY <2>6, <3>3 DEF Reap, Path
    <3> QED
      BY <3>1, <3>2, <3>3
  <2>7. CASE TunnelStep
    <3>1. CASE pc' = "forward"
      BY <2>7, <3>1 DEF Path
    <3>2. ASSUME NEW why \in {"Broken", "GiveUp", "Removed"}, Shutdown(why, 1) PROVE Path'
      BY <2>7, <3>2, PathBegins DEF TunnelStep, Exits
    <3> QED
      BY <2>7, <3>1, <3>2 DEF TunnelStep
  <2>8. CASE StopBegins
    BY <2>8 DEF StopBegins, Path, OnPath
  <2>9. CASE StopReaps
    <3>1. live' \subseteq live
      BY <2>9 DEF StopReaps, ReapAll
    <3>2. proc[App] = "reaped" => proc'[App] = "reaped"
      BY <2>9 DEF StopReaps, ReapAll, Shape, TypeOK
    <3> QED
      BY <2>9, <3>1, <3>2 DEF StopReaps, Path, OnPath
  <2>10. CASE StopEnds
    <3>1. live' = live \ Left
      BY <2>10 DEF StopEnds
    <3> QED
      BY <2>10, <3>1, StopDischarges DEF StopEnds
  <2>11. CASE StopKills
    <3>1. proc[App] = "reaped" => proc'[App] = "reaped"
      BY <2>11 DEF StopKills, ReapAll, Shape, TypeOK
    <3> QED
      BY <2>11, <3>1, StopDischarges DEF StopKills, ReapAll
  <2>12. CASE Down
    <3>1. /\ script \in DownNext /\ script' \in FailNext \cup {<<>>}
          /\ script' \in Scripts
          /\ script \in TellsFail => script' \in TellsFail
      BY <2>12, StepDone DEF Down, Path, OnPath
    <3>2. live = {}
      BY <2>12, <3>1, Disjoint DEF Down, Path, OnPath, Stopping
    <3> QED
      BY <2>12, <3>1, <3>2, Disjoint DEF Down, Path, OnPath
  <2>13. CASE Fail
    <3>1. /\ script \in AppNext \cup AllNext \cup FailNext
          /\ script \in AppNext => script' \in AppNext
          /\ script \in AllNext => script' \in AllNext
          /\ script \in FailNext => script' = <<>>
          /\ script' \in Scripts
      BY <2>13, StepDone DEF Fail, Path, OnPath
    <3>2. CASE script \in FailNext
      BY <2>13, <3>1, <3>2, Disjoint DEF Fail, Path, OnPath, Stopping
    <3>3. CASE script \in AppNext \cup AllNext
      BY <2>13, <3>1, <3>3, Disjoint DEF Fail, Path, OnPath, Stopping
    <3> QED
      BY <3>1, <3>2, <3>3
  <2>14. CASE Return
    <3>1. live = {} /\ ~wg_up
      BY <2>14, Disjoint
         DEF Return, Path, OnPath, Stopping, Shape, TypeOK
    <3>2. failed \/ (exit = "AppExit" /\ status[App] = 0)
      BY <2>14, Disjoint DEF Return, Path, OnPath
    <3> QED
      BY <2>14, <3>1, <3>2 DEF Return, ExitCode, Path, AtEnd
  <2>15. CASE GraceEnds
    BY <2>15 DEF GraceEnds, Path, OnPath
  <2>16. ASSUME NEW p \in Procs, Die(p) PROVE Path'
    <3>1. proc[App] = "reaped" => proc'[App] = "reaped" /\ status'[App] = status[App]
      BY <2>16 DEF Die, Shape, TypeOK
    <3> QED
      BY <2>16, <3>1 DEF Die, Path, OnPath
  <2>17. ASSUME NEW sig \in Forwarded, Signal(sig) PROVE Path'
    BY <2>17 DEF Signal, Path, OnPath
  <2>18. CASE UNCHANGED vars
    BY <2>18 DEF vars, Path, OnPath, AtEnd
  <2> QED
    BY <2>1, <2>2, <2>3, <2>4, <2>5, <2>6, <2>7, <2>8, <2>9, <2>10, <2>11, <2>12,
       <2>13, <2>14, <2>15, <2>16, <2>17, <2>18 DEF Next, Supervise
<1> QED
  BY <1>1, <1>2, ShapeInvariant, LifeInvariant, PTL DEF Spec

(* When the supervisor returns, by any path but a failed set-up, no child  *)
(* is left, wg0 is down, and a nonzero exit was told with /fail            *)
(* (supervisor.rs 550-574, 666-732).                                       *)
THEOREM CleanReturn == Spec => []NothingLeftBehind
<1>1. Shape /\ Life /\ Path => NothingLeftBehind
  BY DEF Shape, TypeOK, Life, Path, AtEnd, NothingLeftBehind
<1> QED
  BY <1>1, ShapeInvariant, LifeInvariant, PathInvariant, PTL

-----------------------------------------------------------------------------
(* With stop_daemons_after_app no stop, and no SIGKILL of one, reaches a   *)
(* daemon before the app has gone (supervisor.rs 579-590, 600-605).        *)
THEOREM AppBeforeDaemons == Spec => []DaemonsAfterApp
<1> DEFINE Gone == proc[App] \in {"unborn", "reaped"}
<1>1. Init => DaemonsAfterApp
  BY SupervisorAssumption DEF Init, DaemonsAfterApp, Procs, Daemons
<1>2. Shape /\ Life /\ Path /\ DaemonsAfterApp /\ [Next]_vars => DaemonsAfterApp'
  <2> SUFFICES ASSUME Shape, Life, Path, DaemonsAfterApp, [Next]_vars,
                      after_app', NEW d \in Daemons,
                      sent'[d] \cap {"TERM", "INT", "KILL"} # {}
               PROVE  Gone'
    BY DEF DaemonsAfterApp
  <2>0. App \in Procs /\ d \in Procs /\ d # App
    BY SupervisorAssumption DEF App, Procs, Daemons
  <2>1. after_app' = after_app
    BY DEF Next, Supervise, SetUp, SetUpFails, Spawn, SpawnFails, Forward, Reap,
           TunnelStep, StopBegins, StopReaps, StopEnds, StopKills, Down, Fail, Return,
           GraceEnds, Die, Signal, signalVars, vars
  <2>2. sent'[d] = sent[d] => Gone
    BY <2>1 DEF DaemonsAfterApp
  <2> USE <2>0, <2>1 DEF Shape, TypeOK, procVars, Life
  (* The app is born before any signal is sent, and dies once.             *)
  <2>3. ASSUME NEW p \in Procs, Spawn(p) PROVE Gone'
    BY <2>3 DEF Spawn
  <2>4. CASE Forward
    <3>1. sent'[d] \subseteq sent[d] \cup (flags \ {"TERM", "INT"})
      BY <2>4 DEF Forward, SendTo, ToDaemons
    <3>2. sent[d] \cap {"TERM", "INT", "KILL"} # {}
      BY <3>1 DEF Forwarded
    <3> QED
      BY <2>4, <3>2 DEF Forward, DaemonsAfterApp
  (* A stop that has daemons among its targets is the one after the app's. *)
  <2>5. CASE (StopBegins \/ StopKills) /\ d \in Left
    <3>1. pc \in {"shutdown", "wait"} /\ script # <<>> /\ Head(script) \in StopSteps
      BY <2>5 DEF StopBegins, StopKills, Path, OnPath
    <3>2. Head(script) # "stopApp"
      BY <2>5 DEF Left, Targets, StopSteps
    <3>3. script \in DaemonsNext
      BY <3>1, <3>2, StepDone DEF Path, OnPath, StopSteps
    <3>4. App \notin live
      BY <3>1, <3>3, Disjoint DEF Path, OnPath
    <3> QED
      BY <2>5, <3>4 DEF StopBegins, StopKills, ReapAll, Left
  <2>6. CASE (StopBegins \/ StopKills) /\ d \notin Left
    <3>1. sent'[d] = sent[d] \cup {}
      <4>1. CASE StopBegins
        BY <2>6, <4>1 DEF StopBegins, SendTo
      <4>2. CASE StopKills
        BY <2>6, <4>2 DEF StopKills, SendTo
      <4> QED
        BY <2>6, <4>1, <4>2
    <3> QED
      BY <2>2, <2>6, <3>1 DEF StopBegins, StopKills, ReapAll
  <2>7. CASE Reap \/ StopReaps
    BY <2>2, <2>7 DEF Reap, StopReaps, ReapAll
  <2>8. ASSUME NEW p \in Procs, Die(p) PROVE Gone'
    BY <2>2, <2>8 DEF Die
  <2>9. CASE proc' = proc /\ sent' = sent
    BY <2>2, <2>9
  <2> QED
    BY <2>3, <2>4, <2>5, <2>6, <2>7, <2>8, <2>9
       DEF Next, Supervise, SetUp, SetUpFails, SpawnFails, TunnelStep, StopEnds,
           Down, Fail, Return, GraceEnds, Signal, vars
<1> QED
  BY <1>1, <1>2, ShapeInvariant, LifeInvariant, PathInvariant, PTL DEF Spec

(* While nobody asked the supervisor to stop, a daemon that died first is  *)
(* a zombie no reap has seen, or the reason the run ends is not the app's  *)
(* exit.                                                                   *)
Unmasked ==
  /\ stopping \/ flags \cap {"TERM", "INT"} # {} => asked_to_stop
  /\ ~asked_to_stop /\ exit = "None" => \A p \in died : proc[p] = "zombie"
  /\ ~asked_to_stop /\ exit = "AppExit" => died = {}
  /\ pc = "done" /\ exit # "AppExit" => result # 0

(* A daemon that died before the app, with no stop requested, is never     *)
(* masked by the app exiting 0 (supervisor.rs 608-633).                    *)
THEOREM DeathsCount == Spec => []DeathNotMasked
<1>1. Init => Unmasked
  BY DEF Init, Unmasked
<1>2. Shape /\ Life /\ Path /\ Unmasked /\ [Next]_vars => Unmasked'
  <2> SUFFICES ASSUME Shape, Life, Path, Unmasked, [Next]_vars PROVE Unmasked'
    OBVIOUS
  <2>0. Daemons \subseteq Procs
    BY SupervisorAssumption DEF Procs, Daemons
  <2> USE <2>0 DEF Shape, TypeOK, Life, Unmasked, procVars, signalVars, endVars, Running
  <2>1. CASE SetUp
    BY <2>1 DEF SetUp
  <2>2. CASE SetUpFails
    BY <2>2 DEF SetUpFails
  <2>3. ASSUME NEW p \in Procs, Spawn(p) PROVE Unmasked'
    BY <2>3 DEF Spawn, NextSpawn
  <2>4. ASSUME NEW p \in Procs, SpawnFails(p) PROVE Unmasked'
    BY <2>4 DEF SpawnFails, Shutdown
  <2>5. CASE Forward
    BY <2>5 DEF Forward
  <2>6. CASE Reap
    <3>1. CASE asked_to_stop
      BY <2>6, <3>1 DEF Reap, Shutdown
    <3>2. CASE ~asked_to_stop /\ died # {}
      <4>1. \A p \in died : p \in Zombies \cap Daemons
        BY <2>6, <3>2 DEF Reap, Zombies, Dead
      <4>2. Shutdown("Daemon", 1)
        BY <2>6, <3>2, <4>1 DEF Reap
      <4> QED
        BY <2>6, <4>2 DEF Reap, Shutdown
    <3>3. CASE died = {}
      BY <2>6, <3>3 DEF Reap, Shutdown
    <3> QED
      BY <3>1, <3>2, <3>3
  <2>7. CASE TunnelStep
    BY <2>7 DEF TunnelStep, Shutdown
  <2>8. CASE StopBegins \/ StopEnds
    BY <2>8 DEF StopBegins, StopEnds
  <2>9. CASE StopReaps
    BY <2>9 DEF StopReaps
  <2>10. CASE StopKills
    BY <2>10 DEF StopKills
  <2>11. CASE Down \/ Fail
    BY <2>11 DEF Down, Fail
  <2>12. CASE Return
    BY <2>12 DEF Return, ExitCode
  <2>13. CASE GraceEnds
    BY <2>13 DEF GraceEnds
  <2>14. ASSUME NEW p \in Procs, Die(p) PROVE Unmasked'
    <3>1. \A q \in died' : q \in died \/ (q = p /\ p \in Procs)
      BY <2>14 DEF Die
    <3>2. \A q \in died : proc[q] = "zombie" => proc'[q] = "zombie"
      BY <2>14 DEF Die
    <3>3. proc'[p] = "zombie"
      BY <2>14 DEF Die
    <3>4. exit = "AppExit" => died' = died
      BY <2>14 DEF Die
    <3> QED
      BY <2>14, <3>1, <3>2, <3>3, <3>4 DEF Die
  <2>15. ASSUME NEW sig \in Forwarded, Signal(sig) PROVE Unmasked'
    <3>1. flags' \cap {"TERM", "INT"} # {} =>
            flags \cap {"TERM", "INT"} # {} \/ sig \in {"TERM", "INT"}
      BY <2>15 DEF Signal
    <3>2. asked_to_stop' <=> asked_to_stop \/ sig \in {"TERM", "INT"}
      BY <2>15 DEF Signal
    <3>3. stopping' = stopping
      BY <2>15 DEF Signal
    <3>4. ~asked_to_stop' => ~asked_to_stop
      BY <3>2
    <3> QED
      BY <2>15, <3>1, <3>2, <3>3, <3>4 DEF Signal
  <2>16. CASE UNCHANGED vars
    BY <2>16 DEF vars
  <2> QED
    BY <2>1, <2>2, <2>3, <2>4, <2>5, <2>6, <2>7, <2>8, <2>9, <2>10, <2>11, <2>12,
       <2>13, <2>14, <2>15, <2>16 DEF Next, Supervise
<1>3. Unmasked => DeathNotMasked
  BY DEF Unmasked, DeathNotMasked
<1> QED
  BY <1>1, <1>2, <1>3, ShapeInvariant, LifeInvariant, PathInvariant, PTL DEF Spec
=============================================================================
