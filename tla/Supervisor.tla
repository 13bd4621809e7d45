----------------------------- MODULE Supervisor -----------------------------
(***************************************************************************)
(* The processes of a supervised run: `run`, `reap` and `stop` of          *)
(* src/supervisor.rs.  The supervisor spawns the daemons in order, then    *)
(* the app; forwards TERM, INT and HUP; reaps; and on the first reason to  *)
(* end runs one of the shutdown paths.  Children die when they like and    *)
(* signals arrive between any two steps.                                   *)
(*                                                                         *)
(* The tunnel's part of the loop (Tunnel.tla) is a choice of exit here,    *)
(* and the last /fail (PingSender.tla) a single step.  `asked_to_stop`,    *)
(* `died` and `sent` are history: no guard reads them.                     *)
(***************************************************************************)
EXTENDS Integers, Sequences

CONSTANTS
  NDaemons,       \* how many [tool.docker].daemons there are
  HasTunnel,      \* [tool.docker].wireguard
  MaxSignals      \* bound: signals the supervisor is sent

ASSUME SupervisorAssumption ==
  /\ NDaemons \in Nat
  /\ HasTunnel \in BOOLEAN
  /\ MaxSignals \in Nat

App == 0
Daemons == 1..NDaemons
Procs == 0..NDaemons
Forwarded == {"TERM", "INT", "HUP"}
Signals == Forwarded \cup {"KILL"}

VARIABLES
  after_app,      \* stop_daemons_after_app, as the run was configured
  pc,
  proc,           \* unborn, running, zombie or reaped
  status,         \* the exit code of a process that ended, 1 for any but 0
  live,           \* the supervisor's list of children not yet reaped
  flags,          \* signals caught and not yet forwarded
  stopping,       \* a TERM or INT was forwarded
  exit,           \* why the run ends, or "None"
  script,         \* the shutdown steps left
  grace_over,     \* the 30 s of the stop under way have passed
  wg_up, failed,  \* wg0 exists; the exit's /fail was sent
  result,         \* the supervisor's exit code, -1 while it runs
  nsignals,       \* signals sent to the supervisor so far
  asked_to_stop,  \* history: TERM or INT was among them
  died,           \* history: daemons dead before any TERM or INT, and before the app
  sent            \* history: what the supervisor sent to each child

vars == <<after_app, pc, proc, status, live, flags, stopping, exit, script, grace_over,
          wg_up, failed, result, nsignals, asked_to_stop, died, sent>>

Exits == {"None", "Setup", "SpawnDaemon", "SpawnApp", "AppExit", "Daemon",
          "Broken", "GiveUp", "Removed"}
StopSteps == {"stop", "stopApp", "stopDaemons"}
Steps == StopSteps \cup {"down", "fail"}

TypeOK ==
  /\ after_app \in BOOLEAN
  /\ pc \in {"setup", "spawn", "forward", "reap", "tunnel", "shutdown", "wait", "done"}
  /\ proc \in [Procs -> {"unborn", "running", "zombie", "reaped"}]
  /\ status \in [Procs -> {0, 1}]
  /\ live \subseteq Procs
  /\ flags \subseteq Forwarded
  /\ stopping \in BOOLEAN
  /\ exit \in Exits
  /\ script \in Seq(Steps)
  /\ grace_over \in BOOLEAN /\ wg_up \in BOOLEAN /\ failed \in BOOLEAN
  /\ result \in {-1, 0, 1, 75}
  /\ nsignals \in 0..MaxSignals
  /\ asked_to_stop \in BOOLEAN
  /\ died \subseteq Daemons
  /\ sent \in [Procs -> SUBSET Signals]

Init ==
  /\ after_app \in BOOLEAN
  /\ pc = "setup"
  /\ proc = [p \in Procs |-> "unborn"] /\ status = [p \in Procs |-> 0]
  /\ live = {} /\ flags = {} /\ stopping = FALSE
  /\ exit = "None" /\ script = <<>> /\ grace_over = FALSE
  /\ wg_up = HasTunnel /\ failed = FALSE /\ result = -1
  /\ nsignals = 0 /\ asked_to_stop = FALSE /\ died = {}
  /\ sent = [p \in Procs |-> {}]

procVars == <<proc, status, live>>
signalVars == <<after_app, flags, nsignals, asked_to_stop>>
endVars == <<wg_up, failed, result>>

-----------------------------------------------------------------------------
(* The shutdown path of each exit: stop_all is one stop of every child or, *)
(* with stop_daemons_after_app, one of the app and one of the daemons.     *)
(* Removed sends /fail first, while the tunnel is still there to carry it. *)

(* MUTANT of Script: an app that exits 0 leaves the daemons running.       *)
ScriptLeavesDaemons(why, code) ==
  CASE why \in {"SpawnDaemon", "SpawnApp"} -> <<"stopDaemons", "down", "fail">>
    [] why = "AppExit" /\ code = 0 -> <<"down">>
    [] OTHER -> IF after_app THEN <<"stopApp", "stopDaemons", "down", "fail">>
                             ELSE <<"stop", "down", "fail">>

Script(why, code) ==
  CASE why \in {"SpawnDaemon", "SpawnApp"} -> <<"stopDaemons", "down", "fail">>
    [] why = "Removed" ->
         IF after_app THEN <<"fail", "stopApp", "stopDaemons", "down">>
                      ELSE <<"fail", "stop", "down">>
    [] why = "AppExit" /\ code = 0 ->
         IF after_app THEN <<"stopApp", "stopDaemons", "down">> ELSE <<"stop", "down">>
    [] OTHER ->
         IF after_app THEN <<"stopApp", "stopDaemons", "down", "fail">>
                      ELSE <<"stop", "down", "fail">>

ExitCode(why, code) ==
  CASE why = "AppExit" -> code
    [] why \in {"GiveUp", "Removed"} -> 75
    [] OTHER -> 1

(* What a stop sends to the app: INT for a give-up or a removal            *)
AppSignal == IF exit \in {"GiveUp", "Removed"} THEN "INT" ELSE "TERM"

Targets(step) ==
  CASE step = "stop" -> Procs
    [] step = "stopApp" -> {App}
    [] step = "stopDaemons" -> Daemons
    [] OTHER -> {}

Shutdown(why, code) ==
  /\ exit' = why
  /\ script' = Script(why, code)
  /\ pc' = "shutdown"

Dead(p) == proc[p] = "zombie"
Zombies == {p \in live : Dead(p)}
(* MUTANT of ReapAll: a reaped child stays in the list.                    *)
ReapAllKeeps(set) ==
  /\ proc' = [p \in Procs |-> IF p \in set THEN "reaped" ELSE proc[p]]
  /\ live' = live

ReapAll(set) ==
  /\ proc' = [p \in Procs |-> IF p \in set THEN "reaped" ELSE proc[p]]
  /\ live' = live \ set

(* kill(pid, sig) for each of a set                                        *)
SendTo(sig) == sent' = [p \in Procs |-> sent[p] \cup sig[p]]

-----------------------------------------------------------------------------
(* The handlers and the waker.  A failure here returns through `?`.        *)
SetUp ==
  /\ pc = "setup"
  /\ pc' = "spawn"
  /\ UNCHANGED <<procVars, signalVars, endVars, stopping, exit, script,
                 grace_over, died, sent>>

SetUpFails ==
  /\ pc = "setup"
  /\ exit' = "Setup" /\ result' = 1
  /\ pc' = "done"
  /\ UNCHANGED <<procVars, signalVars, stopping, script, grace_over, wg_up,
                 failed, died, sent>>

(* The daemons in order, the app last                                      *)
NextSpawn(p) ==
  /\ proc[p] = "unborn"
  /\ \A q \in Daemons : p = App \/ q < p => proc[q] # "unborn"

Spawn(p) ==
  /\ pc = "spawn" /\ NextSpawn(p)
  /\ proc' = [proc EXCEPT ![p] = "running"]
  /\ live' = live \cup {p}
  /\ pc' = IF p = App THEN "forward" ELSE "spawn"
  /\ UNCHANGED <<status, signalVars, endVars, stopping, exit, script,
                 grace_over, died, sent>>

SpawnFails(p) ==
  /\ pc = "spawn" /\ NextSpawn(p)
  /\ Shutdown(IF p = App THEN "SpawnApp" ELSE "SpawnDaemon", 1)
  /\ UNCHANGED <<procVars, signalVars, endVars, stopping, grace_over, died, sent>>

(* Every flag to the app; HUP, and without stop_daemons_after_app the stop *)
(* requests too, to the daemons still live.                                *)
(* MUTANT of ToDaemons: stop_daemons_after_app is not looked at.           *)
ToDaemonsAlways == flags

ToDaemons == IF after_app THEN flags \ {"TERM", "INT"} ELSE flags

Forward ==
  /\ pc = "forward"
  /\ SendTo([p \in Procs |-> IF p = App THEN flags
                             ELSE IF p \in live THEN ToDaemons ELSE {}])
  /\ flags' = {} /\ UNCHANGED after_app
  /\ stopping' = (stopping \/ flags \cap {"TERM", "INT"} # {})
  /\ pc' = "reap"
  /\ UNCHANGED <<procVars, nsignals, asked_to_stop, endVars, exit, script,
                 grace_over, died>>

(* MUTANT of Reap: the app's exit wins over a daemon's in the same reap.   *)
ReapAppWins ==
  /\ pc = "reap"
  /\ ReapAll(Zombies)
  /\ IF App \in Zombies THEN Shutdown("AppExit", status[App])
     ELSE IF ~stopping /\ Zombies \cap Daemons # {} THEN Shutdown("Daemon", 1)
     ELSE pc' = "tunnel" /\ UNCHANGED <<exit, script>>
  /\ UNCHANGED <<status, signalVars, endVars, stopping, grace_over, died, sent>>

(* A daemon's exit wins over the app's in the same reap.                   *)
Reap ==
  /\ pc = "reap"
  /\ ReapAll(Zombies)
  /\ IF ~stopping /\ Zombies \cap Daemons # {} THEN Shutdown("Daemon", 1)
     ELSE IF App \in Zombies THEN Shutdown("AppExit", status[App])
     ELSE pc' = "tunnel" /\ UNCHANGED <<exit, script>>
  /\ UNCHANGED <<status, signalVars, endVars, stopping, grace_over, died, sent>>

(* collect and poll, then the wait for the waker                           *)
TunnelStep ==
  /\ pc = "tunnel"
  /\ \/ pc' = "forward" /\ UNCHANGED <<exit, script>>
     \/ HasTunnel /\ \E why \in {"Broken", "GiveUp", "Removed"} : Shutdown(why, 1)
  /\ UNCHANGED <<procVars, signalVars, endVars, stopping, grace_over, died, sent>>

-----------------------------------------------------------------------------
(* stop: the signals, then reaping until its targets are gone or the 30 s  *)
(* have passed, then SIGKILL and a blocking wait for each that is left,    *)
(* whose status is not looked at.                                          *)
Left == Targets(Head(script)) \cap live

StopBegins ==
  /\ pc = "shutdown" /\ script # <<>> /\ Head(script) \in StopSteps
  /\ SendTo([p \in Procs |-> IF p \notin Left THEN {}
                             ELSE IF p = App THEN {AppSignal} ELSE {"TERM"}])
  /\ grace_over' = FALSE
  /\ pc' = "wait"
  /\ UNCHANGED <<procVars, signalVars, endVars, stopping, exit, script, died>>

StopReaps ==
  /\ pc = "wait" /\ Zombies # {}
  /\ ReapAll(Zombies)
  /\ UNCHANGED <<pc, status, signalVars, endVars, stopping, exit, script,
                 grace_over, died, sent>>

StopEnds ==
  /\ pc = "wait" /\ Left = {}
  /\ script' = Tail(script)
  /\ pc' = "shutdown"
  /\ UNCHANGED <<procVars, signalVars, endVars, stopping, exit, grace_over,
                 died, sent>>

GraceEnds ==
  /\ pc = "wait" /\ ~grace_over
  /\ grace_over' = TRUE
  /\ UNCHANGED <<pc, procVars, signalVars, endVars, stopping, exit, script,
                 died, sent>>

(* MUTANT of StopKills: SIGKILL is sent and nobody waits for its effect.   *)
StopKillsAgain ==
  /\ pc = "wait" /\ grace_over
  /\ Left # {}
  /\ SendTo([p \in Procs |-> IF p \in Left THEN {"KILL"} ELSE {}])
  /\ UNCHANGED <<pc, procVars, signalVars, endVars, stopping, exit, script,
                 grace_over, died>>

StopKills ==
  /\ pc = "wait" /\ grace_over
  /\ Left # {}
  /\ SendTo([p \in Procs |-> IF p \in Left THEN {"KILL"} ELSE {}])
  /\ ReapAll(Left)
  /\ script' = Tail(script)
  /\ pc' = "shutdown"
  /\ UNCHANGED <<status, signalVars, endVars, stopping, exit, grace_over, died>>

Down ==
  /\ pc = "shutdown" /\ script # <<>> /\ Head(script) = "down"
  /\ wg_up' = FALSE
  /\ script' = Tail(script)
  /\ UNCHANGED <<pc, procVars, signalVars, failed, result, stopping, exit,
                 grace_over, died, sent>>

Fail ==
  /\ pc = "shutdown" /\ script # <<>> /\ Head(script) = "fail"
  /\ failed' = TRUE
  /\ script' = Tail(script)
  /\ UNCHANGED <<pc, procVars, signalVars, wg_up, result, stopping, exit,
                 grace_over, died, sent>>

Return ==
  /\ pc = "shutdown" /\ script = <<>>
  /\ result' = ExitCode(exit, status[App])
  /\ pc' = "done"
  /\ UNCHANGED <<procVars, signalVars, wg_up, failed, stopping, exit, script,
                 grace_over, died, sent>>

-----------------------------------------------------------------------------
(* A child exits, of itself or of a signal.                                *)
Die(p) ==
  /\ proc[p] = "running" /\ pc # "done"
  /\ proc' = [proc EXCEPT ![p] = "zombie"]
  /\ \E code \in {0, 1} : status' = [status EXCEPT ![p] = code]
  /\ died' = IF p \in Daemons /\ ~asked_to_stop /\ exit = "None"
                  /\ proc[App] \in {"unborn", "running"}
             THEN died \cup {p} ELSE died
  /\ UNCHANGED <<pc, live, signalVars, endVars, stopping, exit, script,
                 grace_over, sent>>

(* Docker, or a user, signals the supervisor.                              *)
Signal(sig) ==
  /\ nsignals < MaxSignals /\ pc \notin {"setup", "done"}
  /\ nsignals' = nsignals + 1
  /\ flags' = flags \cup {sig} /\ UNCHANGED after_app
  /\ asked_to_stop' = (asked_to_stop \/ sig \in {"TERM", "INT"})
  /\ UNCHANGED <<pc, procVars, endVars, stopping, exit, script, grace_over,
                 died, sent>>

Supervise ==
  \/ SetUp
  \/ SetUpFails
  \/ \E p \in Procs : Spawn(p) \/ SpawnFails(p)
  \/ Forward
  \/ Reap
  \/ TunnelStep
  \/ StopBegins
  \/ StopReaps
  \/ StopEnds
  \/ StopKills
  \/ Down
  \/ Fail
  \/ Return

Next ==
  \/ Supervise
  \/ GraceEnds
  \/ \E p \in Procs : Die(p)
  \/ \E sig \in Forwarded : Signal(sig)

Spec == Init /\ [][Next]_vars

-----------------------------------------------------------------------------
(* When the supervisor returns no child is left, alive or zombie, wg0 is   *)
(* down, and a nonzero exit was told with /fail: on every path but a       *)
(* failed set-up, whatever died or was signalled meanwhile (supervisor.rs  *)
(* 550-574, 666-732).                                                      *)
NothingLeftBehind ==
  pc = "done" /\ exit # "Setup" =>
                 /\ \A p \in Procs : proc[p] \in {"unborn", "reaped"}
                 /\ ~wg_up
                 /\ result # 0 => failed

(* No kill goes to a process that was reaped, whose pid may be another's   *)
(* by now: `live` is kept exact by reap and stop.                          *)
SignalsOnlyUnreaped ==
  [][\A p \in Procs : sent'[p] # sent[p] => proc[p] \in {"running", "zombie"}]_vars

(* With stop_daemons_after_app no stop reaches a daemon before the app has *)
(* gone, a forwarded docker stop and its SIGKILL included.                 *)
DaemonsAfterApp ==
  after_app => \A p \in Daemons :
    sent[p] \cap {"TERM", "INT", "KILL"} # {} => proc[App] \in {"unborn", "reaped"}

(* A daemon that died before the app, with no stop requested of the        *)
(* supervisor at all, is never masked by the app exiting 0.                *)
DeathNotMasked == pc = "done" /\ died # {} /\ ~asked_to_stop => result # 0

(* Any daemon exiting, whatever its status, ends the run with exit 1       *)
(* (README.md:56), but for one exiting after a forwarded SIGTERM or SIGINT *)
(* (README.md:60): so one that died before any was sent counts.            *)
DaemonExitIsFailure == pc = "done" /\ died # {} => result # 0

(* The loop's thread is scheduled, and 30 s pass.  No fairness of the      *)
(* children: nothing makes one exit.                                       *)
Fairness == WF_vars(Supervise) /\ WF_vars(GraceEnds)
FairSpec == Spec /\ Fairness

(* The end of the app is seen, after a forwarded stop too; and that of a   *)
(* daemon, unless a stop was requested.  Once the run is to end, for that  *)
(* or whatever reason, it ends, though every child ignores its signals.    *)
EndSeen ==
  /\ exit # "None" ~> pc = "done"
  /\ proc[App] = "zombie" ~> pc = "done"
  /\ died # {} ~> (pc = "done" \/ asked_to_stop)
=============================================================================
