----------------------------- MODULE Heartbeats -----------------------------
(***************************************************************************)
(* The heartbeat files of src/heartbeat.rs: the app writes its own, the    *)
(* supervisor's poll writes the tunnel's and then checks both, and the     *)
(* healthcheck command of src/healthcheck.rs, a process of its own, reads  *)
(* them between any two steps.  Stamps are wall-clock times, and the wall  *)
(* clock may be set while they lie there.                                  *)
(*                                                                         *)
(* The files outlive the container: a run starts with those of the run     *)
(* before, and until its boot has removed the tunnel's a healthcheck reads *)
(* it.                                                                     *)
(*                                                                         *)
(* A stamp is kept as what a clock reads off it now: its wall age, which   *)
(* setting the clock changes, and its real age, which nothing but time     *)
(* does (no program sees it).  Ages stop at Cap, beyond which no           *)
(* comparison distinguishes them.                                          *)
(***************************************************************************)
EXTENDS Integers, FiniteSets

CONSTANTS
  MaxAge,       \* DEFAULT_MAX_AGE_SECS, and what --max-age gives
  StaleSecs,    \* WG_STALE_SECS
  MaxShift,     \* bound: by how much the clock is set, in all
  ReadTakes,    \* bound: how long a poll, and a healthcheck, takes
  Switch        \* what the switch may be set to

ASSUME HeartbeatsAssumption ==
  /\ {MaxAge, StaleSecs} \subseteq Nat \ {0}
  /\ {MaxShift, ReadTakes} \subseteq Nat /\ Switch \subseteq BOOLEAN

VARIABLES
  at,          \* the stamps, by name
  known,       \* wg0 knows of the last handshake
  sup,         \* where the run is: its boot, then the supervisor's loop
  reasons,     \* between two polls, what the last check found
  hc, failed,  \* where the healthcheck is, and its flag, then its verdict;
               \* "none" before the first verdict of a container
  tolerate,    \* WG_TOLERATE_DISCONNECTED
  setback, setforward

supVars == <<sup, reasons>>
hcVars == <<hc, failed>>
envVars == <<tolerate, setback, setforward>>
vars == <<at, known, supVars, hcVars, envVars>>

(* The two files and the sibling the supervisor renames (what a kill       *)
(* leaves of it the next write truncates), the last handshake any run had, *)
(* and the times the poll, the tunnel's share of it and the healthcheck    *)
(* took, which are forgotten as soon as they are used.                     *)
Names == {"app", "tunnel", "tmp", "handshake", "poll", "beat", "reader"}

Longest == IF MaxAge > StaleSecs THEN MaxAge ELSE StaleSecs
Cap == Longest + StaleSecs + MaxShift + ReadTakes
Capped(age) == IF age > Cap THEN Cap ELSE age
Missing == [kind |-> "missing", wall |-> 0, real |-> 0]
Empty == [kind |-> "empty", wall |-> 0, real |-> 0]
Now == [kind |-> "stamp", wall |-> 0, real |-> 0]
Aged(s, wall, real) ==
  IF s.kind # "stamp" THEN s
  ELSE [kind |-> "stamp", wall |-> Capped(s.wall + wall), real |-> Capped(s.real + real)]

Init ==
  /\ at = [n \in Names |-> Missing]
  /\ known = FALSE
  /\ sup = "boot" /\ reasons = {}
  /\ hc = "none" /\ failed = FALSE
  /\ tolerate \in Switch
  /\ setback = 0 /\ setforward = 0

-----------------------------------------------------------------------------
(* The world                                                               *)
Tick ==
  /\ at["poll"].kind = "stamp" => at["poll"].real < ReadTakes
  /\ at["reader"].kind = "stamp" => at["reader"].real < ReadTakes
  /\ at' = [n \in Names |-> Aged(at[n], 1, 1)]
  /\ UNCHANGED <<known, supVars, hcVars, envVars>>

SetClock(by) ==
  /\ setback + setforward < MaxShift
  /\ at' = [n \in Names |-> Aged(at[n], by, 0)]
  /\ IF by < 0 THEN setback' = setback - by /\ UNCHANGED setforward
     ELSE setforward' = setforward + by /\ UNCHANGED setback
  /\ UNCHANGED <<known, supVars, hcVars, tolerate>>

(* aeth_ext truncates the file and writes the time.                        *)
AppWrites ==
  /\ sup # "boot"
  /\ \E file \in {Empty, Now} : at' = [at EXCEPT !["app"] = file]
  /\ UNCHANGED <<known, supVars, hcVars, envVars>>

Handshake ==
  /\ at' = [at EXCEPT !["handshake"] = Now]
  /\ known' = TRUE
  /\ UNCHANGED <<supVars, hcVars, envVars>>

-----------------------------------------------------------------------------
(* MUTANT of Stale: a negative age cast to u64.                            *)
StaleUnsigned(file, now, max) ==
  \/ at[file].kind # "stamp"
  \/ LET age == at[file].wall - at[now].wall IN age < 0 \/ age >= max

(* heartbeat::check at the time taken as now                               *)
Stale(file, now, max) ==
  \/ at[file].kind # "stamp"
  \/ LET age == at[file].wall - at[now].wall IN age >= 0 /\ age >= max

(* MUTANT of HandshakeFresh: a peer is enough.                             *)
HandshakeEver == known

(* saturating_sub: a handshake later than the poll's time is fresh.        *)
HandshakeFresh ==
  /\ known
  /\ LET age == at["handshake"].wall - at["beat"].wall
     IN  age < 0 \/ age < StaleSecs

(* Wherever a reader compares a file: healthcheck has one limit for all,   *)
(* the supervisor the staleness bound for the tunnel's.                    *)
Limit(file, now) == IF now = "poll" /\ file = "tunnel" THEN StaleSecs ELSE MaxAge

(* The boot removes the tunnel's file an earlier run left, best effort.    *)
Unbeat ==
  /\ sup = "boot" /\ sup' = "started"
  /\ UNCHANGED at \/ at' = [at EXCEPT !["tunnel"] = Missing]
  /\ UNCHANGED <<known, reasons, hcVars, envVars>>

Poll ==
  /\ sup \in {"started", "idle"} /\ sup' = "polling" /\ reasons' = {}
  /\ at' = [at EXCEPT !["poll"] = Now]
  /\ UNCHANGED <<known, hcVars, envVars>>

TunnelPoll ==
  /\ sup = "polling" /\ sup' = "asking"
  /\ at' = [at EXCEPT !["beat"] = Now]
  /\ UNCHANGED <<known, reasons, hcVars, envVars>>

WriteTmp ==
  /\ sup = "asking"
  /\ \/ /\ HandshakeFresh /\ sup' = "renaming"
        /\ at' = [at EXCEPT !["tmp"] = at["beat"], !["beat"] = Missing]
     \/ ~HandshakeFresh /\ sup' = "checking" /\ at' = [at EXCEPT !["beat"] = Missing]
  /\ UNCHANGED <<known, reasons, hcVars, envVars>>

Rename ==
  /\ sup = "renaming" /\ sup' = "checking"
  /\ at' = [at EXCEPT !["tunnel"] = at["tmp"], !["tmp"] = Missing]
  /\ UNCHANGED <<known, reasons, hcVars, envVars>>

(* The loop takes wg0 down and up again, or applies another hub: between   *)
(* two polls, or in the middle of one that finds no fresh handshake.       *)
Forget ==
  /\ sup = "idle" \/ (sup = "asking" /\ ~HandshakeFresh)
  /\ known /\ known' = FALSE
  /\ UNCHANGED <<at, supVars, hcVars, envVars>>

(* Best effort: the line in the log is all.                                *)
WriteFails ==
  /\ (sup = "asking" /\ HandshakeFresh) \/ sup = "renaming"
  /\ sup' = "checking"
  /\ at' = [at EXCEPT !["beat"] = Missing, !["tmp"] = Missing]
  /\ UNCHANGED <<known, reasons, hcVars, envVars>>

(* MUTANT of Found: the switch spares the tunnel here too.                 *)
FoundTolerant ==
  {file \in IF tolerate THEN {"app"} ELSE {"tunnel", "app"} :
     Stale(file, "poll", Limit(file, "poll"))}

Found == {file \in {"tunnel", "app"} : Stale(file, "poll", Limit(file, "poll"))}

CheckFiles ==
  /\ sup = "checking" /\ sup' = "idle" /\ reasons' = Found
  /\ at' = [at EXCEPT !["poll"] = Missing]
  /\ UNCHANGED <<known, hcVars, envVars>>

(* A command that does not return; no check comes after it.                *)
Wedge ==
  /\ sup # "wedged" /\ sup' = "wedged"
  /\ reasons' = {}
  /\ at' = [at EXCEPT !["poll"] = Missing, !["beat"] = Missing, !["tmp"] = Missing]
  /\ UNCHANGED <<known, hcVars, envVars>>

(* The container ends, a healthcheck in it too, and starts again: with the *)
(* files as they are, and no wg0.                                          *)
Restart ==
  /\ sup' = "boot" /\ reasons' = {} /\ known' = FALSE
  /\ hc' = "none" /\ failed' = FALSE
  /\ at' = [n \in Names |-> IF n \in {"app", "tunnel", "handshake"} THEN at[n] ELSE Missing]
  /\ UNCHANGED envVars

-----------------------------------------------------------------------------
Healthcheck ==
  /\ hc \in {"none", "idle"} /\ hc' = "app" /\ failed' = FALSE
  /\ at' = [at EXCEPT !["reader"] = Now]
  /\ UNCHANGED <<known, supVars, envVars>>

Exit(code) ==
  /\ hc' = "idle" /\ failed' = code
  /\ at' = [at EXCEPT !["reader"] = Missing]

ReadApp ==
  /\ hc = "app"
  /\ LET app_stale == Stale("app", "reader", Limit("app", "reader"))
     IN  IF tolerate THEN Exit(app_stale)
         ELSE hc' = "tunnel" /\ failed' = app_stale /\ UNCHANGED at
  /\ UNCHANGED <<known, supVars, envVars>>

ReadTunnel ==
  /\ hc = "tunnel"
  /\ Exit(failed \/ Stale("tunnel", "reader", Limit("tunnel", "reader")))
  /\ UNCHANGED <<known, supVars, envVars>>

-----------------------------------------------------------------------------
SupervisorStep == Unbeat \/ Poll \/ TunnelPoll \/ WriteTmp \/ Rename \/ CheckFiles
HealthcheckStep == Healthcheck \/ ReadApp \/ ReadTunnel

Next ==
  \/ Tick
  \/ \E by \in {-1, 1} : SetClock(by)
  \/ AppWrites
  \/ Handshake
  \/ SupervisorStep
  \/ Forget
  \/ WriteFails
  \/ Wedge
  \/ Restart
  \/ HealthcheckStep

(* Time passes, the supervisor's loop goes round unless it is wedged, and  *)
(* Docker runs the healthcheck again and again.                            *)
Spec ==
  /\ Init /\ [][Next]_vars
  /\ SF_vars(Tick) /\ WF_vars(SupervisorStep) /\ WF_vars(HealthcheckStep)

-----------------------------------------------------------------------------
Stamps ==
  {Missing, Empty}
    \cup [kind : {"stamp"}, wall : -MaxShift..Cap, real : 0..Cap]

(* No reader ever finds the tunnel's file empty.                           *)
TypeOK ==
  /\ at \in [Names -> Stamps] /\ at["tunnel"] # Empty
  /\ known \in BOOLEAN /\ tolerate \in BOOLEAN
  /\ sup \in {"boot", "started", "idle", "polling", "asking", "renaming", "checking", "wedged"}
  /\ reasons \subseteq {"tunnel", "app"}
  /\ hc \in {"none", "idle", "app", "tunnel"} /\ failed \in BOOLEAN
  /\ setback + setforward \in 0..MaxShift

(* The real time from the stamp to the moment the reader took as now       *)
Gap(file, now) == at[file].real - at[now].real
Readers == {"reader", "poll"}
Reading(r) == IF r = "reader" THEN hc \in {"app", "tunnel"} ELSE sup = "checking"
Passes(file, r) == Reading(r) /\ ~Stale(file, r, Limit(file, r))

(* A file passed as fresh was written within the reader's limit, plus what *)
(* the clock was set back in the meantime: whatever run wrote it, and      *)
(* although a stamp of the future passes (heartbeat.rs 46-49).             *)
FreshMeansBeaten ==
  \A r \in Readers, file \in {"app", "tunnel"} :
    Passes(file, r) => Gap(file, r) < Limit(file, r) + setback

(* A tunnel file passed as fresh means contact with the hub within the two *)
(* bounds added up.  It may be an earlier run's, before the boot removed   *)
(* that run's file or where it could not (supervisor.rs 333-350, run.rs    *)
(* 108-110).                                                               *)
FreshMeansContact ==
  \A r \in Readers :
    Passes("tunnel", r)
      => /\ at["handshake"].kind = "stamp"
         /\ Gap("handshake", r) < Limit("tunnel", r) + StaleSecs + setback

(* What there is to say of a file that a reader finds fault with: it is    *)
(* not there; the app is in the middle of writing it (the tunnel's never   *)
(* is); or it was stamped a limit or more before the reader took its time, *)
(* but for what the clock was set.                                         *)
Cause(file, r) ==
  \/ at[file] = Missing
  \/ file = "app" /\ at[file] = Empty
  \/ /\ at[file].kind = "stamp"
     /\ Gap(file, r) >= Limit(file, r) - (setback + setforward)

(* Neither the supervisor's reasons nor a healthcheck's failure names a    *)
(* file without such a cause: a tunnel file that is being replaced, or a   *)
(* file stamped after the reader took its time, is none (heartbeat.rs      *)
(* 38-72, supervisor.rs 648-655, healthcheck.rs 13-28).                    *)
NoFalseAlarm ==
  [][/\ \A file \in reasons' \ reasons : Cause(file, "poll")
     /\ failed' /\ ~failed => Cause(hc, "reader")]_vars

Verdict == hc = "idle"   \* and failed says which
Checked == sup = "idle"

(* An app that beats no more fails every healthcheck from some point on,   *)
(* and each of the supervisor's checks, restarts in between or not.        *)
HungAppReported ==
  <>[][~AppWrites]_vars =>
    <>[]((Verdict => failed) /\ (Checked => "app" \in reasons))

(* A tunnel that is silent for good, or a supervisor that is wedged, fails *)
(* every healthcheck that reads the tunnel's file; the supervisor's check  *)
(* does not spare a silent one for the switch (README.md 118, 178).        *)
SilentTunnelReported ==
  /\ <>[][~Handshake]_vars =>
       <>[]((Verdict => tolerate \/ failed) /\ (Checked => "tunnel" \in reasons))
  /\ <>[](sup = "wedged") => <>[](Verdict => tolerate \/ failed)
=============================================================================
