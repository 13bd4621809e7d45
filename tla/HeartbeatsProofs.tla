-------------------------- MODULE HeartbeatsProofs --------------------------
(***************************************************************************)
(* Proofs about Heartbeats.tla, for every age limit, staleness bound and   *)
(* amount the wall clock is set by: what a file passed as fresh means, and *)
(* when a file is not a reason to alert.                                   *)
(***************************************************************************)
EXTENDS MCHeartbeats, TLAPS

Stamped(n) == at[n].kind = "stamp"

(* A stamp is off by no more than the clock was set.                       *)
Drift ==
  \A n \in Names :
    Stamped(n) => /\ at[n].wall >= at[n].real - setback
                  /\ at[n].wall <= at[n].real + setforward

(* What the wall ages of two stamps say of the real ones: the ages of the  *)
(* stamp differ from the reader's by no less than the real time between    *)
(* them, but for what the clock was set back; or the stamp is so old that  *)
(* its age is no longer kept; or it is not the older of the two.           *)
Told(f, r) ==
  Stamped(f) /\ Stamped(r) =>
    \/ at[f].wall - at[r].wall >= at[f].real - at[r].real - setback
    \/ at[f].wall >= Cap - setback
    \/ at[f].real <= at[r].real

(* The tunnel's file was written on a handshake.                           *)
Backed(t) ==
  Stamped(t) =>
    /\ Stamped("handshake")
    /\ \/ at["handshake"].wall - at[t].wall < StaleSecs
       \/ at["handshake"].real <= at[t].real

Written == {"app", "tunnel", "tmp", "beat", "handshake"}

(* Which stamps there are, and how old those of the readers may be.        *)
Taken ==
  /\ Stamped("poll") <=> sup \in {"polling", "asking", "renaming", "checking"}
  /\ Stamped("beat") <=> sup = "asking"
  /\ Stamped("tmp") <=> sup = "renaming"
  /\ Stamped("reader") <=> hc \in {"app", "tunnel"}
  /\ known => Stamped("handshake")
  /\ \A r \in Readers : Stamped(r) => at[r].real <= ReadTakes

Shifts == setback \in Nat /\ setforward \in Nat

Inv ==
  /\ TypeOK /\ Shifts /\ at["tmp"] # Empty /\ at["beat"] # Empty
  /\ Drift
  /\ \A f \in Written, r \in Readers : Told(f, r)
  /\ Backed("tmp") /\ Backed("tunnel")
  /\ Taken

LEMMA Numbers ==
  /\ MaxAge \in Nat /\ MaxAge > 0 /\ StaleSecs \in Nat /\ StaleSecs > 0
  /\ MaxShift \in Nat /\ ReadTakes \in Nat
  /\ Cap \in Nat /\ Cap >= MaxShift
BY HeartbeatsAssumption DEF Cap, Longest

LEMMA CapFacts ==
  /\ Longest \in Nat /\ Longest >= MaxAge /\ Longest >= StaleSecs
  /\ Cap = Longest + StaleSecs + MaxShift + ReadTakes
BY HeartbeatsAssumption DEF Cap, Longest

LEMMA StampFacts ==
  ASSUME TypeOK, NEW n \in Names
  PROVE  /\ at[n] \in Stamps
         /\ Stamped(n) => /\ at[n].wall \in Int /\ at[n].real \in Nat
                          /\ at[n].wall >= -MaxShift
                          /\ at[n].wall <= Cap /\ at[n].real <= Cap
         /\ ~Stamped(n) => at[n] \in {Missing, Empty}
BY Numbers DEF TypeOK, Stamps, Stamped, Missing, Empty

LEMMA AgedFacts ==
  ASSUME NEW s \in Stamps, NEW w \in Int, NEW x \in Nat, s.wall + w >= -MaxShift
  PROVE  /\ s.kind # "stamp" => Aged(s, w, x) = s
         /\ s.kind = "stamp" => /\ Aged(s, w, x).kind = "stamp"
                                /\ Aged(s, w, x).wall = Capped(s.wall + w)
                                /\ Aged(s, w, x).real = Capped(s.real + x)
                                /\ Aged(s, w, x) \in Stamps
<1>1. CASE s.kind # "stamp"
  BY <1>1 DEF Aged
<1>2. CASE s.kind = "stamp"
  <2>1. s.wall \in Int /\ s.real \in Nat
    BY <1>2, Numbers DEF Stamps, Missing, Empty
  <2>2. Capped(s.wall + w) \in -MaxShift..Cap /\ Capped(s.real + x) \in 0..Cap
    BY <2>1, Numbers DEF Capped
  <2>3. Aged(s, w, x) = [kind |-> "stamp", wall |-> Capped(s.wall + w),
                         real |-> Capped(s.real + x)]
    BY <1>2 DEF Aged
  <2> HIDE DEF Capped
  <2> QED
    BY <1>2, <2>2, <2>3 DEF Stamps
<1> QED
  BY <1>1, <1>2

(* Time passes, or the clock is set.                                       *)
AgesBy(w, x) ==
  /\ at' = [n \in Names |-> Aged(at[n], w, x)]
  /\ UNCHANGED <<known, sup, reasons, hc, failed, tolerate>>
  /\ setback' + setforward' <= MaxShift

Ages ==
  \/ /\ AgesBy(1, 1) /\ setback' = setback /\ setforward' = setforward
     /\ \A r \in Readers : Stamped(r) => at[r].real < ReadTakes
  \/ AgesBy(-1, 0) /\ setback' = setback + 1 /\ setforward' = setforward
  \/ AgesBy(1, 0) /\ setback' = setback /\ setforward' = setforward + 1

LEMMA AgesKept == ASSUME Inv, Ages PROVE Inv'
<1> USE Numbers
<1>1. PICK w \in {-1, 1}, x \in {0, 1}, back \in {0, 1}, forward \in {0, 1} :
        /\ AgesBy(w, x) /\ w = x + forward - back
        /\ setback' = setback + back /\ setforward' = setforward + forward
        /\ x = 1 => \A r \in Readers : Stamped(r) => at[r].real < ReadTakes
  BY DEF Ages, Inv, Shifts
<1>2. /\ setback \in Nat /\ setforward \in Nat
      /\ setback + back + setforward + forward <= MaxShift
      /\ setback' = setback + back /\ setforward' = setforward + forward
      /\ w \in Int /\ x \in Nat /\ back \in Nat /\ forward \in Nat
      /\ w = x + forward - back /\ x <= 1 /\ back <= 1 /\ forward <= 1
  BY <1>1 DEF Inv, Shifts, AgesBy
<1>3. ASSUME NEW n \in Names
      PROVE  /\ at'[n] \in Stamps
             /\ Stamped(n)' <=> Stamped(n)
             /\ ~Stamped(n) => at'[n] = at[n]
             /\ Stamped(n) => /\ at[n].wall \in Int /\ at[n].real \in Nat
                              /\ at[n].wall <= Cap /\ at[n].real <= Cap
                              /\ at[n].wall >= at[n].real - setback
                              /\ at[n].wall <= at[n].real + setforward
                              /\ at'[n].wall = Capped(at[n].wall + w)
                              /\ at'[n].real = Capped(at[n].real + x)
  <2>1. at'[n] = Aged(at[n], w, x)
    BY <1>1 DEF AgesBy
  <2>2. at[n] \in Stamps /\ (~Stamped(n) => at[n] \in {Missing, Empty})
    BY StampFacts DEF Inv
  <2>3. Stamped(n) => /\ at[n].wall \in Int /\ at[n].real \in Nat
                      /\ at[n].wall <= Cap /\ at[n].real <= Cap
                      /\ at[n].wall >= at[n].real - setback
                      /\ at[n].wall <= at[n].real + setforward
    BY StampFacts DEF Inv, Drift
  <2>4. Stamped(n) => at[n].wall + w >= -MaxShift
    BY <1>2, <2>3
  <2>5. CASE Stamped(n)
    BY <1>2, <2>1, <2>2, <2>3, <2>4, <2>5, AgedFacts DEF Stamped
  <2>6. CASE ~Stamped(n)
    <3>1. at'[n] = at[n]
      BY <2>1, <2>6 DEF Aged, Stamped
    <3> QED
      BY <2>2, <2>6, <3>1 DEF Stamped
  <2> QED
    BY <2>5, <2>6
<1>4. TypeOK' /\ Shifts' /\ at'["tmp"] # Empty /\ at'["beat"] # Empty
  <2>1. at' \in [Names -> Stamps]
    BY <1>1, <1>3 DEF AgesBy
  <2>2. \A n \in {"tunnel", "tmp", "beat"} : at'[n] # Empty
    <3> SUFFICES ASSUME NEW n \in {"tunnel", "tmp", "beat"} PROVE at'[n] # Empty
      OBVIOUS
    <3>1. n \in Names /\ at[n] # Empty
      BY DEF Inv, TypeOK, Names
    <3> QED
      BY <1>3, <3>1 DEF Stamped, Empty
  <2>3. UNCHANGED <<known, sup, reasons, hc, failed, tolerate>>
    BY <1>1 DEF AgesBy
  <2> QED
    <3>1. setback' + setforward' \in 0..MaxShift
      BY <1>2
    <3> QED
      BY <1>2, <2>1, <2>2, <2>3, <3>1 DEF Inv, TypeOK, Shifts
<1>5. Drift'
  <2> SUFFICES ASSUME NEW n \in Names, Stamped(n)'
               PROVE  /\ at'[n].wall >= at'[n].real - setback'
                      /\ at'[n].wall <= at'[n].real + setforward'
    BY DEF Drift
  <2>1. /\ at[n].wall \in Int /\ at[n].real \in Nat
        /\ at[n].wall <= Cap /\ at[n].real <= Cap
        /\ at[n].wall >= at[n].real - setback
        /\ at[n].wall <= at[n].real + setforward
        /\ at'[n].wall = Capped(at[n].wall + w)
        /\ at'[n].real = Capped(at[n].real + x)
    BY <1>3
  <2>2. /\ at[n].wall + w >= (at[n].real + x) - setback'
        /\ at[n].wall + w <= (at[n].real + x) + setforward'
    <3> DEFINE wall == at[n].wall
               real == at[n].real
    <3>1. wall \in Int /\ real \in Nat /\ wall >= real - setback /\ wall <= real + setforward
      BY <2>1
    <3> HIDE DEF wall, real
    <3>2. wall + w >= (real + x) - setback' /\ wall + w <= (real + x) + setforward'
      BY <1>2, <3>1
    <3> QED
      BY <3>2 DEF wall, real
  <2> QED
    BY <1>2, <2>1, <2>2 DEF Capped
<1>6. \A r \in Readers : Stamped(r)' => at'[r].real <= ReadTakes
  <2> SUFFICES ASSUME NEW r \in Readers, Stamped(r)' PROVE at'[r].real <= ReadTakes
    OBVIOUS
  <2>1. r \in Names /\ Stamped(r)
    BY <1>3 DEF Readers, Names
  <2>2. at[r].real <= ReadTakes
    BY <2>1 DEF Inv, Taken
  <2> QED
    BY <1>1, <1>3, <2>1, <2>2 DEF Capped
<1>7. \A f \in Written, r \in Readers : Told(f, r)'
  <2> SUFFICES ASSUME NEW f \in Written, NEW r \in Readers, Stamped(f)', Stamped(r)'
               PROVE  \/ at'[f].wall - at'[r].wall >= at'[f].real - at'[r].real - setback'
                      \/ at'[f].wall >= Cap - setback'
                      \/ at'[f].real <= at'[r].real
    BY DEF Told
  <2>1. f \in Names /\ r \in Names /\ Stamped(f) /\ Stamped(r)
    BY <1>3 DEF Written, Readers, Names
  <2>2. at[r].real <= ReadTakes
    BY <2>1 DEF Inv, Taken
  <2>3. \/ at[f].wall - at[r].wall >= at[f].real - at[r].real - setback
        \/ at[f].wall >= Cap - setback
        \/ at[f].real <= at[r].real
    BY <2>1 DEF Inv, Told
  <2> QED
    BY <1>1, <1>2, <1>3, <2>1, <2>2, <2>3 DEF Capped
<1>8. ASSUME NEW t \in {"tmp", "tunnel"} PROVE Backed(t)'
  <2> SUFFICES ASSUME Stamped(t)' PROVE Backed(t)'
    BY DEF Backed
  <2>1. /\ t \in Names /\ "handshake" \in Names /\ Stamped(t) /\ Backed(t)
    BY <1>3 DEF Names, Inv
  <2> QED
    BY <1>1, <1>2, <1>3, <2>1 DEF Backed, Capped
<1>9. Taken'
  <2>1. \A n \in {"poll", "beat", "tmp", "reader", "handshake"} : Stamped(n)' <=> Stamped(n)
    BY <1>3 DEF Names
  <2> QED
    BY <1>1, <1>6, <2>1 DEF Inv, Taken, AgesBy
<1> QED
  BY <1>4, <1>5, <1>7, <1>8, <1>9 DEF Inv

(* A stamp is new, or is moved from one file to another; the readers take  *)
(* new ones only.                                                          *)
Moves ==
  /\ at' \in [Names -> Stamps] /\ at'["tmp"] # Empty /\ at'["beat"] # Empty
  /\ at'["tunnel"] # Empty
  /\ UNCHANGED <<tolerate, setback, setforward>>
  /\ \A r \in Readers : at'[r] = at[r] \/ ~Stamped(r)' \/ at'[r] = Now
  /\ \A f \in Written : ~Stamped(f)' \/ at'[f] = Now \/ \E g \in Written : at'[f] = at[g]

LEMMA MovesKept ==
  ASSUME Inv, Moves
  PROVE  /\ Drift' /\ Shifts'
         /\ \A f \in Written, r \in Readers : Told(f, r)'
         /\ \A r \in Readers : Stamped(r)' => at'[r].real <= ReadTakes
<1> USE Numbers
<1>1. /\ setback \in Nat /\ setforward \in Nat /\ setback' = setback /\ setforward' = setforward
  BY DEF Inv, Shifts, Moves
<1>2. Now.wall = 0 /\ Now.real = 0 /\ Now.kind = "stamp"
  BY DEF Now
<1>3. ASSUME NEW r \in Readers, Stamped(r)'
      PROVE  \/ at'[r] = at[r] /\ Stamped(r) /\ r \in Names
             \/ at'[r] = Now
  BY <1>3 DEF Moves, Stamped, Readers, Names
<1>4. ASSUME NEW f \in Written, Stamped(f)'
      PROVE  at'[f] = Now \/ \E g \in Written : at'[f] = at[g] /\ Stamped(g) /\ g \in Names
  BY <1>4 DEF Moves, Stamped, Written, Names
<1>5. ASSUME NEW n \in Names, Stamped(n)
      PROVE  /\ at[n].wall \in Int /\ at[n].real \in Nat
             /\ at[n].wall >= at[n].real - setback /\ at[n].wall <= at[n].real + setforward
  BY <1>5, StampFacts DEF Inv, Drift
<1>6. Drift'
  <2> SUFFICES ASSUME NEW n \in Names, Stamped(n)'
               PROVE  /\ at'[n].wall >= at'[n].real - setback'
                      /\ at'[n].wall <= at'[n].real + setforward'
    BY DEF Drift
  <2>1. n \in Readers \/ n \in Written
    BY DEF Names, Readers, Written
  <2>2. at'[n] = Now \/ \E m \in Names : at'[n] = at[m] /\ Stamped(m)
    BY <1>3, <1>4, <2>1
  <2> QED
    BY <1>1, <1>2, <1>5, <2>2
<1>7. ASSUME NEW f \in Written, NEW r \in Readers PROVE Told(f, r)'
  <2> SUFFICES ASSUME Stamped(f)', Stamped(r)'
               PROVE  \/ at'[f].wall - at'[r].wall >= at'[f].real - at'[r].real - setback'
                      \/ at'[f].wall >= Cap - setback'
                      \/ at'[f].real <= at'[r].real
    BY DEF Told
  <2>1. CASE at'[f] = Now
    <3>1. at'[r].real \in Nat
      BY <1>2, <1>3, <1>5
    <3> QED
      BY <1>2, <2>1, <3>1
  <2>2. ASSUME NEW g \in Written, at'[f] = at[g], Stamped(g), g \in Names
        PROVE  \/ at'[f].wall - at'[r].wall >= at'[f].real - at'[r].real - setback'
               \/ at'[f].wall >= Cap - setback'
               \/ at'[f].real <= at'[r].real
    <3>1. CASE at'[r] = Now
      BY <1>1, <1>2, <1>5, <2>2, <3>1
    <3>2. CASE at'[r] = at[r] /\ Stamped(r)
      BY <1>1, <2>2, <3>2 DEF Inv, Told
    <3> QED
      BY <1>3, <3>1, <3>2
  <2> QED
    BY <1>4, <2>1, <2>2
<1>8. ASSUME NEW r \in Readers, Stamped(r)' PROVE at'[r].real <= ReadTakes
  BY <1>2, <1>3, <1>8 DEF Inv, Taken
<1> QED
  BY <1>1, <1>6, <1>7, <1>8 DEF Shifts

LEMMA BackedKept ==
  ASSUME Inv, at'["handshake"] \in {at["handshake"], Now},
         NEW t, ~Stamped(t)' \/ at'[t] = at["tmp"] \/ at'[t] = at["tunnel"]
  PROVE  Backed(t)'
<1> SUFFICES ASSUME Stamped(t)' PROVE Backed(t)'
  BY DEF Backed
<1>1. PICK u \in {"tmp", "tunnel"} : at'[t] = at[u] /\ Stamped(u) /\ Backed(u) /\ u \in Names
  BY DEF Inv, Stamped, Names
<1>2. at[u].real \in Nat
  BY <1>1, StampFacts DEF Inv
<1>3. Now.real = 0 /\ Now.kind = "stamp"
  BY DEF Now
<1> QED
  BY <1>1, <1>2, <1>3 DEF Backed, Stamped

LEMMA StepKept == ASSUME Inv, [Next]_vars PROVE Inv'
<1> USE Numbers
<1>1. /\ {Missing, Empty, Now} \subseteq Stamps
      /\ Missing.kind # "stamp" /\ Empty.kind # "stamp" /\ Now.kind = "stamp"
      /\ Missing # Empty /\ Now # Empty
  <2>1. Missing.kind = "missing" /\ Empty.kind = "empty" /\ Now.kind = "stamp"
    BY DEF Missing, Empty, Now
  <2>2. Now \in Stamps
    BY DEF Now, Stamps
  <2> QED
    BY <2>1, <2>2 DEF Stamps
<1>2. /\ at \in [Names -> Stamps] /\ at["tunnel"] # Empty /\ at["tmp"] # Empty
      /\ at["beat"] # Empty
  BY DEF Inv, TypeOK
<1>3. ASSUME Ages PROVE Inv'
  BY <1>3, AgesKept
<1>4. CASE Tick
  <2>1. ASSUME NEW r \in Readers, Stamped(r) PROVE at[r].real < ReadTakes
    BY <1>4, <2>1 DEF Tick, Readers, Stamped
  <2>2. Ages
    BY <1>4, <2>1 DEF Tick, Ages, AgesBy, supVars, hcVars, envVars, Inv, TypeOK, Shifts
  <2> QED
    BY <1>3, <2>2
<1>5. ASSUME NEW by \in {-1, 1}, SetClock(by) PROVE Inv'
  <2>1. setback \in Nat /\ setforward \in Nat /\ setback + setforward < MaxShift
    BY <1>5 DEF SetClock, Inv, Shifts
  <2>2. CASE by = -1
    <3>1. setback' = setback + 1 /\ setforward' = setforward
      BY <1>5, <2>1, <2>2 DEF SetClock
    <3> QED
      BY <1>3, <1>5, <2>1, <2>2, <3>1 DEF SetClock, Ages, AgesBy, supVars, hcVars
  <2>3. CASE by = 1
    <3>1. setback' = setback /\ setforward' = setforward + 1
      BY <1>5, <2>1, <2>3 DEF SetClock
    <3> QED
      BY <1>3, <1>5, <2>1, <2>3, <3>1 DEF SetClock, Ages, AgesBy, supVars, hcVars
  <2> QED
    BY <2>2, <2>3
(* Of a step that moves stamps only what it is about is left to show.      *)
<1>6. ASSUME Moves, Backed("tmp")', Backed("tunnel")',
             known' \in BOOLEAN, known' => Stamped("handshake")',
             sup' \in {"boot", "started", "idle", "polling", "asking", "renaming", "checking",
                       "wedged"},
             reasons' \subseteq {"tunnel", "app"},
             hc' \in {"none", "idle", "app", "tunnel"}, failed' \in BOOLEAN,
             Stamped("poll")' <=> sup' \in {"polling", "asking", "renaming", "checking"},
             Stamped("beat")' <=> sup' = "asking",
             Stamped("tmp")' <=> sup' = "renaming",
             Stamped("reader")' <=> hc' \in {"app", "tunnel"}
      PROVE  Inv'
  <2>1. TypeOK'
    BY <1>6 DEF Moves, TypeOK, Inv
  <2>2. Taken'
    BY <1>6, MovesKept DEF Taken
  <2> QED
    BY <1>6, <2>1, <2>2, MovesKept DEF Inv, Moves
<1>7. CASE AppWrites
  <2>1. PICK file \in {Empty, Now} : at' = [at EXCEPT !["app"] = file]
    BY <1>7 DEF AppWrites
  <2>2. /\ at' \in [Names -> Stamps]
        /\ at'["app"] \in {Empty, Now} /\ \A n \in Names \ {"app"} : at'[n] = at[n]
    BY <1>1, <1>2, <2>1 DEF Names
  <2> QED
    BY <1>1, <1>2, <1>6, <1>7, <2>2, BackedKept
    DEF AppWrites, Moves, Names, Readers, Written, Stamped, supVars, hcVars, envVars, Inv,
        Taken, TypeOK
<1>8. CASE Handshake
  <2>1. /\ at' \in [Names -> Stamps]
        /\ at'["handshake"] = Now
        /\ \A n \in Names \ {"handshake"} : at'[n] = at[n]
    BY <1>1, <1>2, <1>8 DEF Handshake, Names
  <2> QED
    BY <1>1, <1>2, <1>6, <1>8, <2>1, BackedKept
    DEF Handshake, Moves, Names, Readers, Written, Stamped, supVars, hcVars, envVars, Inv,
        Taken, TypeOK
<1>22. CASE Unbeat
  <2>1. /\ at' \in [Names -> Stamps]
        /\ at'["tunnel"] \in {at["tunnel"], Missing}
        /\ \A n \in Names \ {"tunnel"} : at'[n] = at[n]
    BY <1>1, <1>2, <1>22 DEF Unbeat, Names
  <2> QED
    BY <1>1, <1>2, <1>6, <1>22, <2>1, BackedKept
    DEF Unbeat, Moves, Names, Readers, Written, Stamped, supVars, hcVars, envVars, Inv,
        Taken, TypeOK
<1>23. CASE Forget
  BY <1>1, <1>2, <1>6, <1>23, BackedKept
  DEF Forget, Moves, Names, Readers, Written, Stamped, supVars, hcVars, envVars, Inv,
      Taken, TypeOK
<1>9. CASE Poll
  <2>1. /\ at' \in [Names -> Stamps]
        /\ at'["poll"] = Now
        /\ \A n \in Names \ {"poll"} : at'[n] = at[n]
    BY <1>1, <1>2, <1>9 DEF Poll, Names
  <2> QED
    BY <1>1, <1>2, <1>6, <1>9, <2>1, BackedKept
    DEF Poll, Moves, Names, Readers, Written, Stamped, supVars, hcVars, envVars, Inv,
        Taken, TypeOK
<1>10. CASE TunnelPoll
  <2>1. /\ at' \in [Names -> Stamps]
        /\ at'["beat"] = Now
        /\ \A n \in Names \ {"beat"} : at'[n] = at[n]
    BY <1>1, <1>2, <1>10 DEF TunnelPoll, Names
  <2> QED
    BY <1>1, <1>2, <1>6, <1>10, <2>1, BackedKept
    DEF TunnelPoll, Moves, Names, Readers, Written, Stamped, supVars, hcVars, envVars, Inv,
        Taken, TypeOK
<1>11. CASE WriteTmp /\ HandshakeFresh /\ sup' = "renaming"
  <2>1. /\ at' \in [Names -> Stamps]
        /\ at'["tmp"] = at["beat"] /\ at'["beat"] = Missing
        /\ \A n \in Names \ {"tmp", "beat"} : at'[n] = at[n]
    BY <1>1, <1>2, <1>11 DEF WriteTmp, Names
  <2>2. Stamped("handshake") /\ Stamped("beat")
    BY <1>11 DEF WriteTmp, HandshakeFresh, Inv, Taken, Stamped
  <2>3. at["handshake"].wall - at["beat"].wall < StaleSecs
    <3>1. at["handshake"].wall \in Int /\ at["beat"].wall \in Int
      BY <2>2, StampFacts DEF Inv, Names
    <3> QED
      BY <1>11, <3>1 DEF HandshakeFresh
  <2>4. Backed("tmp")'
    BY <2>1, <2>2, <2>3 DEF Backed, Stamped, Names
  <2>5. Stamped("tmp")' /\ ~Stamped("beat")'
    BY <1>1, <2>1, <2>2 DEF Stamped
  <2> QED
    BY <1>1, <1>2, <1>6, <1>11, <2>1, <2>4, <2>5, BackedKept
    DEF WriteTmp, Moves, Names, Readers, Written, Stamped, supVars, hcVars, envVars, Inv,
        Taken, TypeOK
<1>12. CASE WriteTmp /\ ~HandshakeFresh
  <2>1. /\ at' \in [Names -> Stamps]
        /\ at'["beat"] = Missing
        /\ \A n \in Names \ {"beat"} : at'[n] = at[n]
    BY <1>1, <1>2, <1>12 DEF WriteTmp, Names
  <2> QED
    BY <1>1, <1>2, <1>6, <1>12, <2>1, BackedKept
    DEF WriteTmp, Moves, Names, Readers, Written, Stamped, supVars, hcVars, envVars, Inv,
        Taken, TypeOK
<1>13. CASE Rename
  <2>1. /\ at' \in [Names -> Stamps]
        /\ at'["tunnel"] = at["tmp"]
        /\ at'["tmp"] = Missing
        /\ \A n \in Names \ {"tunnel", "tmp"} : at'[n] = at[n]
    BY <1>1, <1>2, <1>13 DEF Rename, Names
  <2> QED
    BY <1>1, <1>2, <1>6, <1>13, <2>1, BackedKept
    DEF Rename, Moves, Names, Readers, Written, Stamped, supVars, hcVars, envVars, Inv,
        Taken, TypeOK
<1>14. CASE WriteFails
  <2>1. /\ at' \in [Names -> Stamps]
        /\ at'["beat"] = Missing
        /\ at'["tmp"] = Missing
        /\ \A n \in Names \ {"beat", "tmp"} : at'[n] = at[n]
    BY <1>1, <1>2, <1>14 DEF WriteFails, Names
  <2> QED
    BY <1>1, <1>2, <1>6, <1>14, <2>1, BackedKept
    DEF WriteFails, Moves, Names, Readers, Written, Stamped, supVars, hcVars, envVars, Inv,
        Taken, TypeOK
<1>15. CASE CheckFiles
  <2>1. /\ at' \in [Names -> Stamps]
        /\ at'["poll"] = Missing
        /\ \A n \in Names \ {"poll"} : at'[n] = at[n]
    BY <1>1, <1>2, <1>15 DEF CheckFiles, Names
  <2> QED
    BY <1>1, <1>2, <1>6, <1>15, <2>1, BackedKept
    DEF CheckFiles, Found, Moves, Names, Readers, Written, Stamped, supVars, hcVars, envVars,
        Inv, Taken, TypeOK
<1>16. CASE Wedge
  <2>1. /\ at' \in [Names -> Stamps]
        /\ at'["poll"] = Missing
        /\ at'["beat"] = Missing
        /\ at'["tmp"] = Missing
        /\ \A n \in Names \ {"poll", "beat", "tmp"} : at'[n] = at[n]
    BY <1>1, <1>2, <1>16 DEF Wedge, Names
  <2> QED
    BY <1>1, <1>2, <1>6, <1>16, <2>1, BackedKept
    DEF Wedge, Moves, Names, Readers, Written, Stamped, supVars, hcVars, envVars, Inv,
        Taken, TypeOK
<1>17. CASE Restart
  <2>1. /\ at' \in [Names -> Stamps]
        /\ \A n \in {"app", "tunnel", "handshake"} : at'[n] = at[n]
        /\ \A n \in Names \ {"app", "tunnel", "handshake"} : at'[n] = Missing
    BY <1>1, <1>2, <1>17 DEF Restart, Names
  <2> QED
    BY <1>1, <1>2, <1>6, <1>17, <2>1, BackedKept
    DEF Restart, Moves, Names, Readers, Written, Stamped, supVars, hcVars, envVars, Inv,
        Taken, TypeOK
<1>18. CASE Healthcheck
  <2>1. /\ at' \in [Names -> Stamps]
        /\ at'["reader"] = Now
        /\ \A n \in Names \ {"reader"} : at'[n] = at[n]
    BY <1>1, <1>2, <1>18 DEF Healthcheck, Names
  <2> QED
    BY <1>1, <1>2, <1>6, <1>18, <2>1, BackedKept
    DEF Healthcheck, Moves, Names, Readers, Written, Stamped, supVars, hcVars, envVars, Inv,
        Taken, TypeOK
<1>19. CASE ReadApp /\ ~tolerate
  <2>1. at' = at /\ hc = "app" /\ hc' = "tunnel" /\ failed' = Stale("app", "reader", Limit("app", "reader"))
    BY <1>19 DEF ReadApp
  <2>2. failed' \in BOOLEAN
    BY <2>1 DEF Stale
  <2> QED
    BY <1>1, <1>2, <1>6, <1>19, <2>1, <2>2, BackedKept
    DEF ReadApp, Moves, Names, Readers, Written, Stamped, supVars, envVars, Inv, Taken, TypeOK
<1>20. CASE (ReadApp /\ tolerate) \/ ReadTunnel
  <2>1. /\ at' = [at EXCEPT !["reader"] = Missing] /\ hc' = "idle" /\ failed' \in BOOLEAN
        /\ UNCHANGED <<known, supVars, envVars>>
    BY <1>20 DEF ReadApp, ReadTunnel, Exit, Stale, Inv, TypeOK
  <2>2. /\ at' \in [Names -> Stamps] /\ at'["reader"] = Missing
        /\ \A n \in Names \ {"reader"} : at'[n] = at[n]
    BY <1>1, <1>2, <2>1 DEF Names
  <2> QED
    BY <1>1, <1>2, <1>6, <2>1, <2>2, BackedKept
    DEF Moves, Names, Readers, Written, Stamped, supVars, envVars, Inv, Taken, TypeOK
<1>21. CASE UNCHANGED vars
  BY <1>1, <1>2, <1>6, <1>21, BackedKept
  DEF Moves, Names, Readers, Written, Stamped, supVars, hcVars, envVars, Inv,
      Taken, TypeOK, vars
<1> QED
  BY <1>4, <1>5, <1>7, <1>8, <1>9, <1>10, <1>11, <1>12, <1>13, <1>14, <1>15, <1>16, <1>17, <1>18,
     <1>19, <1>20, <1>21, <1>22, <1>23
  DEF Next, SupervisorStep, HealthcheckStep, WriteTmp

LEMMA InvKept == Spec => []Inv
<1>1. Init => Inv
  <2> SUFFICES ASSUME Init PROVE Inv
    OBVIOUS
  <2>1. Missing \in Stamps /\ Missing # Empty /\ Missing.kind # "stamp"
    BY DEF Missing, Empty, Stamps
  <2>2. \A n \in Names : at[n] = Missing
    BY DEF Init
  <2>3. TypeOK /\ Shifts
    <3>1. at \in [Names -> Stamps] /\ at["tunnel"] # Empty
      BY <2>1, <2>2 DEF Init, Names
    <3>2. setback = 0 /\ setforward = 0 /\ tolerate \in BOOLEAN
      BY HeartbeatsAssumption DEF Init
    <3>3. setback + setforward \in 0..MaxShift /\ setback \in Nat /\ setforward \in Nat
      BY <3>2, Numbers
    <3>4. /\ known = FALSE /\ sup = "boot" /\ reasons = {} /\ hc = "none" /\ failed = FALSE
      BY DEF Init
    <3> QED
      BY <3>1, <3>2, <3>3, <3>4 DEF TypeOK, Shifts
  <2>4. \A n \in Names : ~Stamped(n)
    BY <2>1, <2>2 DEF Stamped
  <2> QED
    BY <2>1, <2>2, <2>3, <2>4 DEF Init, Inv, Drift, Told, Backed, Taken, Names, Written, Readers
<1>2. Inv /\ [Next]_vars => Inv'
  BY StepKept
<1> QED
  BY <1>1, <1>2, PTL DEF Spec

-----------------------------------------------------------------------------
(* A reader that is at its comparison has taken its time, not long ago; a  *)
(* stamp it compares with that is not too old for a limit is younger than  *)
(* the limit allows, as the wall clock goes.                               *)
LEMMA ReaderFacts ==
  ASSUME Inv, NEW r \in Readers, Reading(r)
  PROVE  /\ Stamped(r) /\ r \in Names
         /\ at[r].wall \in Int /\ at[r].real \in Nat
         /\ at[r].wall >= at[r].real - setback /\ at[r].wall <= ReadTakes + setforward
<1>1. Stamped(r) /\ r \in Names
  BY DEF Inv, Taken, Reading, Readers, Names
<1>2. at[r].real <= ReadTakes
  BY <1>1 DEF Inv, Taken
<1> QED
  BY <1>1, <1>2, Numbers, StampFacts DEF Inv, Drift, Shifts

LEMMA WrittenFacts ==
  ASSUME Inv, NEW f \in Written, Stamped(f)
  PROVE  /\ f \in Names /\ at[f].wall \in Int /\ at[f].real \in Nat
         /\ at[f].wall <= at[f].real + setforward
<1>1. f \in Names
  BY DEF Written, Names
<1> QED
  BY <1>1, StampFacts DEF Inv, Drift

(* Two wall ages apart by less than `most` are real ages apart by no more  *)
(* than the clock was set back besides.                                    *)
LEMMA NotOlder ==
  ASSUME Inv, NEW f \in Written, NEW r \in Readers, Stamped(f), Reading(r),
         NEW most \in Nat, most > 0, most <= Longest + StaleSecs,
         at[f].wall - at[r].wall < most
  PROVE  Gap(f, r) < most + setback
<1>1. /\ Stamped(r) /\ at[r].wall \in Int /\ at[r].real \in Nat
      /\ at[r].wall <= ReadTakes + setforward
  BY ReaderFacts
<1>2. at[f].wall \in Int /\ at[f].real \in Nat
  BY WrittenFacts
<1>3. /\ setback \in Nat /\ setforward \in Nat /\ setback + setforward <= MaxShift
  BY Numbers DEF Inv, Shifts, TypeOK
<1>4. Told(f, r)
  BY DEF Inv
<1> QED
  BY <1>1, <1>2, <1>3, <1>4, Numbers, CapFacts DEF Told, Gap

LEMMA LimitFacts ==
  ASSUME NEW f, NEW r
  PROVE  /\ Limit(f, r) \in Nat /\ Limit(f, r) > 0
         /\ Limit(f, r) <= Longest
BY Numbers, CapFacts DEF Limit

(* A file passed as fresh was written less than the reader's limit before  *)
(* it took its time, and the tunnel's file stands for contact with the hub *)
(* within the limit and the staleness bound added up, but for what the     *)
(* clock was set back in the meantime; and the tunnel's file is never      *)
(* found empty (heartbeat.rs 23-72, supervisor.rs 333-350, 648,            *)
(* healthcheck.rs).                                                        *)
THEOREM FreshIsAlive == Spec => []FreshMeansAlive
<1>1. Inv => FreshMeansAlive
  <2> SUFFICES ASSUME Inv PROVE FreshMeansAlive
    OBVIOUS
  <2>0. TypeOK /\ setback \in Nat
    BY DEF Inv, Shifts
  <2>1. ASSUME NEW r \in Readers, NEW f \in {"app", "tunnel"}, Passes(f, r)
        PROVE  /\ f \in Written /\ Stamped(f) /\ Reading(r)
               /\ at[f].wall - at[r].wall < Limit(f, r)
    <3>1. f \in Written /\ Stamped(f) /\ Reading(r)
      BY <2>1 DEF Passes, Stale, Stamped, Written
    <3>2. at[f].wall \in Int /\ at[r].wall \in Int
      BY <2>1, <3>1, ReaderFacts, WrittenFacts
    <3> QED
      BY <2>1, <3>1, <3>2, LimitFacts DEF Passes, Stale
  <2>2. ASSUME NEW r \in Readers, NEW f \in {"app", "tunnel"}, Passes(f, r)
        PROVE  Gap(f, r) < Limit(f, r) + setback
    <3>1. Limit(f, r) \in Nat /\ Limit(f, r) > 0 /\ Limit(f, r) <= Longest + StaleSecs
      BY LimitFacts, Numbers, CapFacts
    <3> QED
      BY <2>1, <2>2, <3>1, NotOlder
  <2>3. ASSUME NEW r \in Readers, Passes("tunnel", r)
        PROVE  /\ at["handshake"].kind = "stamp"
               /\ Gap("handshake", r) < Limit("tunnel", r) + StaleSecs + setback
    <3> DEFINE most == Limit("tunnel", r)
    <3>0. most \in Nat /\ most > 0 /\ most <= Longest
      BY LimitFacts, Numbers
    <3>1. Stamped("tunnel") /\ Reading(r) /\ at["tunnel"].wall - at[r].wall < most
      BY <2>1, <2>3
    <3>2. /\ Stamped("handshake")
          /\ \/ at["handshake"].wall - at["tunnel"].wall < StaleSecs
             \/ at["handshake"].real <= at["tunnel"].real
      BY <3>1 DEF Inv, Backed
    <3>3. "handshake" \in Written /\ "tunnel" \in Written
      BY DEF Written
    <3>4. /\ at["handshake"].wall \in Int /\ at["handshake"].real \in Nat
          /\ at["tunnel"].wall \in Int /\ at["tunnel"].real \in Nat
          /\ at[r].wall \in Int /\ at[r].real \in Nat
      BY <2>3, <3>1, <3>2, <3>3, ReaderFacts, WrittenFacts
    <3> HIDE DEF most
    <3>5. CASE at["handshake"].wall - at["tunnel"].wall < StaleSecs
      <4>1. at["handshake"].wall - at[r].wall < most + StaleSecs
        BY <3>0, <3>1, <3>4, <3>5, Numbers
      <4>2. most + StaleSecs \in Nat /\ most + StaleSecs > 0
            /\ most + StaleSecs <= Longest + StaleSecs
        BY <3>0, Numbers, CapFacts
      <4>3. Gap("handshake", r) < (most + StaleSecs) + setback
        BY <3>1, <3>2, <3>3, <4>1, <4>2, NotOlder
      <4> QED
        BY <3>2, <4>3 DEF Stamped, most
    <3>6. CASE at["handshake"].real <= at["tunnel"].real
      <4>1. Gap("tunnel", r) < most + setback
        BY <2>2, <2>3 DEF most
      <4>2. Gap("handshake", r) < most + StaleSecs + setback
        BY <2>0, <3>0, <3>2, <3>4, <3>6, <4>1, Numbers DEF Gap
      <4> QED
        BY <3>2, <4>2 DEF Stamped, most
    <3> QED
      BY <3>2, <3>5, <3>6
  <2> QED
    BY <2>0, <2>2, <2>3 DEF FreshMeansAlive, FreshMeansBeaten, FreshMeansContact
<1> QED
  BY <1>1, InvKept, PTL

(* The condition under which a reader finds fault with a file, in real     *)
(* time.                                                                   *)
LEMMA StaleHasCause ==
  ASSUME Inv, NEW r \in Readers, NEW f \in {"app", "tunnel"}, Reading(r),
         Stale(f, r, Limit(f, r))
  PROVE  Cause(f, r)
<1>1. f \in Names /\ f \in Written
  BY DEF Names, Written
<1>2. CASE ~Stamped(f)
  <2>1. at[f] \in {Missing, Empty} /\ (f = "tunnel" => at[f] # Empty)
    BY <1>1, <1>2, StampFacts DEF Inv, TypeOK
  <2> QED
    BY <2>1 DEF Cause
<1>3. CASE Stamped(f)
  <2>1. /\ at[f].wall \in Int /\ at[f].real \in Nat /\ at[f].wall <= at[f].real + setforward
        /\ at[r].wall \in Int /\ at[r].real \in Nat /\ at[r].wall >= at[r].real - setback
        /\ setback \in Nat /\ setforward \in Nat
    BY <1>1, <1>3, ReaderFacts, WrittenFacts DEF Inv, Shifts
  <2>2. at[f].wall - at[r].wall >= Limit(f, r)
    BY <1>3 DEF Stale, Stamped
  <2> QED
    BY <1>3, <2>1, <2>2, LimitFacts DEF Cause, Gap, Stamped
<1> QED
  BY <1>2, <1>3

(* A file the supervisor names as a reason, or that fails a healthcheck,   *)
(* is missing, half written by the app, or stamped a limit or more before  *)
(* the reader took its time, but for what the clock was set, either way    *)
(* (heartbeat.rs 38-72, supervisor.rs 648-655, healthcheck.rs 13-28).      *)
THEOREM NoAlarmWithoutCause == Spec => NoFalseAlarm
<1>1. Inv /\ [Next]_vars =>
        [/\ \A file \in reasons' \ reasons : Cause(file, "poll")
         /\ failed' /\ ~failed => Cause(hc, "reader")]_vars
  <2> SUFFICES ASSUME Inv, Next
               PROVE  /\ \A file \in reasons' \ reasons : Cause(file, "poll")
                      /\ failed' /\ ~failed => Cause(hc, "reader")
    OBVIOUS
  <2>1. CASE CheckFiles
    <3>1. ASSUME NEW file \in reasons' PROVE Cause(file, "poll")
      <4>1. /\ file \in {"app", "tunnel"} /\ "poll" \in Readers /\ Reading("poll")
            /\ Stale(file, "poll", Limit(file, "poll"))
        BY <2>1, <3>1 DEF CheckFiles, Found, Readers, Reading
      <4> QED
        BY <4>1, StaleHasCause
    <3> QED
      BY <2>1, <3>1 DEF CheckFiles, hcVars
  <2>2. CASE ReadApp \/ ReadTunnel
    <3>1. UNCHANGED reasons /\ hc \in {"app", "tunnel"}
      BY <2>2 DEF ReadApp, ReadTunnel, supVars
    <3>2. ASSUME failed', ~failed PROVE Stale(hc, "reader", Limit(hc, "reader"))
      <4>1. CASE ReadApp
        <5>1. failed' = Stale("app", "reader", Limit("app", "reader")) /\ hc = "app"
          BY <4>1 DEF ReadApp, Exit
        <5> QED
          BY <3>2, <5>1
      <4>2. CASE ReadTunnel
        <5>1. /\ failed' = (failed \/ Stale("tunnel", "reader", Limit("tunnel", "reader")))
              /\ hc = "tunnel"
          BY <4>2 DEF ReadTunnel, Exit
        <5> QED
          BY <3>2, <5>1, Zenon
      <4> QED
        BY <2>2, <4>1, <4>2
    <3>3. failed' /\ ~failed => Cause(hc, "reader")
      BY <3>1, <3>2, StaleHasCause DEF Reading, Readers
    <3> QED
      BY <3>1, <3>3
  <2>3. CASE Tick \/ (\E by \in {-1, 1} : SetClock(by)) \/ AppWrites \/ Handshake \/ Forget
    BY <2>3 DEF Tick, SetClock, AppWrites, Handshake, Forget, supVars, hcVars
  <2>4. CASE Unbeat \/ Poll \/ TunnelPoll \/ WriteTmp \/ Rename \/ WriteFails \/ Wedge
    BY <2>4 DEF Unbeat, Poll, TunnelPoll, WriteTmp, Rename, WriteFails, Wedge, hcVars
  <2>5. CASE Restart \/ Healthcheck
    BY <2>5 DEF Restart, Healthcheck, supVars
  <2> QED
    BY <2>1, <2>2, <2>3, <2>4, <2>5 DEF Next, SupervisorStep, HealthcheckStep
<1> QED
  BY <1>1, InvKept, PTL DEF Spec, NoFalseAlarm
=============================================================================
