---------------------------- MODULE ThreadsProofs ----------------------------
(***************************************************************************)
(* Proofs about what runs beside the supervisor's loop: PingSender.tla,    *)
(* Waker.tla, Consent.tla and Obtain.tla, for every value of their         *)
(* constants, each on its own and as the parts MCThreads.tla makes them.   *)
(* That the ping of a transition is never the one skipped needs polls far  *)
(* enough apart, which the code does not enforce (see the README); the     *)
(* others need nothing.                                                    *)
(***************************************************************************)
EXTENDS MCThreads, TLAPS

(* A poll starts only after the ping of the poll before has timed out.     *)
PollsApart == PollSecs > PingTimeout + MaxLag

(* The shape of the state is kept by every step (supervisor.rs 499-531).   *)
LEMMA PingTypes == Spec => []TypeOK
<1>1. Init => TypeOK
  <2> SUFFICES ASSUME Init PROVE TypeOK
    OBVIOUS
  <2>1. inflight \in [kind : Kind \cup {"None"}, left : Nat]
    BY DEF Init, NoPing
  <2>2. now \in Nat /\ next_poll \in Nat /\ code \in {-1, 0, 1}
    BY DEF Init
  <2> QED
    BY <2>1, <2>2 DEF Init, TypeOK
<1>2. TypeOK /\ [Next]_vars => TypeOK'
  <2> SUFFICES ASSUME TypeOK, [Next]_vars PROVE TypeOK'
    OBVIOUS
  <2> USE PingAssumption DEF TypeOK, Kind, NoPing
  <2>1. CASE PollDue
    BY <2>1 DEF PollDue
  <2>2. CASE Decide
    BY <2>2 DEF Decide, Send, Leave, Decided
  <2>3. CASE PingEnds
    BY <2>3 DEF PingEnds
  <2>4. CASE Finish
    BY <2>4 DEF Finish
  <2>5. CASE Join
    BY <2>5 DEF Join
  <2>6. CASE FailNow
    BY <2>6 DEF FailNow
  <2>7. CASE Tick
    BY <2>7 DEF Tick
  <2>8. CASE UNCHANGED vars
    BY <2>8 DEF vars
  <2> QED
    BY <2>1, <2>2, <2>3, <2>4, <2>5, <2>6, <2>7, <2>8 DEF Next
<1> QED
  BY <1>1, <1>2, PTL DEF Spec

(* What holds whatever the timing: an exit code is set once the loop is    *)
(* left; nothing is in flight behind the exit's /fail; until a ping left,  *)
(* no poll was fresh.                                                      *)
Order ==
  /\ pc \in {"loop", "decide"} <=> code = -1
  /\ pc \in {"failing", "done"} => inflight = NoPing
  /\ attempted = "None" => inflight = NoPing /\ ~started
  /\ last_fresh = "Fresh" => started
  /\ started => last_fresh # "None"

LEMMA OrderInvariant == Spec => []Order
<1>1. Init => Order
  BY DEF Init, Order
<1>2. TypeOK /\ Order /\ [Next]_vars => Order'
  <2> SUFFICES ASSUME TypeOK, Order, [Next]_vars PROVE Order'
    OBVIOUS
  <2> USE DEF TypeOK, Order, Kind, NoPing
  <2>1. CASE PollDue
    BY <2>1 DEF PollDue
  <2>2. CASE Decide
    BY <2>2 DEF Decide, Send, Leave, Decided
  <2>3. CASE PingEnds
    BY <2>3 DEF PingEnds
  <2>4. CASE Finish
    BY <2>4 DEF Finish
  <2>5. CASE Join
    BY <2>5 DEF Join
  <2>6. CASE FailNow
    BY <2>6 DEF FailNow
  <2>7. CASE Tick
    BY <2>7 DEF Tick
  <2>8. CASE UNCHANGED vars
    BY <2>8 DEF vars
  <2> QED
    BY <2>1, <2>2, <2>3, <2>4, <2>5, <2>6, <2>7, <2>8 DEF Next
<1> QED
  BY <1>1, <1>2, PingTypes, PTL DEF Spec

(* The first ping of all is /start, the exit's own apart: it is never the  *)
(* one `send` skips (supervisor.rs 20-33, 506-520).                        *)
THEOREM StartIsFirst == Spec => StartFirst
<1>1. TypeOK /\ Order /\ [Next]_vars
        => [attempted = "None" /\ attempted' # "None" /\ code = -1
              => attempted' = "Start"]_vars
  <2> SUFFICES ASSUME TypeOK, Order, Next,
                      attempted = "None", attempted' # "None", code = -1
               PROVE  attempted' = "Start"
    BY DEF vars
  <2> USE DEF TypeOK, Order
  <2>1. CASE Decide
    BY <2>1 DEF Decide, Send, Leave, Decided, NoPing
  <2>2. CASE Join
    BY <2>2 DEF Join
  <2> QED
    BY <2>1, <2>2 DEF Next, PollDue, PingEnds, Finish, FailNow, Tick
<1> QED
  BY <1>1, PingTypes, OrderInvariant, PTL DEF Spec, StartFirst

(* Once the exit's /fail is under way no other ping reaches the service    *)
(* (supervisor.rs 521-531).                                                *)
THEOREM NothingAfterFail == Spec => FailIsLast
<1>1. TypeOK /\ Order /\ [Next]_vars
        => [pc = "failing" \/ pc = "done" => received' \in {received, "Fail"}]_vars
  <2> SUFFICES ASSUME Order, Next, pc = "failing" \/ pc = "done"
               PROVE  received' \in {received, "Fail"}
    BY DEF vars
  <2> QED
    BY DEF Order, Next, PollDue, Decide, PingEnds, Finish, Join, FailNow, Tick
<1> QED
  BY <1>1, PingTypes, OrderInvariant, PTL DEF Spec, FailIsLast

(* The service's pings come in order: /start before any other, and nothing *)
(* after the exit's /fail (supervisor.rs 20-33, 506-531).                  *)
THEOREM PingsInOrder == Spec => PingOrder
BY StartIsFirst, NothingAfterFail, PTL DEF PingOrder

(* A ping in flight is no older than the latest poll, and a poll finds     *)
(* none in flight.                                                         *)
Timing ==
  /\ pc = "loop" /\ inflight # NoPing =>
       /\ inflight.left <= next_poll - PollSecs + MaxLag
       /\ now <= inflight.left + PingTimeout
  /\ pc = "decide" => inflight = NoPing /\ now <= next_poll - PollSecs + MaxLag

(* With polls far enough apart /fail always leaves on the transition to    *)
(* stale (supervisor.rs:12-33, 506-520).                                   *)
THEOREM FailLeaves == PollsApart /\ Spec => []FailOnStale
<1> SUFFICES ASSUME PollsApart PROVE Spec => []FailOnStale
  OBVIOUS
<1> DEFINE Inv == Timing /\ FailOnStale
<1>1. Init => Inv
  BY DEF Init, Timing, FailOnStale
<1>2. TypeOK /\ Order /\ Inv /\ [Next]_vars => Inv'
  <2> SUFFICES ASSUME TypeOK, Order, Inv, [Next]_vars PROVE Inv'
    OBVIOUS
  <2> USE PingAssumption DEF PollsApart, TypeOK, Order, Timing, FailOnStale, NoPing, Kind
  <2>1. CASE PollDue
    BY <2>1 DEF PollDue
  <2>2. CASE Decide
    <3>1. Timing'
      BY <2>2 DEF Decide, Send, Leave
    <3>2. FailOnStale'
      BY <2>2 DEF Decide, Send, Leave, Decided
    <3> QED
      BY <3>1, <3>2
  <2>3. CASE PingEnds
    BY <2>3 DEF PingEnds
  <2>4. CASE Finish
    BY <2>4 DEF Finish
  <2>5. CASE Join
    BY <2>5 DEF Join
  <2>6. CASE FailNow
    BY <2>6 DEF FailNow
  <2>7. CASE Tick
    BY <2>7 DEF Tick
  <2>8. CASE UNCHANGED vars
    BY <2>8 DEF vars
  <2> QED
    BY <2>1, <2>2, <2>3, <2>4, <2>5, <2>6, <2>7, <2>8 DEF Next
<1>3. Inv => FailOnStale
  OBVIOUS
<1> QED
  BY <1>1, <1>2, <1>3, PingTypes, OrderInvariant, PTL DEF Spec

-----------------------------------------------------------------------------
(* Where a signal may be that is raised and whose handlers have run: its   *)
(* byte, or another's, is in the socket; or the loop is still to look at   *)
(* its flag, in this iteration or, on its way back from a drain, in the    *)
(* next.                                                                   *)
Awaited(s) ==
  \/ bytes > 0
  \/ w_pc = "drain"
  \/ w_pc = "check" /\ s \in todo

WakeInv ==
  /\ Wake!TypeOK
  /\ \A s \in Sigs : flag[s] /\ handler[s] = "idle" => Awaited(s)

(* The shape of the loop's state is kept by every step (supervisor.rs      *)
(* 98-139, 595-713).                                                       *)
LEMMA WakeTypes == Wake!Spec => []Wake!TypeOK
<1> USE WakeAssumption DEF Wake!WakerAssumption
<1>1. Wake!Init => Wake!TypeOK
  BY DEF Wake!Init, Wake!TypeOK
<1>2. Wake!TypeOK /\ [Wake!Next]_Wake!vars => Wake!TypeOK'
  <2> SUFFICES ASSUME Wake!TypeOK, [Wake!Next]_Wake!vars PROVE Wake!TypeOK'
    OBVIOUS
  <2> USE DEF Wake!TypeOK
  <2>1. ASSUME NEW s \in Sigs, Wake!Check(s) PROVE Wake!TypeOK'
    BY <2>1 DEF Wake!Check
  <2>2. CASE Wake!Checked
    BY <2>2 DEF Wake!Checked
  <2>3. CASE Wake!Wait
    BY <2>3 DEF Wake!Wait
  <2>4. CASE Wake!Drain
    BY <2>4 DEF Wake!Drain
  <2>5. ASSUME NEW s \in Sigs, Wake!Raise(s) PROVE Wake!TypeOK'
    BY <2>5 DEF Wake!Raise
  <2>6. ASSUME NEW s \in Sigs, Wake!Write(s) PROVE Wake!TypeOK'
    BY <2>6 DEF Wake!Write
  <2>7. CASE UNCHANGED Wake!vars
    BY <2>7 DEF Wake!vars
  <2> QED
    BY <2>1, <2>2, <2>3, <2>4, <2>5, <2>6, <2>7 DEF Wake!Next
<1> QED
  BY <1>1, <1>2, PTL DEF Wake!Spec

LEMMA WakeStep == WakeInv /\ Wake!TypeOK' /\ [Wake!Next]_Wake!vars => WakeInv'
<1> SUFFICES ASSUME WakeInv, Wake!TypeOK', [Wake!Next]_Wake!vars,
                    NEW s \in Sigs, flag'[s], handler'[s] = "idle"
             PROVE  Awaited(s)'
  BY DEF WakeInv
<1> USE WakeAssumption DEF Wake!WakerAssumption, WakeInv, Wake!TypeOK, Awaited
(* Looking at a flag clears it.                                            *)
<1>1. ASSUME NEW t \in Sigs, Wake!Check(t) PROVE Awaited(s)'
  BY <1>1 DEF Wake!Check
<1>2. CASE Wake!Checked
  BY <1>2 DEF Wake!Checked
<1>3. CASE Wake!Wait
  BY <1>3 DEF Wake!Wait
(* A drain leaves only an empty socket, for a look at every flag.          *)
<1>4. CASE Wake!Drain
  BY <1>4 DEF Wake!Drain
<1>5. ASSUME NEW t \in Sigs, Wake!Raise(t) PROVE Awaited(s)'
  BY <1>5 DEF Wake!Raise
(* A byte that finds the socket full is not missed.                        *)
<1>6. ASSUME NEW t \in Sigs, Wake!Write(t) PROVE Awaited(s)'
  BY <1>6 DEF Wake!Write
<1>7. CASE UNCHANGED Wake!vars
  BY <1>7 DEF Wake!vars
<1> QED
  BY <1>1, <1>2, <1>3, <1>4, <1>5, <1>6, <1>7 DEF Wake!Next

(* No wake-up is lost: when the loop sleeps on an empty socket no signal   *)
(* whose handlers have run waits to be seen (supervisor.rs 98-139).        *)
LEMMA WakeupsSeen == Wake!Spec => []Wake!NoLostWakeup
<1> USE WakeAssumption DEF Wake!WakerAssumption
<1>1. Wake!Init => WakeInv
  BY DEF Wake!Init, WakeInv, Wake!TypeOK, Awaited
<1>2. WakeInv => Wake!NoLostWakeup
  BY DEF WakeInv, Wake!TypeOK, Awaited, Wake!NoLostWakeup
<1> QED
  BY <1>1, <1>2, WakeTypes, WakeStep, PTL DEF Wake!Spec

-----------------------------------------------------------------------------
(* The shape of the state is kept by every step (consent.rs 17-36).        *)
LEMMA AskTypes == Ask!Spec => []Ask!TypeOK
<1> USE AskAssumption DEF Ask!ConsentAssumption
<1>1. Ask!Init => Ask!TypeOK
  BY DEF Ask!Init, Ask!TypeOK
<1>2. Ask!TypeOK /\ [Ask!Next]_Ask!vars => Ask!TypeOK'
  <2> SUFFICES ASSUME Ask!TypeOK, [Ask!Next]_Ask!vars PROVE Ask!TypeOK'
    OBVIOUS
  <2> QED
    BY DEF Ask!TypeOK, Ask!Next, Ask!Ask, Ask!Fails, Ask!ReadPiece, Ask!ReadEnd, Ask!Tick,
           Ask!Waiting, Ask!Answer, Ask!vars
<1> QED
  BY <1>1, <1>2, PTL DEF Ask!Spec

(* Each byte pays for one timeout.                                         *)
LEMMA OneMore ==
  ASSUME NEW m \in Nat, NEW n \in Nat, m < n
  PROVE  m * Timeout + Timeout <= n * Timeout
<1> DEFINE k == n - (m + 1)
<1>1. k \in Nat /\ n = m + 1 + k
  OBVIOUS
<1>2. Timeout \in Nat
  BY AskAssumption DEF Ask!ConsentAssumption
<1> HIDE DEF k
<1>3. k * Timeout \in Nat
  BY <1>1, <1>2
<1>4. (m + 1 + k) * Timeout = m * Timeout + Timeout + k * Timeout
  BY <1>1, <1>2
<1>5. m * Timeout \in Nat /\ n * Timeout = m * Timeout + Timeout + k * Timeout
  BY <1>1, <1>2, <1>4
<1> QED
  BY <1>2, <1>3, <1>5

LEMMA Times == ASSUME NEW m \in Nat PROVE m * Timeout \in Nat
BY AskAssumption DEF Ask!ConsentAssumption

(* A read began no later than the bytes before it allow, and has not       *)
(* outlasted its timeout.                                                  *)
Paid ==
  /\ c_pc = "ask" => c_now = 0 /\ waiting = 0 /\ got = 0
  /\ c_pc = "read" => /\ waiting <= got * Timeout
                      /\ c_now <= waiting + Timeout
                      /\ got < Limit
  /\ Ask!AskBounded

(* An ask ends, however slowly the app's bytes come, within one timeout    *)
(* for each byte that is read (consent.rs 25-36).                          *)
LEMMA AskPaid == Ask!Spec => []Ask!AskBounded
<1> USE AskAssumption DEF Ask!ConsentAssumption
<1>1. Ask!Init => Paid
  <2> SUFFICES ASSUME Ask!Init PROVE Paid
    OBVIOUS
  <2>1. Limit * Timeout \in Nat
    OBVIOUS
  <2> QED
    BY <2>1 DEF Ask!Init, Paid, Ask!AskBounded
<1>2. Ask!TypeOK /\ Ask!TypeOK' /\ Paid /\ [Ask!Next]_Ask!vars => Paid'
  <2> SUFFICES ASSUME Ask!TypeOK, Ask!TypeOK', Paid, [Ask!Next]_Ask!vars PROVE Paid'
    OBVIOUS
  <2> USE DEF Ask!TypeOK, Paid, Ask!AskBounded
  <2>1. CASE Ask!Ask
    <3>1. 0 * Timeout = 0
      OBVIOUS
    <3> QED
      BY <2>1, <3>1 DEF Ask!Ask
  <2>2. CASE Ask!Fails
    BY <2>2 DEF Ask!Fails, Ask!Answer
  <2>3. CASE Ask!ReadPiece
    <3>0. /\ got \in Nat /\ got' \in Nat /\ got < got' /\ got' < Limit
          /\ c_now \in Nat /\ waiting \in Nat /\ Timeout \in Nat
          /\ waiting <= got * Timeout /\ c_now <= waiting + Timeout
          /\ waiting' = c_now /\ c_now' = c_now /\ c_pc = "read" /\ c_pc' = "read"
      BY <2>3 DEF Ask!ReadPiece
    <3> DEFINE old == got * Timeout
               new == got' * Timeout
    <3>1. old + Timeout <= new /\ old \in Nat /\ new \in Nat
      BY <3>0, OneMore, Times
    <3>2. waiting <= old
      BY <3>0
    <3> HIDE DEF old, new
    <3>3. c_now <= new
      BY ONLY <3>0, <3>1, <3>2
    <3>4. waiting' <= new
      BY ONLY <3>0, <3>3
    <3>5. c_now' <= waiting' + Timeout
      BY ONLY <3>0
    <3> QED
      BY <3>0, <3>4, <3>5 DEF new
  <2>4. CASE Ask!ReadEnd
    BY <2>4 DEF Ask!ReadEnd, Ask!Answer
  <2>5. CASE Ask!Tick
    <3>0. got \in Nat /\ Limit \in Nat /\ got < Limit
      BY <2>5 DEF Ask!Tick, Ask!Waiting
    <3>1. got * Timeout + Timeout <= Limit * Timeout
      BY <3>0, OneMore
    <3>2. got * Timeout \in Nat /\ Limit * Timeout \in Nat
      BY <3>0, Times
    <3>3. c_now' <= Limit * Timeout
      BY <2>5, <3>1, <3>2 DEF Ask!Tick, Ask!Waiting
    <3> QED
      BY <2>5, <3>3 DEF Ask!Tick, Ask!Waiting
  <2>6. CASE UNCHANGED Ask!vars
    BY <2>6 DEF Ask!vars
  <2> QED
    BY <2>1, <2>2, <2>3, <2>4, <2>5, <2>6 DEF Ask!Next
<1>3. Paid => Ask!AskBounded
  BY DEF Paid
<1> QED
  BY <1>1, <1>2, <1>3, AskTypes, PTL DEF Ask!Spec

-----------------------------------------------------------------------------
ByApi == {"listing", "asset"}
Downloads == {"download", "public"}
Steps == {"version"} \cup ByApi \cup Downloads

RequestType ==
  [step : Steps \cup {"none"}, host : Fetch!Hosts \cup {"none"}, bearer : BOOLEAN,
   left : 0..RequestTimeout]

(* How many requests have begun by a step, at most.                        *)
Begun == [s \in Steps |->
            CASE s = "version" -> 1 [] s = "listing" -> 2 [] s = "public" -> 2
              [] s = "asset" -> 3 [] s = "download" -> 4]

CallTyped ==
  /\ Fetch!TypeOK
  /\ request \in RequestType
  /\ token \in BOOLEAN

(* What a call under way knows: its tag is read by the first request and   *)
(* is one the hub reported; a token is there for those that carry it; and  *)
(* no request has had more than its timeout.                               *)
Underway ==
  /\ request = Fetch!NoRequest /\ outcome = "None" => have = 0 /\ tag = 0 /\ spent = 0
  /\ request # Fetch!NoRequest =>
       /\ outcome = "None"
       /\ spent + request.left <= Begun[request.step] * RequestTimeout
       /\ request.step = "version" => tag = 0 /\ version \in reported
       /\ request.step # "version" => tag \in reported /\ tag # 0 /\ tag # have
       /\ request.step \in ByApi => token
  /\ Fetch!TokenToApiOnly

LEMMA CallInvariant == Fetch!Spec => [](CallTyped /\ Underway)
<1> USE FetchAssumption DEF Fetch!ObtainAssumption
<1>0. /\ 0 \notin Tags /\ RequestTimeout \in Nat /\ 0 < RequestTimeout
      /\ Fetch!NoRequest \in RequestType /\ Fetch!NoRequest.step = "none"
      /\ ~Fetch!NoRequest.bearer
      /\ Fetch!NoRequest.left = 0
  BY DEF Fetch!NoRequest, RequestType
<1>1. Fetch!Init => CallTyped /\ Underway
  BY <1>0 DEF Fetch!Init, CallTyped, Fetch!TypeOK, Underway, Fetch!TokenToApiOnly
<1>2. CallTyped /\ Underway /\ [Fetch!Next]_Fetch!vars => CallTyped' /\ Underway'
  <2> SUFFICES ASSUME CallTyped, Underway, [Fetch!Next]_Fetch!vars PROVE CallTyped' /\ Underway'
    OBVIOUS
  <2> USE <1>0 DEF CallTyped, Fetch!TypeOK, Underway, Fetch!TokenToApiOnly
  <2>2. ASSUME NEW step \in Steps, NEW host \in Fetch!Hosts, NEW bearer \in BOOLEAN,
               Fetch!Request(step, host, bearer)
        PROVE  /\ request' \in RequestType /\ request' # Fetch!NoRequest
               /\ request'.step = step /\ request'.host = host /\ request'.bearer = bearer
               /\ request'.left = RequestTimeout
    BY <2>2 DEF Fetch!Request, RequestType, Steps, ByApi, Downloads, Fetch!NoRequest
  <2>3. CASE Fetch!Call
    <3>1. Fetch!Request("version", "hub", FALSE)
      BY <2>3 DEF Fetch!Call
    <3>2. /\ request' \in RequestType /\ request' # Fetch!NoRequest
          /\ request'.step = "version" /\ ~request'.bearer /\ request'.left = RequestTimeout
      BY <2>2, <3>1 DEF Steps, Fetch!Hosts
    <3> QED
      BY <2>3, <3>2 DEF Fetch!Call, Fetch!hubVars, Begun, Steps, ByApi
  <2>4. CASE Fetch!Version
    <3>1. CASE version = have
      BY <2>4, <3>1 DEF Fetch!Version, Fetch!Return, Fetch!hubVars, Fetch!Outcome
    <3>2. CASE version # have /\ token
      <4>1. Fetch!Request("listing", "api", TRUE)
        BY <2>4, <3>2 DEF Fetch!Version
      <4>2. /\ request' \in RequestType /\ request' # Fetch!NoRequest
            /\ request'.step = "listing" /\ request'.host = "api" /\ request'.left = RequestTimeout
        BY <2>2, <4>1 DEF Steps, ByApi, Fetch!Hosts
      <4>3. request # Fetch!NoRequest /\ request.step = "version"
        BY <2>4 DEF Fetch!Version
      <4> QED
        BY <2>4, <3>2, <4>2, <4>3 DEF Fetch!Version, Fetch!hubVars, Begun, Steps, ByApi,
             Downloads, RequestType
    <3>3. CASE version # have /\ ~token
      <4>1. Fetch!Request("public", "web", FALSE)
        BY <2>4, <3>3 DEF Fetch!Version
      <4>2. /\ request' \in RequestType /\ request' # Fetch!NoRequest
            /\ request'.step = "public" /\ ~request'.bearer /\ request'.left = RequestTimeout
        BY <2>2, <4>1 DEF Steps, Downloads, Fetch!Hosts
      <4>3. request # Fetch!NoRequest /\ request.step = "version"
        BY <2>4 DEF Fetch!Version
      <4> QED
        BY <2>4, <3>3, <4>2, <4>3 DEF Fetch!Version, Fetch!hubVars, Begun, Steps, ByApi,
             Downloads, RequestType
    <3> QED
      BY <3>1, <3>2, <3>3
  <2>5. CASE Fetch!Listing
    <3>1. Fetch!Request("asset", "api", TRUE)
      BY <2>5 DEF Fetch!Listing, Fetch!OnTheApi
    <3>2. /\ request' \in RequestType /\ request' # Fetch!NoRequest
          /\ request'.step = "asset" /\ request'.host = "api" /\ request'.left = RequestTimeout
      BY <2>2, <3>1 DEF Steps, ByApi, Fetch!Hosts
    <3>3. request # Fetch!NoRequest /\ request.step = "listing"
      BY <2>5 DEF Fetch!Listing
    <3> QED
      BY <2>5, <3>2, <3>3 DEF Fetch!Listing, Fetch!hubVars, Fetch!callVars, Begun, Steps,
           ByApi, Downloads, RequestType
  <2>6. CASE Fetch!Asset
    <3>1. PICK host \in Fetch!Hosts : Fetch!Request("download", host, FALSE)
      BY <2>6 DEF Fetch!Asset
    <3>2. /\ request' \in RequestType /\ request' # Fetch!NoRequest
          /\ request'.step = "download" /\ ~request'.bearer /\ request'.left = RequestTimeout
      BY <2>2, <3>1 DEF Steps, Downloads
    <3>3. request # Fetch!NoRequest /\ request.step = "asset"
      BY <2>6 DEF Fetch!Asset
    <3> QED
      BY <2>6, <3>2, <3>3 DEF Fetch!Asset, Fetch!hubVars, Fetch!callVars, Begun, Steps,
           ByApi, Downloads, RequestType
  <2>7. CASE Fetch!Body
    <3>1. request' = Fetch!NoRequest /\ outcome' \in Fetch!Outcome
      BY <2>7 DEF Fetch!Body, Fetch!Return, Fetch!Outcome
    <3> QED
      BY <2>7, <3>1 DEF Fetch!Body, Fetch!hubVars, Fetch!Outcome
  <2>8. CASE Fetch!Redirect
    <3>1. PICK host \in Fetch!Hosts : request' = [request EXCEPT !.host = host,
    !.bearer = FALSE]
      BY <2>8 DEF Fetch!Redirect
    <3>2. /\ request.step # "none" /\ request # Fetch!NoRequest
          /\ request' \in RequestType /\ request'.step = request.step /\ ~request'.bearer
          /\ request'.left = request.left
      BY <2>8, <3>1 DEF Fetch!Redirect, RequestType
    <3>3. request' # Fetch!NoRequest
      BY <3>2
    <3> QED
      BY <2>8, <3>2, <3>3 DEF Fetch!Redirect, Fetch!hubVars, Fetch!callVars
  <2>9. CASE Fetch!Fails
    BY <2>9 DEF Fetch!Fails, Fetch!Return, Fetch!hubVars, Fetch!Outcome
  <2>10. CASE Fetch!Take
    BY <2>10 DEF Fetch!Take, Fetch!hubVars, Fetch!Outcome
  <2>11. CASE Fetch!Publish
    BY <2>11 DEF Fetch!Publish
  <2>12. CASE Fetch!Tick
    <3>1. /\ request # Fetch!NoRequest
          /\ request' \in RequestType /\ request'.step = request.step
          /\ request'.host = request.host /\ request'.bearer = request.bearer
          /\ request'.left = request.left - 1
      BY <2>12 DEF Fetch!Tick, RequestType
    <3>2. request' # Fetch!NoRequest
      BY <3>1
    <3>3. Begun[request.step] * RequestTimeout = Begun[request'.step] * RequestTimeout'
      BY <3>1
    <3>4. spent' + request'.left = spent + request.left
      BY <2>12, <3>1 DEF Fetch!Tick, RequestType
    <3>5. /\ spent' \in Nat /\ outcome' = "None"
          /\ UNCHANGED <<token, applied, version, release, have, tag, reported>>
      BY <2>12, <3>1 DEF Fetch!Tick, Fetch!hubVars
    <3> QED
      BY <3>1, <3>2, <3>3, <3>4, <3>5 DEF RequestType
  <2>13. CASE UNCHANGED Fetch!vars
    BY <2>13 DEF Fetch!vars, Fetch!hubVars, Fetch!callVars
  <2> QED
    BY <2>3, <2>4, <2>5, <2>6, <2>7, <2>8, <2>9, <2>10, <2>11, <2>12, <2>13 DEF Fetch!Next
<1> QED
  BY <1>1, <1>2, PTL DEF Fetch!Spec

(* The shape of the state is kept by every step (fetch.rs 41-215).         *)
LEMMA FetchTypes == Fetch!Spec => []Fetch!TypeOK
<1>1. CallTyped => Fetch!TypeOK
  BY DEF CallTyped
<1> QED
  BY <1>1, CallInvariant, PTL

(* The token is sent to the API host and to no other, wherever the URL of  *)
(* an asset or a redirect leads (fetch.rs 98-110).                         *)
LEMMA TokenKept == Fetch!Spec => []Fetch!TokenToApiOnly
<1>1. Underway => Fetch!TokenToApiOnly
  BY DEF Underway
<1> QED
  BY <1>1, CallInvariant, PTL

(* A bundle returned is of the version the hub reported in the call, and   *)
(* says so itself (fetch.rs 195-215).                                      *)
LEMMA BundlePinned == Fetch!Spec => Fetch!PinnedToItsTag
<1> DEFINE Pinned == outcome = "None" /\ outcome' \in {"New", "NotEnrolled"} =>
                       tag' \in reported' /\ tag' # have' /\ release[tag'].stamp = tag'
<1>1. CallTyped /\ Underway /\ [Fetch!Next]_Fetch!vars => [Pinned]_Fetch!vars
  <2> SUFFICES ASSUME CallTyped, Underway, Fetch!Next, outcome = "None",
                      outcome' \in {"New", "NotEnrolled"}
               PROVE  tag' \in reported' /\ tag' # have' /\ release[tag'].stamp = tag'
    OBVIOUS
  <2>1. CASE Fetch!Body
    <3>1. /\ request # Fetch!NoRequest /\ request.step \in Downloads
          /\ tag \in reported /\ tag # have
      BY <2>1 DEF Fetch!Body, Underway, Fetch!NoRequest, Downloads
    <3>2. release[tag].stamp = tag /\ UNCHANGED <<tag, reported, have>>
      BY <2>1 DEF Fetch!Body, Fetch!Return, Fetch!Stamped
    <3> QED
      BY <3>1, <3>2
  <2>2. CASE Fetch!Next /\ ~Fetch!Body
    BY <2>2 DEF Fetch!Next, Fetch!Call, Fetch!Version, Fetch!Return, Fetch!Listing,
         Fetch!Asset, Fetch!Redirect, Fetch!Fails, Fetch!Take, Fetch!Publish,
         Fetch!Tick, Fetch!callVars
  <2> QED
    BY <2>1, <2>2
<1> QED
  BY <1>1, CallInvariant, PTL DEF Fetch!Spec, Fetch!PinnedToItsTag

-----------------------------------------------------------------------------
(* The requests of a call are one job of FetchJob.tla: it is told a tag,   *)
(* reads one, and ends within four timeouts (fetch.rs 195-215).            *)
LEMMA CallIsAJob == Fetch!Spec => Fetch!ObtainIsAJob
<1> USE FetchAssumption DEF Fetch!ObtainAssumption, Fetch!Job!Started
<1>1. Fetch!Init => Fetch!Job!Init
  BY DEF Fetch!Init, Fetch!Job!Init, Fetch!NoRequest
<1>2. CallTyped /\ Underway /\ [Fetch!Next]_Fetch!vars => [Fetch!Job!Next]_Fetch!Job!vars
  <2> SUFFICES ASSUME CallTyped, Underway, [Fetch!Next]_Fetch!vars
               PROVE  [Fetch!Job!Next]_Fetch!Job!vars
    OBVIOUS
  <2>0. 0 \notin Tags
    OBVIOUS
  <2> DEFINE status == IF outcome # "None" THEN "finished"
                       ELSE IF request = Fetch!NoRequest THEN "idle"
                       ELSE IF tag = 0 THEN "running" ELSE "pinned"
             time == IF request = Fetch!NoRequest THEN 0 ELSE spent
  <2> USE <2>0 DEF CallTyped, Fetch!TypeOK, Underway, Fetch!Job!Next, Fetch!Job!vars
  <2>1. CASE Fetch!Call
    BY <2>1 DEF Fetch!Call, Fetch!Request, Fetch!NoRequest, Fetch!Job!Start
  <2>2. CASE Fetch!Version
    BY <2>2 DEF Fetch!Version, Fetch!Request, Fetch!Return, Fetch!NoRequest, Fetch!Job!Pin,
         Fetch!Job!Finish
  <2>3. CASE Fetch!Listing
    BY <2>3 DEF Fetch!Listing, Fetch!OnTheApi, Fetch!Request, Fetch!NoRequest, Fetch!callVars
  <2>4. CASE Fetch!Asset
    BY <2>4 DEF Fetch!Asset, Fetch!Request, Fetch!NoRequest, Fetch!callVars
  <2>5. CASE Fetch!Body
    BY <2>5 DEF Fetch!Body, Fetch!Return, Fetch!NoRequest, Fetch!Job!Finish
  <2>6. CASE Fetch!Redirect
    <3>1. request # Fetch!NoRequest
      BY <2>6 DEF Fetch!Redirect, Fetch!NoRequest
    <3>2. request'.step = request.step /\ request.step # "none"
      BY <2>6, <3>1 DEF Fetch!Redirect, RequestType
    <3>3. request' # Fetch!NoRequest
      BY ONLY <3>2 DEF Fetch!NoRequest
    <3>4. request' # Fetch!NoRequest /\ UNCHANGED <<have, tag, outcome, spent>>
      BY <2>6, <3>3 DEF Fetch!Redirect, Fetch!callVars
    <3>5. status' = status /\ time' = time
      BY <3>1, <3>4
    <3> QED
      BY <3>4, <3>5
  <2>7. CASE Fetch!Fails
    BY <2>7 DEF Fetch!Fails, Fetch!Return, Fetch!Job!Finish
  <2>8. CASE Fetch!Take
    BY <2>8 DEF Fetch!Take, Fetch!Job!Take
  <2>9. CASE Fetch!Publish
    BY <2>9 DEF Fetch!Publish
  <2>10. CASE Fetch!Tick
    <3>1. /\ request.left > 0 /\ request.left \in Nat
          /\ request'.step = request.step /\ request # Fetch!NoRequest
      BY <2>10 DEF Fetch!Tick, RequestType, Fetch!NoRequest
    <3>2. /\ request # Fetch!NoRequest /\ request' # Fetch!NoRequest
          /\ request.step \in Steps /\ request.left \in Nat /\ request.left > 0
      BY <3>1 DEF RequestType, Fetch!NoRequest
    <3>3. /\ Begun[request.step] * RequestTimeout <= 4 * RequestTimeout
          /\ Begun[request.step] * RequestTimeout \in Nat
      BY <3>2 DEF Begun, Steps, ByApi, Downloads
    <3>4. spent + request.left <= Begun[request.step] * RequestTimeout /\ spent \in Nat
      BY <3>2
    <3>5. spent < 4 * RequestTimeout
      BY <3>2, <3>3, <3>4
    <3>6. UNCHANGED <<have, tag, outcome>> /\ spent' = spent + 1 /\ outcome = "None"
      BY <2>10, <3>2 DEF Fetch!Tick
    <3>7. status' = status /\ status \in {"running", "pinned"}
      BY <3>2, <3>6
    <3>8. time = spent /\ time' = spent'
      BY <3>2
    <3>9. Fetch!Job!Tick
      BY <3>5, <3>6, <3>7, <3>8 DEF Fetch!Job!Tick
    <3> QED
      BY <3>9
  <2>11. CASE UNCHANGED Fetch!vars
    BY <2>11 DEF Fetch!vars, Fetch!callVars
  <2> QED
    BY <2>1, <2>2, <2>3, <2>4, <2>5, <2>6, <2>7, <2>8, <2>9, <2>10, <2>11 DEF Fetch!Next
<1> QED
  BY <1>1, <1>2, CallInvariant, PTL DEF Fetch!Spec, Fetch!ObtainIsAJob, Fetch!Job!Spec

-----------------------------------------------------------------------------
(* A behaviour of the four is one of each: of the one that runs, and of    *)
(* three that stay as they were.                                           *)
LEMMA Parts == MCSpec => Spec /\ Wake!Spec /\ Ask!Spec /\ Fetch!Spec
<1>1. MCInit => Init /\ Wake!Init /\ Ask!Init /\ Fetch!Init
  BY DEF MCInit
<1>2. [MCNext]_<<part, vars, wakeVars, askVars, fetchVars>>
        => /\ [Next]_vars
           /\ [Wake!Next]_Wake!vars
           /\ [Ask!Next]_Ask!vars
           /\ [Fetch!Next]_Fetch!vars
  BY DEF MCNext, vars, wakeVars, askVars, fetchVars, Wake!vars, Ask!vars, Fetch!vars,
         Fetch!hubVars, Fetch!callVars
<1> QED
  BY <1>1, <1>2, PTL DEF MCSpec, Spec, Wake!Spec, Ask!Spec, Fetch!Spec

(* The shape of their state is kept by every step (supervisor.rs 98-139,   *)
(* 499-531, 595-713, consent.rs 17-36, fetch.rs 41-215).                   *)
THEOREM TypesCorrect == MCSpec => [](TypeOK /\ Wake!TypeOK /\ Ask!TypeOK /\ Fetch!TypeOK)
BY Parts, PingTypes, WakeTypes, AskTypes, FetchTypes, PTL

(* No wake-up is lost: when the loop sleeps on an empty socket no signal   *)
(* whose handlers have run waits to be seen (supervisor.rs 98-139).        *)
THEOREM WakeupsKept == MCSpec => []NoLostWakeup
BY Parts, WakeupsSeen, PTL DEF NoLostWakeup

(* An ask ends, however slowly the app's bytes come, within one timeout    *)
(* for each byte that is read (consent.rs 25-36).                          *)
THEOREM AskEnds == MCSpec => []AskBounded
BY Parts, AskPaid, PTL DEF AskBounded

(* The token is sent to the API host and to no other, wherever the URL of  *)
(* an asset or a redirect leads (fetch.rs 98-110).                         *)
THEOREM TokenStays == MCSpec => []TokenToApiOnly
BY Parts, FetchTypes, TokenKept, PTL DEF TokenToApiOnly

(* A bundle returned is of the version the hub reported in the call, and   *)
(* says so itself (fetch.rs 195-215).                                      *)
THEOREM BundleOfItsTag == MCSpec => PinnedToItsTag
BY Parts, BundlePinned, PTL DEF PinnedToItsTag

(* The requests of a call are one job of FetchJob.tla: it is told a tag,   *)
(* reads one, and ends within four timeouts (fetch.rs 195-215).            *)
THEOREM ObtainImplementsJob == MCSpec => ObtainIsAJob
BY Parts, CallIsAJob, PTL DEF ObtainIsAJob
=============================================================================
