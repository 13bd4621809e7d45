------------------------------- MODULE Obtain -------------------------------
(***************************************************************************)
(* The requests of src/fetch.rs behind one fetch::obtain: the version from *)
(* the hub, then that release's peers.toml, with a token by way of the     *)
(* API's listing and its asset's redirect, without one from the public     *)
(* download.  One agent makes them, whose 10 s bound each request, the     *)
(* redirects it follows included.                                          *)
(*                                                                         *)
(* The hub reports another version, and a release is uploaded, stamped     *)
(* again or removed, between any two requests.  A body is what parse,      *)
(* require_version and select tell apart (Bundle.tla).                     *)
(*                                                                         *)
(* reported and spent are history.                                         *)
(***************************************************************************)
EXTENDS Integers

CONSTANTS
  Tags,       \* a set of positive numbers
  Timeout     \* of a request

ObtainAssumption == Tags \subseteq Nat \ {0} /\ Timeout \in Nat \ {0}

VARIABLES
  token,      \* WG_HUB_TOKEN is set
  version,    \* what the hub's version endpoint answers
  release,    \* the body of each tag's release; None while there is none
  applied,    \* the tag the caller has applied, 0 for none
  request,    \* the request under way, or NoRequest
  have, tag,  \* of the call: the tag it was told, and the one it read
  outcome,    \* "None" until the call returns
  reported,   \* history: the versions the hub reported during the call
  spent       \* history: how long the call took

hubVars == <<version, release>>
callVars == <<have, tag, outcome, reported, spent>>
vars == <<token, applied, hubVars, request, callVars>>

None == [valid |-> FALSE, stamp |-> 0, enrolled |-> FALSE]
Bodies == {None} \cup [valid : {TRUE}, stamp : Tags \cup {0}, enrolled : BOOLEAN]
Hosts == {"hub", "api", "web", "elsewhere"}
NoRequest == [step |-> "none", host |-> "none", bearer |-> FALSE, left |-> 0]
Outcome == {"Unchanged", "New", "NotEnrolled", "Unavailable"}

Init ==
  /\ token \in BOOLEAN
  /\ version \in Tags /\ release \in [Tags -> Bodies]
  /\ applied \in Tags \cup {0}
  /\ request = NoRequest
  /\ have = 0 /\ tag = 0 /\ outcome = "None" /\ reported = {} /\ spent = 0

-----------------------------------------------------------------------------
Request(step, host, bearer) ==
  request' = [step |-> step, host |-> host, bearer |-> bearer, left |-> Timeout]

Return(result) == request' = NoRequest /\ outcome' = result

(* obtain is called with the tag applied now.                              *)
Call ==
  /\ request = NoRequest /\ outcome = "None"
  /\ Request("version", "hub", FALSE)
  /\ have' = applied /\ reported' = {version}
  /\ UNCHANGED <<token, applied, hubVars, tag, outcome, spent>>

Version ==
  /\ request.step = "version"
  /\ tag' = version
  /\ IF version = have THEN Return("Unchanged")
     ELSE /\ IF token THEN Request("listing", "api", TRUE) ELSE Request("public", "web", FALSE)
          /\ UNCHANGED outcome
  /\ UNCHANGED <<token, applied, hubVars, have, reported, spent>>

(* The listing names the asset, at a URL that may be anywhere.             *)
(* MUTANT of OnTheApi: the asset's URL is taken as it comes.               *)
OnAnyHost(host) == host \in Hosts
OnTheApi(host) == host = "api"

Listing ==
  /\ request.step = "listing"
  /\ release[tag] # None
  /\ \E host \in Hosts : OnTheApi(host) /\ Request("asset", host, TRUE)
  /\ UNCHANGED <<token, applied, hubVars, callVars>>

(* The 302 of the asset, which is not followed but asked for anew.         *)
Asset ==
  /\ request.step = "asset"
  /\ \E host \in Hosts : Request("download", host, FALSE)
  /\ UNCHANGED <<token, applied, hubVars, callVars>>

(* MUTANT of Stamped: the bundle's hub_version is not compared.            *)
StampedSomehow(body) == body.stamp # 0
Stamped(body) == body.stamp = tag

Body ==
  /\ request.step \in {"download", "public"}
  /\ LET body == release[tag]
     IN  Return(IF ~body.valid \/ ~Stamped(body) THEN "Unavailable"
                ELSE IF body.enrolled THEN "New" ELSE "NotEnrolled")
  /\ UNCHANGED <<token, applied, hubVars, have, tag, reported, spent>>

(* A redirect the agent follows, without the token.                        *)
Redirect ==
  /\ request.step \notin {"none", "asset"}
  /\ \E host \in Hosts : request' = [request EXCEPT !.host = host, !.bearer = FALSE]
  /\ UNCHANGED <<token, applied, hubVars, callVars>>

(* Unreachable, a status, a body too long or not understood, no asset, one *)
(* off the API host, no redirect, the timeout: the call is over.           *)
(* MUTANT of Fails: the request is made again.                             *)
FailsRetrying ==
  /\ request # NoRequest
  /\ Request(request.step, request.host, request.bearer)
  /\ UNCHANGED <<token, applied, hubVars, callVars>>

Fails ==
  /\ request # NoRequest
  /\ Return("Unavailable")
  /\ UNCHANGED <<token, applied, hubVars, have, tag, reported, spent>>

(* The caller applies what it got, and may call again.                     *)
Take ==
  /\ outcome # "None"
  /\ applied' = IF outcome = "New" THEN tag ELSE applied
  /\ outcome' = "None" /\ have' = 0 /\ tag' = 0 /\ reported' = {} /\ spent' = 0
  /\ UNCHANGED <<token, hubVars, request>>

Publish ==
  /\ \/ /\ version' \in Tags \ {version} /\ UNCHANGED release
        /\ reported' = IF request.step = "version" THEN reported \cup {version'} ELSE reported
     \/ /\ UNCHANGED <<version, reported>>
        /\ \E t \in Tags, body \in Bodies : release' = [release EXCEPT ![t] = body]
  /\ UNCHANGED <<token, applied, request, have, tag, outcome, spent>>

Tick ==
  /\ request.left > 0
  /\ request' = [request EXCEPT !.left = @ - 1]
  /\ spent' = spent + 1
  /\ UNCHANGED <<token, applied, hubVars, have, tag, outcome, reported>>

Next ==
  \/ Call
  \/ Version
  \/ Listing
  \/ Asset
  \/ Body
  \/ Redirect
  \/ Fails
  \/ Take
  \/ Publish
  \/ Tick

Spec == Init /\ [][Next]_vars

-----------------------------------------------------------------------------
TypeOK ==
  /\ token \in BOOLEAN /\ version \in Tags /\ release \in [Tags -> Bodies]
  /\ applied \in Tags \cup {0} /\ have \in Tags \cup {0} /\ tag \in Tags \cup {0}
  /\ outcome \in Outcome \cup {"None"} /\ reported \subseteq Tags
  /\ request.left \in 0..Timeout /\ spent \in Nat
  /\ request.step = "none" <=> request = NoRequest

(* The token goes to the API host only: whatever URL a listing names,      *)
(* wherever a request is redirected (fetch.rs 98, "The token goes to the   *)
(* API host only").                                                        *)
TokenToApiOnly == request.bearer => token /\ request.host = "api"

(* A bundle is what the hub reported in this call: its tag was the         *)
(* version, is not the one applied, and is stamped in the body, whatever   *)
(* the hub published meanwhile.                                            *)
PinnedToItsTag ==
  [][outcome = "None" /\ outcome' \in {"New", "NotEnrolled"} =>
       /\ tag' \in reported' /\ tag' # have'
       /\ release[tag'].stamp = tag']_vars

Job == INSTANCE FetchJob WITH
  Tag <- Tags \cup {0}, Longest <- 4 * Timeout,
  status <- IF outcome # "None" THEN "finished"
            ELSE IF request = NoRequest THEN "idle"
            ELSE IF tag = 0 THEN "running" ELSE "pinned",
  spent <- IF request = NoRequest THEN 0 ELSE spent

(* The requests are to the callers one job of FetchJob.tla: of one tag,    *)
(* and over within four timeouts, whatever fails and however slowly        *)
(* (fetch.rs 195-215).                                                     *)
ObtainIsAJob == Job!Spec
=============================================================================
