------------------------------ MODULE FetchJob ------------------------------
(***************************************************************************)
(* What fetch::obtain promises its callers: it is told a tag, it reads one *)
(* tag from the hub, and its outcome is about that tag; unchanged exactly  *)
(* when the two are one, and unavailable whatever went wrong on the way.   *)
(* It takes no longer than Longest.                                        *)
(***************************************************************************)
EXTENDS Integers

CONSTANTS
  Tag,      \* with 0 for no tag at all
  Longest

VARIABLES
  status,      \* "idle", "running", "pinned" once the hub's tag is read, "finished"
  have, tag,   \* the tag applied, and the tag read
  outcome,
  spent        \* the time a job under way has taken

vars == <<status, have, tag, outcome, spent>>

Started == status \in {"running", "pinned"}

Init == status = "idle" /\ have = 0 /\ tag = 0 /\ outcome = "None" /\ spent = 0

Start ==
  /\ status = "idle" /\ status' = "running"
  /\ have' \in Tag /\ tag' = 0 /\ outcome' = "None" /\ UNCHANGED spent

Pin ==
  /\ status = "running" /\ status' = "pinned"
  /\ tag' \in Tag \ {0} /\ UNCHANGED <<have, outcome, spent>>

Tick ==
  /\ Started /\ spent < Longest /\ spent' = spent + 1
  /\ UNCHANGED <<status, have, tag, outcome>>

Finish ==
  /\ Started /\ status' = "finished"
  /\ UNCHANGED have /\ spent' = 0
  /\ \/ outcome' = "Unavailable" /\ UNCHANGED tag
     \/ /\ tag' \in Tag \ {0} /\ (status = "pinned" => tag' = tag)
        /\ outcome' \in IF tag' = have THEN {"Unchanged"} ELSE {"New", "NotEnrolled"}

(* The caller takes the outcome.                                           *)
Take ==
  /\ status = "finished" /\ status' = "idle"
  /\ have' = 0 /\ tag' = 0 /\ outcome' = "None" /\ UNCHANGED spent

Next == Start \/ Pin \/ Tick \/ Finish \/ Take

Spec == Init /\ [][Next]_vars
=============================================================================
