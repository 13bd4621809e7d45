------------------------------- MODULE WgView -------------------------------
(***************************************************************************)
(* The interface as its callers take it: an apply, a re-apply or a repair  *)
(* is one step, which leaves wg0 with a hub and an endpoint and tells in   *)
(* endpoint_ok whether that is the one asked for.  This is how Tunnel.tla  *)
(* and Boot.tla use wg0; Wg0.tla, which runs the commands one by one,      *)
(* implements it.                                                          *)
(***************************************************************************)
CONSTANT Configs

VARIABLES wg, applied, endpoint_ok

vars == <<wg, applied, endpoint_ok>>

None == "None"
Absent == [hub |-> None, endpoint |-> None]
Unapplied == applied \notin Configs

Init == wg = Absent /\ Unapplied /\ endpoint_ok = TRUE

(* A new hub is a new peer, without an endpoint.                           *)
Anew(new) == Unapplied \/ applied.hub # new.hub
Needed(new) == Anew(new) \/ applied.endpoint # new.endpoint \/ ~endpoint_ok

Leave(peer, new, resolved) ==
  /\ wg' = IF resolved THEN [peer EXCEPT !.endpoint = new.endpoint] ELSE peer
  /\ endpoint_ok' = resolved

Apply ==
  /\ applied' \in Configs \ {applied}
  /\ \E resolved \in BOOLEAN :
       /\ Needed(applied') \/ resolved
       /\ Leave(IF Anew(applied') THEN [hub |-> applied'.hub, endpoint |-> None] ELSE wg,
                applied', resolved)

SetEndpoint ==
  /\ applied \in Configs
  /\ \E resolved \in BOOLEAN : Leave(wg, applied, resolved)
  /\ UNCHANGED applied

DownUp ==
  /\ applied \in Configs
  /\ \E resolved \in BOOLEAN :
       Leave([hub |-> applied.hub, endpoint |-> None], applied, resolved)
  /\ UNCHANGED applied

Break == wg' = Absent /\ UNCHANGED <<applied, endpoint_ok>>

Next == Apply \/ SetEndpoint \/ DownUp \/ Break

Spec == Init /\ [][Next]_vars
=============================================================================
