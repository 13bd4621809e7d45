---------------------------- MODULE MCHeartbeats ----------------------------
EXTENDS Heartbeats

(* A file passed as fresh was written not long ago, the tunnel's after     *)
(* contact with the hub not long before that, in this run or an earlier    *)
(* one (Heartbeats.tla).                                                   *)
FreshMeansAlive == TypeOK /\ FreshMeansBeaten /\ FreshMeansContact

(* A writer that falls silent is reported in the end (Heartbeats.tla).     *)
SilenceReported == HungAppReported /\ SilentTunnelReported
=============================================================================
