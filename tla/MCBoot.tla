------------------------------- MODULE MCBoot -------------------------------
(***************************************************************************)
(* A container's start: the entrypoint's steps, and the one of them that   *)
(* Boot.tla has as a single step, the preparation of the directories.  A   *)
(* behaviour is one of the one or of the other.                            *)
(***************************************************************************)
EXTENDS Boot, TLC

CONSTANTS Path, Required, Implicit, MountPoints, Target, Image  \* Prepare.tla's

VARIABLES part, mounts, volume, layer, phase, entries, created, pending, made

dirVars == <<mounts, volume, layer, phase, entries, created, pending, made>>

Dirs == INSTANCE Prepare

ASSUME DirsAssumption == Dirs!PrepareAssumption

MCInit ==
  /\ part \in {"boot", "dirs"}
  /\ Init /\ Dirs!Init
  /\ part # "boot" => ~tolerate /\ ~fetched /\ release = [n \in 1..MaxReleases |-> Absent]
  /\ part # "dirs" => mounts = {}

MCNext ==
  \/ part = "boot" /\ Next /\ UNCHANGED <<part, dirVars>>
  \/ part = "dirs" /\ Dirs!Next /\ UNCHANGED <<part, vars>>

MCSpec == MCInit /\ [][MCNext]_<<part, vars, dirVars>>

-----------------------------------------------------------------------------
One == [hub |-> "h1", endpoint |-> "e1", net |-> "n1"]
OtherHub == [One EXCEPT !.hub = "h2"]

OneEntry == {One}
Rotating == {One, OtherHub}

-----------------------------------------------------------------------------
(* Volumes may be mounted at data, an entry, and at cfg, which has an      *)
(* entry two levels below.  A link may be on the way to either deep entry, *)
(* the app's or the host's, and at the entry data/logs; each leads to a    *)
(* directory of the image.                                                 *)
Tree ==
  {<<"data">>, <<"data", "new">>, <<"data", "new", "deep">>, <<"data", "logs">>,
   <<"cfg">>, <<"cfg", "new">>, <<"cfg", "new", "deep">>,
   <<"lib">>, <<"lib", "so">>, <<"lib", "deep">>}
Links ==
  [p \in {<<"data", "new">>, <<"data", "logs">>, <<"cfg", "new">>} |-> <<"lib">>]
Clean ==
  [p \in Tree |->
     [kind |-> CASE p = <<"lib">> -> "dir" [] p = <<"lib", "so">> -> "file" [] OTHER -> "none",
      owner |-> "root"]]

DataAndCfg == {<<"data">>, <<"cfg">>}
DataAndDeep == <<<<"data">>, <<"data", "new", "deep">>, <<"cfg", "new", "deep">>>>
Logs == <<<<"data", "logs">>>>

-----------------------------------------------------------------------------
(* A finished pass leaves each entry, all beneath it, and what the pass    *)
(* made on the way to it nonroot's (Prepare.tla).                          *)
DirsOwned == Dirs!TypeOK /\ Dirs!EntriesOwned /\ Dirs!WayOwned

(* The pass gives away nothing else (Prepare.tla).                         *)
OnlyOwnTrees == Dirs!OnlyOwnTrees

(* What the app stored is there in the next container (Prepare.tla).       *)
StoredSurvives == Dirs!StoredSurvives
=============================================================================
