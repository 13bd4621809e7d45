------------------------------ MODULE Prepare -------------------------------
(***************************************************************************)
(* The persisted directories: the mount check of src/mounts.rs, then the   *)
(* pass of src/prepare.rs over them, a file-system call at a time.  The    *)
(* container may be killed between any two calls, started again, or        *)
(* created anew, with other mounts.                                        *)
(*                                                                         *)
(* A path is shown by a mounted volume or by the container's own layer; a  *)
(* new container starts from the image's layer.  While the app runs it     *)
(* makes and removes what it may, links among it, and the host's operator  *)
(* may put files, directories and links in a volume.                       *)
(*                                                                         *)
(* made is history: the directories the present pass created.              *)
(***************************************************************************)
EXTENDS Integers, SequencesExt

CONSTANTS
  Path,          \* the paths below /app, a path the sequence of its components
  Required,      \* required_persisted_dirs, a sequence of paths
  Implicit,      \* the supervisor's own folders, after them
  MountPoints,   \* what a mount may be at
  Target,        \* where a symbolic link at a path leads
  Image          \* the image's layer

AppRoot == <<>>
Parent(p) == Front(p)
UpTo(p) == {q \in Path : IsPrefix(q, p)}
Below(p) == {q \in Path : IsPrefix(p, q)}
Children(p) == {q \in Path : Parent(q) = p}

Nothing == [kind |-> "none", owner |-> "root"]
RootDir == [kind |-> "dir", owner |-> "root"]
Kinds == {"none", "dir", "file", "link"}
Rooted ==
  {fs \in [Path -> [kind : Kinds, owner : {"root", "nonroot"}]] :
     \A p \in Path : fs[p].kind = "link" => p \in DOMAIN Target}

PathAssumption == \A p \in Path :
  /\ p \in Seq(STRING) \ {AppRoot}
  /\ \A n \in 1..Len(p) : SubSeq(p, 1, n) \in Path

(* Nothing below what is no directory; a directory, if anything, where a   *)
(* volume is mounted.                                                      *)
ImageAssumption ==
  /\ Image \in Rooted
  /\ \A p \in Path :
       IF Image[p].kind = "none" THEN Image[p] = Nothing
       ELSE \A q \in UpTo(p) \ {p} : Image[q].kind = "dir"
  /\ \A m \in MountPoints : \A p \in UpTo(m) : Image[p].kind \in {"none", "dir"}

(* Where a path leads past a link at q, and past no second link.           *)
Past(q, p) == Target[q] \o SubSeq(p, Len(q) + 1, Len(p))

TargetAssumption == \A q \in DOMAIN Target :
  /\ q \in Path /\ Target[q] \in Path
  /\ \A p \in Below(q) : Past(q, p) \in Path
  /\ \A r \in DOMAIN Target : r \notin Below(Target[q]) \cup UpTo(Target[q])

PrepareAssumption ==
  /\ PathAssumption /\ ImageAssumption /\ TargetAssumption
  /\ Required \in Seq(Path) /\ Implicit \in Seq(Path) /\ MountPoints \subseteq Path
  /\ \A p, q \in MountPoints : p \in UpTo(q) => p = q  \* no volume inside another

VARIABLES
  mounts, volume, layer,
  phase,          \* "start", "make", "walk", "done", "running", "refused", "failed"
  entries,        \* those still to prepare
  created,        \* where the pass creates ancestors of this one, not yet chowned
  pending,        \* what the walk has still to visit
  made            \* history

passVars == <<entries, created, pending>>
vars == <<mounts, volume, layer, phase, passVars, made>>

Mounted(p) == UpTo(p) \cap mounts # {}
Fs == [p \in Path |-> IF Mounted(p) THEN volume[p] ELSE layer[p]]

(* Where a path leads: a link on the way to it is followed; one at its own *)
(* place is too by `exists` and `is_dir`, and by `lchown` is not.          *)
LinksOn(p) == {q \in UpTo(p) \ {p} : Fs[q].kind = "link"}
Place(p) == IF LinksOn(p) = {} THEN p ELSE Past(CHOOSE q \in LinksOn(p) : TRUE, p)
Leads(p) == IF Fs[Place(p)].kind = "link" THEN Target[Place(p)] ELSE Place(p)

Store(fs) ==
  /\ volume' = [p \in Path |-> IF Mounted(p) THEN fs[p] ELSE volume[p]]
  /\ layer' = [p \in Path |-> IF Mounted(p) THEN layer[p] ELSE fs[p]]

(* A mount point is a directory in the layer, made by whoever mounts.      *)
LayerOver(at) ==
  [p \in Path |-> IF Below(p) \cap at # {} /\ Image[p].kind = "none" THEN RootDir ELSE Image[p]]

Init ==
  /\ mounts \in SUBSET MountPoints
  /\ volume = [p \in Path |-> IF p \in MountPoints THEN RootDir ELSE Nothing]
  /\ layer = LayerOver(mounts)
  /\ phase = "start" /\ entries = <<>> /\ created = {} /\ pending = {} /\ made = {}

-----------------------------------------------------------------------------
(* MUTANT of IsBacked: the walk up goes on to the root, always a mount.    *)
IsBackedAnywhere(p) == p \in Path
IsBacked(p) == UpTo(p) \cap mounts # {}

Refused ==
  /\ phase = "start"
  /\ \E i \in DOMAIN Required : ~IsBacked(Required[i])
  /\ phase' = "refused"
  /\ UNCHANGED <<mounts, volume, layer, passVars, made>>

(* MUTANT of Probe: no ancestor is remembered.                             *)
ProbeDirOnly(dir) == {}

(* The ancestors that are not there yet, at the places they lead to.       *)
Probe(dir) == {Leads(p) : p \in {q \in UpTo(dir) \ {dir} : Fs[Leads(q)].kind = "none"}}

GoOn(rest) ==
  IF rest = <<>> THEN phase' = "done" /\ created' = {}
  ELSE phase' = "make" /\ created' = Probe(Head(rest))

Checked ==
  /\ phase = "start"
  /\ \A i \in DOMAIN Required : IsBacked(Required[i])
  /\ entries' = Required \o Implicit
  /\ GoOn(entries') /\ pending' = {}
  /\ UNCHANGED <<mounts, volume, layer, made>>

Dir == Head(entries)

(* create_dir_all, from the top.  At a link that leads nowhere it fails.   *)
Mkdir ==
  /\ phase = "make"
  /\ \E p \in {Place(q) : q \in UpTo(Dir)} :
       /\ Fs[p].kind = "none" /\ (Parent(p) # AppRoot => Fs[Parent(p)].kind = "dir")
       /\ Store([Fs EXCEPT ![p] = RootDir])
       /\ made' = made \cup {p}
  /\ UNCHANGED <<mounts, phase, passVars>>

Made ==
  /\ phase = "make" /\ \A p \in UpTo(Dir) : Fs[Leads(p)].kind = "dir"
  /\ phase' = "walk" /\ pending' = {Place(Dir)}
  /\ UNCHANGED <<mounts, volume, layer, entries, created, made>>

Chown(p) == Store([Fs EXCEPT ![p].owner = "nonroot"])

(* The created ancestors from the top, then the tree                       *)
ChownCreated ==
  /\ phase = "walk"
  /\ \E p \in created :
       /\ created \cap UpTo(p) = {p}
       /\ Chown(p)
       /\ created' = created \ {p}
  /\ UNCHANGED <<mounts, phase, entries, pending, made>>

(* MUTANT of Listing: is_dir, which follows links.                         *)
ListingFollows(p) ==
  LET dir == IF Fs[p].kind = "link" THEN Target[p] ELSE p
  IN  IF Fs[dir].kind = "dir" THEN {q \in Children(dir) : Fs[q].kind # "none"} ELSE {}

(* A link is a leaf.                                                       *)
Listing(p) == IF Fs[p].kind = "dir" THEN {q \in Children(p) : Fs[q].kind # "none"} ELSE {}

Walk ==
  /\ phase = "walk" /\ created = {}
  /\ \E p \in pending :
       /\ Chown(p)
       /\ pending' = (pending \ {p}) \cup Listing(p)
  /\ UNCHANGED <<mounts, phase, entries, created, made>>

Walked ==
  /\ phase = "walk" /\ created = {} /\ pending = {}
  /\ entries' = Tail(entries) /\ GoOn(entries')
  /\ UNCHANGED <<mounts, volume, layer, pending, made>>

(* A call fails: a file in the way, a file system that is read-only.       *)
Fails ==
  /\ phase \in {"make", "walk"} /\ phase' = "failed"
  /\ UNCHANGED <<mounts, volume, layer, passVars, made>>

-----------------------------------------------------------------------------
AppStarts ==
  /\ phase = "done" /\ phase' = "running"
  /\ UNCHANGED <<mounts, volume, layer, passVars, made>>

(* The app makes and removes where it owns the directory: a directory may  *)
(* give way to a link.                                                     *)
AppOwns(dir) == dir # AppRoot /\ Fs[dir] = [kind |-> "dir", owner |-> "nonroot"]

AppWrites ==
  /\ phase = "running"
  /\ \E p \in Path, kind \in {"file", "dir", "link"} :
       /\ AppOwns(Parent(p)) /\ Fs[p].kind = "none" /\ (kind = "link" => p \in DOMAIN Target)
       /\ Store([Fs EXCEPT ![p] = [kind |-> kind, owner |-> "nonroot"]])
  /\ UNCHANGED <<mounts, phase, passVars, made>>

AppRemoves ==
  /\ phase = "running"
  /\ \E p \in Path \ mounts :
       /\ AppOwns(Parent(p)) /\ Fs[p].kind # "none"
       /\ \A q \in Below(p) \ {p} : Fs[q].kind = "none"
       /\ Store([Fs EXCEPT ![p] = Nothing])
  /\ UNCHANGED <<mounts, phase, passVars, made>>

(* The host's operator, before a run                                       *)
HostWrites ==
  /\ phase = "start"
  /\ \E p \in Path, kind \in {"file", "dir", "link"} :
       /\ Mounted(p) /\ p \notin MountPoints
       /\ Fs[Parent(p)].kind = "dir" /\ Fs[p].kind = "none"
       /\ kind = "link" => p \in DOMAIN Target
       /\ Store([Fs EXCEPT ![p] = [kind |-> kind, owner |-> "root"]])
  /\ UNCHANGED <<mounts, phase, passVars, made>>

(* Killed, or at its end; the same container, or a new one.                *)
Restart ==
  /\ phase # "start" /\ phase' = "start"
  /\ entries' = <<>> /\ created' = {} /\ pending' = {} /\ made' = {}
  /\ UNCHANGED volume
  /\ \/ UNCHANGED <<mounts, layer>>
     \/ mounts' \in SUBSET MountPoints /\ layer' = LayerOver(mounts')

Next ==
  \/ Refused
  \/ Checked
  \/ Mkdir
  \/ Made
  \/ ChownCreated
  \/ Walk
  \/ Walked
  \/ Fails
  \/ AppStarts
  \/ AppWrites
  \/ AppRemoves
  \/ HostWrites
  \/ Restart

Spec == Init /\ [][Next]_vars

-----------------------------------------------------------------------------
TypeOK ==
  /\ mounts \subseteq MountPoints /\ volume \in Rooted /\ layer \in Rooted
  /\ phase \in {"start", "make", "walk", "done", "running", "refused", "failed"}
  /\ entries \in Seq(Path) /\ created \subseteq Path /\ pending \subseteq Path
  /\ \A p \in pending : Fs[p].kind # "none"

Listed == {(Required \o Implicit)[i] : i \in DOMAIN (Required \o Implicit)}

(* The tree at each entry, at the place that a link on the way leads to.   *)
Trees == UNION {Below(Place(e)) : e \in Listed}

(* Whatever an earlier run left half done, whoever wrote in between and    *)
(* wherever they put links: when the pass is over each entry leads to a    *)
(* directory, and what there is at its place and beneath is nonroot's      *)
(* (README.md 126, prepare.rs 16-53).                                      *)
EntriesOwned ==
  phase = "done" =>
    /\ \A e \in Listed : Fs[Leads(e)].kind = "dir"
    /\ \A p \in Trees : Fs[p].kind # "none" => Fs[p].owner = "nonroot"

(* The container gives away nothing else.  A link on the way to an entry   *)
(* is followed, to the entry's place; one met at that place or below it is *)
(* given away itself, and not what it leads to; and on the way to an entry *)
(* only what the pass made is (prepare.rs 20-30, 36-39).                   *)
OnlyOwnTrees ==
  [][\A p \in Path :
       LET GivenAway == Fs[p].kind # "none" /\ Fs[p].owner = "root" /\ Fs'[p].owner = "nonroot"
       IN  phase' # "start" /\ GivenAway => p \in Trees \cup made]_vars

(* A pass that runs to its end gives nonroot each directory it created on  *)
(* the way to an entry (prepare.rs 11-12).  What a killed pass created on  *)
(* the way stays root's: the next one finds it there.                      *)
WayOwned == phase = "done" => \A p \in made : Fs[p].owner = "nonroot"

(* What the app stored in a required directory is there when a new         *)
(* container has the mounts of the old (mounts.rs 38-40).  It speaks of    *)
(* what is there by its own name, past no link.                            *)
StoredSurvives ==
  [][phase = "running" /\ phase' = "start" /\ mounts' = mounts =>
       \A i \in DOMAIN Required : \A p \in Below(Required[i]) :
         Fs[p].kind # "none" => Fs'[p] = Fs[p]]_vars
=============================================================================
