---------------------------- MODULE PrepareProofs ---------------------------
(***************************************************************************)
(* Proofs about Prepare.tla, for every tree of paths, every image, every   *)
(* set of volumes, none inside another, and every list of entries; passes  *)
(* killed at any call, containers created anew, and files and links made   *)
(* and removed in between.                                                 *)
(* DirsInv is the inductive invariant: what exists is in directories, on   *)
(* the volumes and in the layer apart; and what is in a settled tree, or   *)
(* was made on the way to one, is nonroot's or still owed to it.           *)
(***************************************************************************)
EXTENDS MCBoot, TLAPS, SequenceTheorems

-----------------------------------------------------------------------------
(* Paths: the ways up from them are chains of prefixes.                    *)
LEMMA Prefix ==
  ASSUME NEW S, NEW s \in Seq(S), NEW t \in Seq(S)
  PROVE  Dirs!IsPrefix(s, t) <=> Len(s) <= Len(t) /\ \A i \in 1..Len(s) : s[i] = t[i]
<1> DEFINE a == SubSeq(s, 1, Len(s))
           b == SubSeq(t, 1, Len(s))
<1>1. Len(s) \in Nat /\ Len(t) \in Nat /\ a = s
  BY SubSeqFull
<1>2. ASSUME Len(s) <= Len(t)
      PROVE  a = b <=> \A i \in 1..Len(s) : s[i] = t[i]
  <2>1. \A i \in 1..Len(s) : t[i] \in S
    BY <1>1, <1>2
  <2>2. /\ b \in Seq(S) /\ Len(b) = IF 1 <= Len(s) THEN Len(s) - 1 + 1 ELSE 0
        /\ \A i \in 1..Len(s) - 1 + 1 : b[i] = t[1 + i - 1]
    BY <1>1, <2>1, SubSeqProperties
  <2>3. Len(b) = Len(s) /\ \A i \in 1..Len(s) : b[i] = t[i]
    BY <1>1, <2>2
  <2> QED
    BY <1>1, <2>2, <2>3, SeqEqual
<1> QED
  BY <1>2 DEF Dirs!IsPrefix

LEMMA Paths == \A p \in Path : p \in Seq(STRING) /\ Len(p) \in Nat \ {0}
BY DirsAssumption, EmptySeq DEF Dirs!PrepareAssumption, Dirs!PathAssumption, Dirs!AppRoot

LEMMA OnTheWay ==
  ASSUME NEW p \in Path, NEW q \in Path
  PROVE  q \in Dirs!UpTo(p) <=> Len(q) <= Len(p) /\ \A i \in 1..Len(q) : q[i] = p[i]
BY Paths, Prefix DEF Dirs!UpTo

LEMMA Order ==
  ASSUME NEW p \in Path, NEW q \in Path, NEW r \in Path
  PROVE  /\ p \in Dirs!UpTo(p) /\ Dirs!UpTo(p) \subseteq Path
         /\ q \in Dirs!UpTo(p) /\ r \in Dirs!UpTo(q) => r \in Dirs!UpTo(p)
         /\ q \in Dirs!UpTo(p) /\ p \in Dirs!UpTo(q) => p = q
         /\ q \in Dirs!UpTo(p) /\ r \in Dirs!UpTo(p) => q \in Dirs!UpTo(r) \/ r \in Dirs!UpTo(q)
         /\ q \in Dirs!Below(p) <=> p \in Dirs!UpTo(q)
<1>1. Len(p) \in Nat /\ Len(q) \in Nat /\ Len(r) \in Nat /\ p \in Seq(STRING) /\ q \in Seq(STRING)
  BY Paths
<1>2. p \in Dirs!UpTo(p) /\ Dirs!UpTo(p) \subseteq Path
  BY <1>1, OnTheWay DEF Dirs!UpTo
<1>3. q \in Dirs!UpTo(p) /\ r \in Dirs!UpTo(q) => r \in Dirs!UpTo(p)
  BY <1>1, OnTheWay
<1>4. q \in Dirs!UpTo(p) /\ p \in Dirs!UpTo(q) => p = q
  BY <1>1, OnTheWay, SeqEqual
<1>5. q \in Dirs!UpTo(p) /\ r \in Dirs!UpTo(p) => q \in Dirs!UpTo(r) \/ r \in Dirs!UpTo(q)
  BY <1>1, OnTheWay
<1>6. q \in Dirs!Below(p) <=> p \in Dirs!UpTo(q)
  BY DEF Dirs!Below, Dirs!UpTo
<1> QED
  BY <1>2, <1>3, <1>4, <1>5, <1>6

LEMMA Cut ==
  ASSUME NEW p \in Path, NEW n \in 1..Len(p)
  PROVE  /\ SubSeq(p, 1, n) \in Path /\ Len(SubSeq(p, 1, n)) = n
         /\ \A i \in 1..n : SubSeq(p, 1, n)[i] = p[i]
<1>1. p \in Seq(STRING) /\ Len(p) \in Nat /\ n \in Nat /\ 1 <= n
  BY Paths
<1>2. \A i \in 1..n : p[i] \in STRING
  BY <1>1
<1>3. /\ Len(SubSeq(p, 1, n)) = IF 1 <= n THEN n - 1 + 1 ELSE 0
      /\ \A i \in 1..n - 1 + 1 : SubSeq(p, 1, n)[i] = p[1 + i - 1]
  BY <1>1, <1>2, SubSeqProperties
<1>4. SubSeq(p, 1, n) \in Path
  BY DirsAssumption DEF Dirs!PrepareAssumption, Dirs!PathAssumption
<1> QED
  BY <1>1, <1>3, <1>4

LEMMA Parents ==
  ASSUME NEW p \in Path
  PROVE  \/ Dirs!Parent(p) = Dirs!AppRoot /\ Dirs!UpTo(p) = {p}
         \/ /\ Dirs!Parent(p) \in Path /\ Dirs!Parent(p) # Dirs!AppRoot
            /\ Dirs!UpTo(p) = {p} \cup Dirs!UpTo(Dirs!Parent(p)) /\ p \notin Dirs!UpTo(Dirs!Parent(p))
<1>1. p \in Seq(STRING) /\ Len(p) \in Nat /\ Len(p) >= 1
  BY Paths
<1>2. CASE Len(p) = 1
  <2>1. Dirs!Parent(p) = <<>>
    BY <1>2, SubSeqEmpty DEF Dirs!Parent, Dirs!Front
  <2>2. ASSUME NEW q \in Dirs!UpTo(p)
        PROVE  q = p
    <3>1. q \in Path
      BY Order
    <3>2. Len(q) = 1 /\ q[1] = p[1] /\ q \in Seq(STRING)
      BY <1>2, <2>2, <3>1, OnTheWay, Paths
    <3> QED
      BY <1>1, <1>2, <3>2, SeqEqual
  <2> QED
    BY <2>1, <2>2, Order DEF Dirs!AppRoot
<1>3. CASE Len(p) > 1
  <2> DEFINE f == SubSeq(p, 1, Len(p) - 1)
  <2>1. Dirs!Parent(p) = f
    BY DEF Dirs!Parent, Dirs!Front
  <2>2. /\ f \in Path /\ Len(f) = Len(p) - 1
        /\ \A i \in 1..Len(p) - 1 : f[i] = p[i]
    BY <1>1, <1>3, Cut
  <2> HIDE DEF f
  <2>3. f # Dirs!AppRoot
    BY <2>2, Paths DEF Dirs!AppRoot
  <2>4. p \notin Dirs!UpTo(f) /\ f \in Dirs!UpTo(p)
    BY <1>1, <2>2, OnTheWay
  <2>5. ASSUME NEW q \in Dirs!UpTo(p), q # p
        PROVE  q \in Dirs!UpTo(f)
    <3>1. q \in Path /\ Len(q) \in Nat /\ q \in Seq(STRING)
      BY Order, Paths
    <3>2. Len(q) <= Len(p) /\ \A i \in 1..Len(q) : q[i] = p[i]
      BY <2>5, <3>1, OnTheWay
    <3>3. Len(q) # Len(p)
      BY <1>1, <2>5, <3>1, <3>2, SeqEqual
    <3> QED
      BY <1>1, <2>2, <3>1, <3>2, <3>3, OnTheWay
  <2>6. Dirs!UpTo(p) = {p} \cup Dirs!UpTo(f)
    BY <2>2, <2>4, <2>5, Order
  <2> QED
    BY <2>1, <2>2, <2>3, <2>4, <2>6
<1> QED
  BY <1>1, <1>2, <1>3

(* Every proper ancestor is the parent of the next one down.               *)
LEMMA NextDown ==
  ASSUME NEW p \in Path, NEW q \in Dirs!UpTo(p), q # p
  PROVE  \E r \in Dirs!UpTo(p) : Dirs!Parent(r) = q
<1>1. /\ p \in Seq(STRING) /\ q \in Seq(STRING) /\ q \in Path /\ Len(p) \in Nat /\ Len(q) \in Nat
      /\ Len(q) <= Len(p) /\ \A i \in 1..Len(q) : q[i] = p[i]
  BY Order, Paths, OnTheWay
<1>2. Len(q) # Len(p)
  BY <1>1, SeqEqual
<1> DEFINE n == Len(q) + 1
           r == SubSeq(p, 1, n)
<1>3. n \in 1..Len(p)
  BY <1>1, <1>2
<1>4. r \in Path /\ Len(r) = n /\ \A i \in 1..n : r[i] = p[i]
  BY <1>3, Cut
<1> HIDE DEF r
<1>5. r \in Dirs!UpTo(p)
  BY <1>1, <1>3, <1>4, OnTheWay
<1>6. Dirs!Parent(r) = q
  <2> DEFINE f == SubSeq(r, 1, Len(q))
  <2>1. Dirs!Parent(r) = f
    BY <1>1, <1>4 DEF Dirs!Parent, Dirs!Front
  <2>2. f \in Path /\ Len(f) = Len(q) /\ \A i \in 1..Len(q) : f[i] = r[i]
    <3>1. Len(q) \in 1..Len(r)
      BY <1>1, <1>4, Paths
    <3> QED
      BY <1>4, <3>1, Cut
  <2> HIDE DEF f
  <2>3. f \in Seq(STRING)
    BY <2>2, Paths
  <2>4. \A i \in 1..Len(q) : f[i] = q[i]
    BY <1>1, <1>4, <2>2
  <2>5. f = q
    BY <1>1, <2>2, <2>3, <2>4, SeqEqual
  <2> QED
    BY <2>1, <2>5
<1> QED
  BY <1>5, <1>6

-----------------------------------------------------------------------------
(* The file system.  In a volume all above a path, up to the mount, are    *)
(* directories; in the layer all above it, and all above a mount.          *)
Volumes ==
  /\ \A m \in MountPoints : volume[m].kind = "dir"
  /\ \A p \in Path : volume[p].kind # "none" =>
       \E m \in MountPoints \cap Dirs!UpTo(p) :
         \A q \in Dirs!UpTo(p) \ {p} : m \in Dirs!UpTo(q) => volume[q].kind = "dir"

Layers ==
  /\ \A p \in Path : layer[p].kind # "none" => \A q \in Dirs!UpTo(p) \ {p} : layer[q].kind = "dir"
  /\ \A m \in mounts : \A q \in Dirs!UpTo(m) : layer[q].kind = "dir"

(* Where the links on the way to a path, and at it, lead.                  *)
At == [p \in Path |-> Dirs!Place(p)]
To == [p \in Path |-> Dirs!Leads(p)]

(* The pass.  An entry is settled once it is walked for the last time, or  *)
(* being walked; what exists in a settled tree, or was made on the way, is *)
(* nonroot's or owed to it: the walk has an ancestor of it to visit, it is *)
(* one of the created, or it is the entry's own place, not walked yet.     *)
InPass == phase \in {"make", "walk", "done"}
Left == {entries[i] : i \in DOMAIN entries}
Settled == (Dirs!Listed \ Left) \cup (IF phase = "walk" THEN {Dirs!Dir} ELSE {})
Roots == {At[e] : e \in Settled}

Owed(p) ==
  \/ p \in created
  \/ phase = "make" /\ p = At[Dirs!Dir]
  \/ phase = "walk" /\ pending \cap Dirs!UpTo(p) # {}

Underway ==
  /\ phase = "start" => made = {}
  /\ phase \in {"make", "walk"} => entries # <<>> /\ Left \subseteq Dirs!Listed
  /\ phase \in {"start", "done", "running"} => pending = {}
  /\ phase = "done" => entries = <<>> /\ created = {}
  /\ InPass \/ phase = "running" => \A i \in DOMAIN Required : Dirs!IsBacked(Required[i])
  /\ InPass => \A p \in made : p \in Path /\ Dirs!Fs[p].kind # "none"

Ways ==
  /\ phase = "make" =>
       /\ \A p \in Dirs!UpTo(Dirs!Dir) \ {Dirs!Dir} :
            Dirs!Fs[At[p]].kind = "none" => At[p] \in created
       /\ \A c \in created : /\ \E p \in Dirs!UpTo(Dirs!Dir) : c = To[p]
                             /\ Dirs!Fs[c].kind = "none" \/ c \in made
  /\ phase = "walk" => created \subseteq made /\ pending \subseteq Dirs!Below(At[Dirs!Dir])

Owners ==
  InPass =>
    /\ \A e \in Settled : Dirs!Fs[To[e]].kind = "dir"
    /\ \A p \in Path :
         /\ Dirs!Fs[p].kind # "none"
         /\ p \in made \/ Roots \cap Dirs!UpTo(p) # {}
         => Dirs!Fs[p].owner = "nonroot" \/ Owed(p)

DirsInv == Dirs!TypeOK /\ Volumes /\ Layers /\ Underway /\ Ways /\ Owners

LEMMA Shown ==
  ASSUME Dirs!TypeOK
  PROVE  /\ Dirs!Fs \in Dirs!Rooted
         /\ \A p \in Path : Dirs!Fs[p] = IF Dirs!Mounted(p) THEN volume[p] ELSE layer[p]
BY DEF Dirs!Fs, Dirs!TypeOK, Dirs!Rooted

LEMMA Stores ==
  ASSUME Dirs!TypeOK, NEW fs \in Dirs!Rooted, Dirs!Store(fs), mounts' = mounts
  PROVE  /\ volume' \in Dirs!Rooted /\ layer' \in Dirs!Rooted /\ Dirs!Fs' = fs
         /\ \A p \in Path : /\ volume'[p] = IF Dirs!Mounted(p) THEN fs[p] ELSE volume[p]
                            /\ layer'[p] = IF Dirs!Mounted(p) THEN layer[p] ELSE fs[p]
<1>1. \A p : Dirs!Mounted(p)' <=> Dirs!Mounted(p)
  BY DEF Dirs!Mounted
<1>2. \A p \in Path : /\ volume'[p] = IF Dirs!Mounted(p) THEN fs[p] ELSE volume[p]
                      /\ layer'[p] = IF Dirs!Mounted(p) THEN layer[p] ELSE fs[p]
  BY DEF Dirs!Store
<1>3. volume' \in Dirs!Rooted /\ layer' \in Dirs!Rooted
  BY DEF Dirs!Store, Dirs!TypeOK, Dirs!Rooted
<1>4. \A p \in Path : Dirs!Fs'[p] = fs[p]
  BY <1>1, <1>2 DEF Dirs!Fs
<1>5. Dirs!Fs' = [p \in Path |-> Dirs!Fs'[p]]
  BY DEF Dirs!Fs
<1>6. Dirs!Fs' = fs
  BY <1>4, <1>5 DEF Dirs!Rooted
<1> QED
  BY <1>2, <1>3, <1>6

(* A path leads to a path; past a link at its own place if there is one.   *)
LEMMA Places ==
  ASSUME Dirs!TypeOK
  PROVE  /\ At \in [Path -> Path] /\ To \in [Path -> Path]
         /\ \A p \in Path :
              /\ At[p] = Dirs!Place(p) /\ To[p] = Dirs!Leads(p)
              /\ Dirs!Fs[At[p]].kind # "link" => To[p] = At[p]
              /\ Dirs!Fs[To[p]].kind = "dir" => Dirs!Fs[At[p]].kind # "none"
<1>0. /\ \A q \in DOMAIN Target : q \in Path /\ Target[q] \in Path
      /\ \A q \in DOMAIN Target : \A p \in Dirs!Below(q) : Dirs!Past(q, p) \in Path
      /\ \A q \in Path : Dirs!Fs[q].kind = "link" => q \in DOMAIN Target
  BY Shown, DirsAssumption DEF Dirs!PrepareAssumption, Dirs!TargetAssumption, Dirs!Rooted
<1>1. ASSUME NEW p \in Path
      PROVE  Dirs!Place(p) \in Path
  <2>1. CASE Dirs!LinksOn(p) = {}
    BY <2>1 DEF Dirs!Place
  <2>2. CASE Dirs!LinksOn(p) # {}
    <3> DEFINE q == CHOOSE r \in Dirs!LinksOn(p) : TRUE
    <3>1. q \in Dirs!LinksOn(p)
      BY <2>2
    <3>2. Dirs!Place(p) = Dirs!Past(q, p)
      BY <2>2 DEF Dirs!Place
    <3> HIDE DEF q
    <3>3. q \in Path /\ q \in Dirs!UpTo(p) /\ Dirs!Fs[q].kind = "link"
      BY <3>1, Order DEF Dirs!LinksOn
    <3>4. p \in Dirs!Below(q)
      BY <3>3, Order
    <3> QED
      BY <1>0, <3>2, <3>3, <3>4
  <2> QED
    BY <2>1, <2>2
<1>2. ASSUME NEW p \in Path
      PROVE  Dirs!Leads(p) \in Path
  BY <1>0, <1>1 DEF Dirs!Leads
<1>3. \A p \in Path : At[p] = Dirs!Place(p) /\ To[p] = Dirs!Leads(p)
  BY DEF At, To
<1>4. At \in [Path -> Path] /\ To \in [Path -> Path]
  BY <1>1, <1>2 DEF At, To
<1>5. \A p \in Path : To[p] = IF Dirs!Fs[At[p]].kind = "link" THEN Target[At[p]] ELSE At[p]
  BY <1>3 DEF Dirs!Leads
<1> QED
  BY <1>3, <1>4, <1>5

(* They lead elsewhere only when a link comes or goes.                     *)
LEMMA SamePlaces ==
  ASSUME Dirs!TypeOK,
         \A p \in Path : Dirs!Fs'[p].kind = "link" <=> Dirs!Fs[p].kind = "link"
  PROVE  At' = At /\ To' = To
<1>1. ASSUME NEW p \in Path
      PROVE  Dirs!Place(p)' = Dirs!Place(p)
  <2>1. Dirs!UpTo(p) \subseteq Path
    BY Order
  <2>2. Dirs!LinksOn(p)' = Dirs!LinksOn(p)
    BY <2>1 DEF Dirs!LinksOn
  <2> QED
    BY <2>2 DEF Dirs!Place
<1>2. ASSUME NEW p \in Path
      PROVE  Dirs!Leads(p)' = Dirs!Leads(p)
  <2>1. Dirs!Place(p) \in Path
    BY Places
  <2> QED
    BY <1>1, <2>1 DEF Dirs!Leads
<1> QED
  BY <1>1, <1>2 DEF At, To

(* Two mounts are never on one way up.                                     *)
LEMMA OneMount ==
  ASSUME NEW p \in Path, NEW m \in MountPoints, NEW n \in MountPoints,
         m \in Dirs!UpTo(p), n \in Dirs!UpTo(p)
  PROVE  m = n
BY DirsAssumption, Order DEF Dirs!PrepareAssumption

(* Whatever is above a path that exists is a directory.                    *)
LEMMA Above ==
  ASSUME Dirs!TypeOK, Volumes, Layers
  PROVE  \A p \in Path : Dirs!Fs[p].kind # "none" =>
           \A q \in Dirs!UpTo(p) \ {p} : q \in Path /\ Dirs!Fs[q].kind = "dir"
<1> SUFFICES ASSUME NEW p \in Path, Dirs!Fs[p].kind # "none", NEW q \in Dirs!UpTo(p) \ {p}
             PROVE  q \in Path /\ Dirs!Fs[q].kind = "dir"
  OBVIOUS
<1>0. q \in Path /\ mounts \subseteq MountPoints /\ MountPoints \subseteq Path
  BY Order, DirsAssumption DEF Dirs!TypeOK, Dirs!PrepareAssumption
<1>1. CASE Dirs!Mounted(p)
  <2>1. PICK m \in mounts : m \in Dirs!UpTo(p)
    BY <1>1 DEF Dirs!Mounted
  <2>2. PICK n \in MountPoints \cap Dirs!UpTo(p) :
          \A r \in Dirs!UpTo(p) \ {p} : n \in Dirs!UpTo(r) => volume[r].kind = "dir"
    BY <1>1, Shown DEF Volumes
  <2>3. n = m
    BY <1>0, <2>1, OneMount
  <2>4. CASE m \in Dirs!UpTo(q)
    <3>1. Dirs!Mounted(q)
      BY <2>1, <2>4 DEF Dirs!Mounted
    <3> QED
      BY <1>0, <2>2, <2>3, <2>4, <3>1, Shown
  <2>5. CASE m \notin Dirs!UpTo(q)
    <3>1. q \in Dirs!UpTo(m)
      BY <1>0, <2>1, <2>5, Order
    <3>2. ~Dirs!Mounted(q)
      <4> SUFFICES ASSUME NEW k \in mounts, k \in Dirs!UpTo(q) PROVE FALSE
        BY DEF Dirs!Mounted
      <4>1. k \in Dirs!UpTo(p)
        BY <1>0, Order
      <4> QED
        BY <1>0, <2>1, <2>5, <4>1, OneMount
    <3>3. layer[q].kind = "dir"
      BY <2>1, <3>1 DEF Layers
    <3> QED
      BY <1>0, <3>2, <3>3, Shown
  <2> QED
    BY <2>4, <2>5
<1>2. CASE ~Dirs!Mounted(p)
  <2>1. ~Dirs!Mounted(q)
    <3> SUFFICES ASSUME NEW k \in mounts, k \in Dirs!UpTo(q) PROVE FALSE
      BY DEF Dirs!Mounted
    <3> QED
      BY <1>0, <1>2, Order DEF Dirs!Mounted
  <2> QED
    BY <1>0, <1>2, <2>1, Shown DEF Layers
<1> QED
  BY <1>1, <1>2

(* A chown changes an owner, and that to nonroot.                          *)
LEMMA Chowned ==
  ASSUME Dirs!TypeOK, Volumes, Layers, NEW p \in Path, Dirs!Chown(p), mounts' = mounts
  PROVE  /\ Volumes' /\ Layers' /\ volume' \in Dirs!Rooted /\ layer' \in Dirs!Rooted
         /\ At' = At /\ To' = To
         /\ \A q \in Path : /\ Dirs!Fs'[q].kind = Dirs!Fs[q].kind
                            /\ Dirs!Fs'[q].owner = IF q = p THEN "nonroot" ELSE Dirs!Fs[q].owner
<1> DEFINE fs == [Dirs!Fs EXCEPT ![p].owner = "nonroot"]
<1>1. /\ fs \in Dirs!Rooted
      /\ \A q \in Path : /\ fs[q].kind = Dirs!Fs[q].kind
                         /\ fs[q].owner = IF q = p THEN "nonroot" ELSE Dirs!Fs[q].owner
  BY Shown DEF Dirs!Rooted
<1>2. Dirs!Store(fs)
  BY DEF Dirs!Chown
<1> HIDE DEF fs
<1>3. /\ volume' \in Dirs!Rooted /\ layer' \in Dirs!Rooted /\ Dirs!Fs' = fs
      /\ \A q \in Path : /\ volume'[q] = IF Dirs!Mounted(q) THEN fs[q] ELSE volume[q]
                         /\ layer'[q] = IF Dirs!Mounted(q) THEN layer[q] ELSE fs[q]
  BY <1>1, <1>2, Stores
<1>4. \A q \in Path : /\ volume'[q].kind = volume[q].kind /\ layer'[q].kind = layer[q].kind
                      /\ layer[q].owner = "nonroot" => layer'[q].owner = "nonroot"
  BY <1>1, <1>3, Shown
<1>5. \A q \in Path : Dirs!UpTo(q) \subseteq Path
  BY Order
<1>6. mounts \subseteq MountPoints /\ MountPoints \subseteq Path
  BY DirsAssumption DEF Dirs!TypeOK, Dirs!PrepareAssumption
<1>7. Volumes'
  <2>1. \A m \in MountPoints : volume'[m].kind = "dir"
    BY <1>4, <1>6 DEF Volumes
  <2>2. ASSUME NEW q \in Path, volume'[q].kind # "none"
        PROVE  \E n \in MountPoints \cap Dirs!UpTo(q) :
                 \A r \in Dirs!UpTo(q) \ {q} : n \in Dirs!UpTo(r) => volume'[r].kind = "dir"
    <3>1. PICK n \in MountPoints \cap Dirs!UpTo(q) :
            \A r \in Dirs!UpTo(q) \ {q} : n \in Dirs!UpTo(r) => volume[r].kind = "dir"
      BY <1>4, <2>2 DEF Volumes
    <3> QED
      BY <1>4, <1>5, <3>1
  <2> QED
    BY <2>1, <2>2 DEF Volumes
<1>8. Layers'
  <2>1. \A q \in Path : layer'[q].kind # "none" => \A r \in Dirs!UpTo(q) \ {q} : layer'[r].kind = "dir"
    BY <1>4, <1>5 DEF Layers
  <2>2. \A m \in mounts' : \A q \in Dirs!UpTo(m) : layer'[q].kind = "dir"
    BY <1>4, <1>5, <1>6 DEF Layers
  <2> QED
    BY <2>1, <2>2 DEF Layers
<1>9. At' = At /\ To' = To
  BY <1>1, <1>3, SamePlaces
<1> QED
  BY <1>1, <1>3, <1>7, <1>8, <1>9

(* What is made is made in a directory.                                    *)
LEMMA Created ==
  ASSUME Dirs!TypeOK, Volumes, Layers, NEW p \in Path,
         NEW new \in [kind : {"dir", "file", "link"}, owner : {"root", "nonroot"}],
         Dirs!Fs[p].kind = "none", new.kind = "link" => p \in DOMAIN Target,
         Dirs!Parent(p) # Dirs!AppRoot => Dirs!Fs[Dirs!Parent(p)].kind = "dir",
         Dirs!Store([Dirs!Fs EXCEPT ![p] = new]), mounts' = mounts
  PROVE  /\ Volumes' /\ Layers' /\ volume' \in Dirs!Rooted /\ layer' \in Dirs!Rooted
         /\ Dirs!Fs'[p] = new /\ \A q \in Path : q # p => Dirs!Fs'[q] = Dirs!Fs[q]
<1> DEFINE fs == [Dirs!Fs EXCEPT ![p] = new]
<1>0. Dirs!Fs \in [Path -> [kind : Dirs!Kinds, owner : {"root", "nonroot"}]]
      /\ \A q \in Path : Dirs!Fs[q].kind = "link" => q \in DOMAIN Target
  BY Shown DEF Dirs!Rooted
<1>1. fs \in Dirs!Rooted /\ fs[p] = new /\ \A q \in Path : q # p => fs[q] = Dirs!Fs[q]
  <2>1. new \in [kind : Dirs!Kinds, owner : {"root", "nonroot"}]
    BY DEF Dirs!Kinds
  <2>2. /\ fs \in [Path -> [kind : Dirs!Kinds, owner : {"root", "nonroot"}]]
        /\ fs[p] = new /\ \A q \in Path : q # p => fs[q] = Dirs!Fs[q]
    BY <1>0, <2>1
  <2> HIDE DEF fs
  <2>3. \A q \in Path : fs[q].kind = "link" => q \in DOMAIN Target
    BY <1>0, <2>2
  <2> QED
    BY <2>2, <2>3 DEF Dirs!Rooted
<1>2. Dirs!Store(fs)
  OBVIOUS
<1> HIDE DEF fs
<1>3. /\ volume' \in Dirs!Rooted /\ layer' \in Dirs!Rooted /\ Dirs!Fs' = fs
      /\ \A q \in Path : /\ volume'[q] = IF Dirs!Mounted(q) THEN fs[q] ELSE volume[q]
                         /\ layer'[q] = IF Dirs!Mounted(q) THEN layer[q] ELSE fs[q]
  BY <1>1, <1>2, Stores
<1>4. \A q \in Path : q # p => volume'[q] = volume[q] /\ layer'[q] = layer[q]
  BY <1>1, <1>3, Shown
<1>5. \A q \in Path : q \in Dirs!UpTo(q) /\ Dirs!UpTo(q) \subseteq Path
  BY Order
<1>6. mounts \subseteq MountPoints /\ MountPoints \subseteq Path
  BY DirsAssumption DEF Dirs!TypeOK, Dirs!PrepareAssumption
<1>7. \A q \in Dirs!UpTo(p) \ {p} : q \in Path /\ Dirs!Fs[q].kind = "dir"
  <2>1. CASE Dirs!Parent(p) = Dirs!AppRoot
    BY <2>1, Parents
  <2>2. CASE Dirs!Parent(p) # Dirs!AppRoot
    <3>1. /\ Dirs!Parent(p) \in Path
          /\ Dirs!UpTo(p) = {p} \cup Dirs!UpTo(Dirs!Parent(p))
      BY <2>2, Parents
    <3> QED
      BY <2>2, <3>1, Above
  <2> QED
    BY <2>1, <2>2
<1>8. new.kind # "none" /\ \A q \in Path : Dirs!Fs[q].kind = "dir" => q # p
  OBVIOUS
<1>9. CASE Dirs!Mounted(p)
  <2>1. PICK m \in mounts : m \in Dirs!UpTo(p)
    BY <1>9 DEF Dirs!Mounted
  <2>2. layer' = layer
    BY <1>1, <1>3, <1>4, <1>9 DEF Dirs!TypeOK, Dirs!Rooted
  <2>3. volume[p].kind = "none"
    BY <1>9, Shown
  <2>4. \A q \in Dirs!UpTo(p) \ {p} : m \in Dirs!UpTo(q) => volume[q].kind = "dir"
    <3> SUFFICES ASSUME NEW q \in Dirs!UpTo(p) \ {p}, m \in Dirs!UpTo(q) PROVE volume[q].kind = "dir"
      OBVIOUS
    <3>1. Dirs!Mounted(q)
      BY <2>1 DEF Dirs!Mounted
    <3> QED
      BY <1>7, <3>1, Shown
  <2>5. \A n \in MountPoints : n # p /\ volume'[n].kind = "dir"
    BY <1>4, <1>6, <2>3 DEF Volumes
  <2>6. ASSUME NEW q \in Path, volume'[q].kind # "none"
        PROVE  \E n \in MountPoints \cap Dirs!UpTo(q) :
                 \A r \in Dirs!UpTo(q) \ {q} : n \in Dirs!UpTo(r) => volume'[r].kind = "dir"
    <3>1. CASE q = p
      BY <1>4, <1>5, <1>6, <2>1, <2>4, <3>1
    <3>2. CASE q # p
      <4>1. PICK n \in MountPoints \cap Dirs!UpTo(q) :
              \A r \in Dirs!UpTo(q) \ {q} : n \in Dirs!UpTo(r) => volume[r].kind = "dir"
        BY <1>4, <2>6, <3>2 DEF Volumes
      <4> QED
        BY <1>4, <1>5, <2>3, <4>1
    <3> QED
      BY <3>1, <3>2
  <2>7. Volumes'
    BY <2>5, <2>6 DEF Volumes
  <2>8. Layers'
    BY <2>2 DEF Layers
  <2> QED
    BY <1>1, <1>3, <2>7, <2>8
<1>10. CASE ~Dirs!Mounted(p)
  <2>1. volume' = volume
    BY <1>1, <1>3, <1>4, <1>10 DEF Dirs!TypeOK, Dirs!Rooted
  <2>2. layer[p].kind = "none" /\ layer'[p] = new
    BY <1>1, <1>3, <1>10, Shown
  <2>3. \A q \in Dirs!UpTo(p) \ {p} : layer[q].kind = "dir"
    <3> SUFFICES ASSUME NEW q \in Dirs!UpTo(p) \ {p} PROVE layer[q].kind = "dir"
      OBVIOUS
    <3>1. ~Dirs!Mounted(q)
      <4> SUFFICES ASSUME NEW k \in mounts, k \in Dirs!UpTo(q) PROVE FALSE
        BY DEF Dirs!Mounted
      <4> QED
        BY <1>6, <1>7, <1>10, Order DEF Dirs!Mounted
    <3> QED
      BY <1>7, <3>1, Shown
  <2>4. \A q \in Path : layer'[q].kind # "none" => \A r \in Dirs!UpTo(q) \ {q} : layer'[r].kind = "dir"
    <3> SUFFICES ASSUME NEW q \in Path, layer'[q].kind # "none", NEW r \in Dirs!UpTo(q) \ {q}
                 PROVE  layer'[r].kind = "dir"
      OBVIOUS
    <3>1. CASE q = p
      BY <1>4, <1>7, <2>3, <3>1
    <3>2. CASE q # p
      <4>1. r \in Path /\ layer[r].kind = "dir"
        BY <1>4, <1>5, <3>2 DEF Layers
      <4> QED
        BY <1>4, <2>2, <4>1
    <3> QED
      BY <3>1, <3>2
  <2>5. \A m \in mounts' : \A q \in Dirs!UpTo(m) : layer'[q].kind = "dir"
    BY <1>4, <1>5, <1>6, <2>2 DEF Layers
  <2>7. Layers'
    BY <2>4, <2>5 DEF Layers
  <2>8. Volumes'
    BY <2>1 DEF Volumes
  <2> QED
    BY <1>1, <1>3, <2>7, <2>8
<1> QED
  BY <1>9, <1>10

(* What is removed is no mount and has nothing below it.                   *)
LEMMA Removed ==
  ASSUME Dirs!TypeOK, Volumes, Layers, NEW p \in Path \ mounts,
         \A q \in Dirs!Below(p) \ {p} : Dirs!Fs[q].kind = "none",
         Dirs!Store([Dirs!Fs EXCEPT ![p] = Dirs!Nothing]), mounts' = mounts
  PROVE  /\ Volumes' /\ Layers' /\ volume' \in Dirs!Rooted /\ layer' \in Dirs!Rooted
         /\ Dirs!Fs'[p] = Dirs!Nothing /\ \A q \in Path : q # p => Dirs!Fs'[q] = Dirs!Fs[q]
<1> DEFINE fs == [Dirs!Fs EXCEPT ![p] = Dirs!Nothing]
<1>1. fs \in Dirs!Rooted /\ fs[p] = Dirs!Nothing /\ \A q \in Path : q # p => fs[q] = Dirs!Fs[q]
  BY Shown DEF Dirs!Rooted, Dirs!Kinds, Dirs!Nothing
<1>2. Dirs!Store(fs)
  OBVIOUS
<1> HIDE DEF fs
<1>3. /\ volume' \in Dirs!Rooted /\ layer' \in Dirs!Rooted /\ Dirs!Fs' = fs
      /\ \A q \in Path : /\ volume'[q] = IF Dirs!Mounted(q) THEN fs[q] ELSE volume[q]
                         /\ layer'[q] = IF Dirs!Mounted(q) THEN layer[q] ELSE fs[q]
  BY <1>1, <1>2, Stores
<1>4. \A q \in Path : q # p => volume'[q] = volume[q] /\ layer'[q] = layer[q]
  BY <1>1, <1>3, Shown
<1>5. \A q \in Path : q \in Dirs!UpTo(q) /\ Dirs!UpTo(q) \subseteq Path
  BY Order
<1>6. mounts \subseteq MountPoints /\ MountPoints \subseteq Path /\ Dirs!Nothing.kind = "none"
  BY DirsAssumption DEF Dirs!TypeOK, Dirs!PrepareAssumption, Dirs!Nothing
<1>7. \A q \in Path : p \in Dirs!UpTo(q) \ {q} => Dirs!Fs[q].kind = "none"
  BY Order
<1>8. CASE Dirs!Mounted(p)
  <2>1. layer' = layer
    BY <1>1, <1>3, <1>4, <1>8 DEF Dirs!TypeOK, Dirs!Rooted
  <2>2. p \notin MountPoints
    <3>1. PICK m \in mounts : m \in Dirs!UpTo(p)
      BY <1>8 DEF Dirs!Mounted
    <3> QED
      BY <1>5, <1>6, <3>1, OneMount
  <2>3. \A q \in Path : p \in Dirs!UpTo(q) \ {q} => volume[q].kind = "none"
    <3> SUFFICES ASSUME NEW q \in Path, p \in Dirs!UpTo(q) \ {q} PROVE volume[q].kind = "none"
      OBVIOUS
    <3>1. Dirs!Mounted(q)
      BY <1>6, <1>8, Order DEF Dirs!Mounted
    <3> QED
      BY <1>7, <3>1, Shown
  <2>4. ASSUME NEW q \in Path, volume'[q].kind # "none"
        PROVE  \E n \in MountPoints \cap Dirs!UpTo(q) :
                 \A r \in Dirs!UpTo(q) \ {q} : n \in Dirs!UpTo(r) => volume'[r].kind = "dir"
    <3>1. q # p
      BY <1>1, <1>3, <1>6, <1>8, <2>4
    <3>2. PICK n \in MountPoints \cap Dirs!UpTo(q) :
            \A r \in Dirs!UpTo(q) \ {q} : n \in Dirs!UpTo(r) => volume[r].kind = "dir"
      BY <1>4, <2>4, <3>1 DEF Volumes
    <3>3. p \notin Dirs!UpTo(q) \ {q}
      BY <1>4, <2>3, <2>4, <3>1
    <3> QED
      BY <1>4, <1>5, <3>2, <3>3
  <2>5. \A n \in MountPoints : volume'[n].kind = "dir"
    BY <1>4, <1>6, <2>2 DEF Volumes
  <2>6. Volumes'
    BY <2>4, <2>5 DEF Volumes
  <2>7. Layers'
    BY <2>1 DEF Layers
  <2> QED
    BY <1>1, <1>3, <2>6, <2>7
<1>9. CASE ~Dirs!Mounted(p)
  <2>1. volume' = volume
    BY <1>1, <1>3, <1>4, <1>9 DEF Dirs!TypeOK, Dirs!Rooted
  <2>2. layer'[p].kind = "none"
    BY <1>1, <1>3, <1>6, <1>9
  <2>3. \A m \in mounts : p \notin Dirs!UpTo(m)
    <3> SUFFICES ASSUME NEW m \in mounts, p \in Dirs!UpTo(m) PROVE FALSE
      OBVIOUS
    <3>1. m \in Path /\ Dirs!Mounted(m) /\ m # p
      BY <1>5, <1>6, <1>9 DEF Dirs!Mounted
    <3>2. Dirs!Fs[m].kind = "dir"
      BY <1>6, <3>1, Shown DEF Volumes
    <3> QED
      BY <1>7, <3>1, <3>2
  <2>4. \A q \in Path : p \in Dirs!UpTo(q) \ {q} => layer[q].kind = "none"
    <3> SUFFICES ASSUME NEW q \in Path, p \in Dirs!UpTo(q) \ {q} PROVE layer[q].kind = "none"
      OBVIOUS
    <3>1. ~Dirs!Mounted(q)
      <4> SUFFICES ASSUME NEW m \in mounts, m \in Dirs!UpTo(q) PROVE FALSE
        BY DEF Dirs!Mounted
      <4>1. m \in Path /\ (p \in Dirs!UpTo(m) \/ m \in Dirs!UpTo(p))
        BY <1>6, Order
      <4> QED
        BY <1>9, <2>3, <4>1 DEF Dirs!Mounted
    <3> QED
      BY <1>7, <3>1, Shown
  <2>5. ASSUME NEW q \in Path, layer'[q].kind # "none", NEW r \in Dirs!UpTo(q) \ {q}
        PROVE  layer'[r].kind = "dir"
    <3>1. q # p /\ r # p /\ r \in Path
      BY <1>4, <1>5, <2>2, <2>4, <2>5
    <3> QED
      BY <1>4, <2>5, <3>1 DEF Layers
  <2>6. \A m \in mounts' : \A q \in Dirs!UpTo(m) : layer'[q].kind = "dir"
    BY <1>4, <1>5, <1>6, <2>3 DEF Layers
  <2>7. Layers' /\ Volumes'
    BY <2>1, <2>5, <2>6 DEF Layers, Volumes
  <2> QED
    BY <1>1, <1>3, <2>7
<1> QED
  BY <1>8, <1>9

(* A new container's layer.                                                *)
LEMMA NewLayer ==
  ASSUME NEW at \in SUBSET MountPoints, NEW l, l = Dirs!LayerOver(at)
  PROVE  /\ l \in Dirs!Rooted
         /\ \A p \in Path : l[p].kind # "none" => \A q \in Dirs!UpTo(p) \ {p} : l[q].kind = "dir"
         /\ \A m \in at : \A q \in Dirs!UpTo(m) : l[q].kind = "dir"
<1>1. \A p \in Path : l[p] = IF Dirs!Below(p) \cap at # {} /\ Image[p].kind = "none"
                           THEN Dirs!RootDir ELSE Image[p]
  BY DEF Dirs!LayerOver
<1>2. /\ Image \in Dirs!Rooted /\ MountPoints \subseteq Path
      /\ \A p \in Path : IF Image[p].kind = "none" THEN Image[p] = Dirs!Nothing
                        ELSE \A q \in Dirs!UpTo(p) \ {p} : Image[q].kind = "dir"
      /\ \A m \in MountPoints : \A p \in Dirs!UpTo(m) : Image[p].kind \in {"none", "dir"}
  BY DirsAssumption DEF Dirs!PrepareAssumption, Dirs!ImageAssumption
<1>3. l \in Dirs!Rooted
  BY <1>2 DEF Dirs!LayerOver, Dirs!Rooted, Dirs!Kinds, Dirs!RootDir
<1>4. \A m \in at : \A q \in Dirs!UpTo(m) : q \in Path /\ l[q].kind = "dir"
  <2> SUFFICES ASSUME NEW m \in at, NEW q \in Dirs!UpTo(m) PROVE q \in Path /\ l[q].kind = "dir"
    OBVIOUS
  <2>1. q \in Path /\ m \in Dirs!Below(q)
    BY <1>2, Order
  <2> QED
    BY <1>1, <1>2, <2>1 DEF Dirs!RootDir
<1>5. ASSUME NEW p \in Path, l[p].kind # "none", NEW q \in Dirs!UpTo(p) \ {p}
      PROVE  l[q].kind = "dir"
  <2>0. q \in Path
    BY Order
  <2>1. CASE Image[p].kind # "none"
    BY <1>1, <1>2, <2>0, <2>1
  <2>2. CASE Image[p].kind = "none"
    <3>1. PICK m \in at : m \in Dirs!Below(p)
      BY <1>1, <1>5, <2>2
    <3>2. q \in Dirs!UpTo(m)
      BY <1>2, <2>0, <3>1, Order
    <3> QED
      BY <1>4, <3>2
  <2> QED
    BY <2>1, <2>2
<1> QED
  BY <1>3, <1>4, <1>5

LEMMA Untouched ==
  ASSUME Dirs!TypeOK, Volumes, Layers, UNCHANGED <<mounts, volume, layer>>
  PROVE  Volumes' /\ Layers' /\ Dirs!Fs' = Dirs!Fs /\ At' = At /\ To' = To
<1>1. \A p : Dirs!Mounted(p)' <=> Dirs!Mounted(p)
  BY DEF Dirs!Mounted
<1>2. Volumes' /\ Layers' /\ Dirs!Fs' = Dirs!Fs
  BY <1>1 DEF Volumes, Layers, Dirs!Fs
<1> QED
  BY <1>2, SamePlaces

LEMMA DirsInvInitially == Dirs!Init => DirsInv
<1> SUFFICES ASSUME Dirs!Init PROVE DirsInv
  OBVIOUS
<1>1. mounts \in SUBSET MountPoints /\ layer = Dirs!LayerOver(mounts)
  BY DEF Dirs!Init
<1>2. layer \in Dirs!Rooted /\ Layers
  BY <1>1, NewLayer DEF Layers
<1>3. /\ volume \in Dirs!Rooted
      /\ \A p \in Path : volume[p] = IF p \in MountPoints THEN Dirs!RootDir ELSE Dirs!Nothing
  BY DEF Dirs!Init, Dirs!Rooted, Dirs!Kinds, Dirs!RootDir, Dirs!Nothing
<1>4. Volumes
  <2>1. \A m \in MountPoints : m \in Path /\ volume[m].kind = "dir"
    BY <1>3, DirsAssumption DEF Dirs!PrepareAssumption, Dirs!RootDir
  <2>2. ASSUME NEW p \in Path, volume[p].kind # "none"
        PROVE  \E m \in MountPoints \cap Dirs!UpTo(p) :
                 \A q \in Dirs!UpTo(p) \ {p} : m \in Dirs!UpTo(q) => volume[q].kind = "dir"
    <3>1. p \in MountPoints /\ p \in Dirs!UpTo(p)
      BY <1>3, <2>2, Order DEF Dirs!Nothing
    <3>2. \A q \in Dirs!UpTo(p) \ {p} : p \notin Dirs!UpTo(q)
      BY Order
    <3> QED
      BY <3>1, <3>2
  <2> QED
    BY <2>1, <2>2 DEF Volumes
<1>5. Dirs!TypeOK
  BY <1>1, <1>2, <1>3 DEF Dirs!TypeOK, Dirs!Init
<1> QED
  BY <1>2, <1>4, <1>5 DEF DirsInv, Underway, Ways, Owners, InPass, Dirs!Init

(* What the next entry's probe finds missing is what is to be made.        *)
LEMMA Probed ==
  ASSUME Dirs!TypeOK, Dirs!Fs' = Dirs!Fs, At' = At, To' = To,
         phase' = "make", Dirs!Dir' \in Path, created' = Dirs!Probe(Dirs!Dir')
  PROVE  created' \subseteq Path /\ Ways'
<1> DEFINE d == Dirs!Dir'
<1>1. d \in Dirs!UpTo(d) /\ Dirs!UpTo(d) \subseteq Path
  BY Order
<1>2. created' = {Dirs!Leads(p) : p \in {q \in Dirs!UpTo(d) \ {d} : Dirs!Fs[Dirs!Leads(q)].kind = "none"}}
  BY DEF Dirs!Probe
<1> HIDE DEF d
<1>3. created' = {To[p] : p \in {q \in Dirs!UpTo(d) \ {d} : Dirs!Fs[To[q]].kind = "none"}}
  BY <1>1, <1>2, Places
<1>4. created' \subseteq Path
  BY <1>1, <1>3, Places
<1>5. \A c \in created' : (\E p \in Dirs!UpTo(d) : c = To[p]) /\ Dirs!Fs[c].kind = "none"
  BY <1>3
<1>6. ASSUME NEW p \in Dirs!UpTo(d) \ {d}, Dirs!Fs[At[p]].kind = "none"
      PROVE  At[p] \in created'
  <2>1. To[p] = At[p]
    BY <1>1, <1>6, Places
  <2> QED
    BY <1>3, <1>6, <2>1
<1> QED
  BY <1>4, <1>5, <1>6 DEF Ways, d

LEMMA CheckedStep == DirsInv /\ Dirs!Checked => DirsInv'
<1> SUFFICES ASSUME DirsInv, Dirs!Checked PROVE DirsInv'
  OBVIOUS
<1>1. /\ Dirs!TypeOK /\ Volumes' /\ Layers' /\ UNCHANGED <<mounts, volume, layer, made>>
      /\ Dirs!Fs' = Dirs!Fs /\ At' = At /\ To' = To
      /\ phase = "start" /\ made = {} /\ pending' = {} /\ entries' = Required \o Implicit
      /\ \A i \in DOMAIN Required : Dirs!IsBacked(Required[i])
  BY Untouched DEF DirsInv, Dirs!Checked, Underway
<1>2. \A p : Dirs!IsBacked(p)' <=> Dirs!IsBacked(p)
  BY <1>1 DEF Dirs!IsBacked
<1>3. entries' \in Seq(Path)
  BY <1>1, DirsAssumption, ConcatProperties DEF Dirs!PrepareAssumption
<1>4. Left' = Dirs!Listed
  BY <1>1 DEF Left, Dirs!Listed
<1>5. CASE entries' = <<>>
  <2>1. phase' = "done" /\ created' = {}
    BY <1>5 DEF Dirs!Checked, Dirs!GoOn
  <2>2. Settled' = {} /\ Roots' = {}
    BY <1>4, <2>1 DEF Settled, Roots
  <2>3. Dirs!TypeOK'
    BY <1>1, <1>3, <2>1 DEF Dirs!TypeOK
  <2>4. Underway' /\ Ways'
    BY <1>1, <1>2, <1>5, <2>1 DEF Underway, Ways, InPass
  <2>5. Owners'
    BY <1>1, <2>2 DEF Owners
  <2> QED
    BY <1>1, <2>3, <2>4, <2>5 DEF DirsInv
<1>6. CASE entries' # <<>>
  <2>1. phase' = "make" /\ created' = Dirs!Probe(Head(entries'))
    BY <1>6 DEF Dirs!Checked, Dirs!GoOn
  <2>2. Settled' = {} /\ Roots' = {}
    BY <1>4, <2>1 DEF Settled, Roots
  <2>3. Dirs!Dir' \in Path
    BY <1>3, <1>6, HeadTailProperties DEF Dirs!Dir
  <2>4. created' \subseteq Path /\ Ways'
    BY <1>1, <2>1, <2>3, Probed DEF Dirs!Dir
  <2>5. Dirs!TypeOK'
    BY <1>1, <1>3, <2>1, <2>4 DEF Dirs!TypeOK
  <2>6. Underway'
    BY <1>1, <1>2, <1>4, <1>6, <2>1 DEF Underway, InPass
  <2>7. Owners'
    BY <1>1, <2>2 DEF Owners
  <2> QED
    BY <1>1, <2>4, <2>5, <2>6, <2>7 DEF DirsInv
<1> QED
  BY <1>5, <1>6

(* The entry under way is the first of those left.                         *)
LEMMA FirstLeft ==
  ASSUME DirsInv, phase \in {"make", "walk"}
  PROVE  /\ Dirs!Dir \in Path /\ Dirs!Dir \in Dirs!Listed
         /\ entries \in Seq(Path) /\ entries # <<>>
         /\ Left = {Dirs!Dir} \cup {Tail(entries)[i] : i \in DOMAIN Tail(entries)}
         /\ Dirs!UpTo(Dirs!Dir) \subseteq Path /\ Dirs!Dir \in Dirs!UpTo(Dirs!Dir)
         /\ created \subseteq Path /\ Settled \subseteq Path /\ Roots \subseteq Path
         /\ At[Dirs!Dir] \in Path
<1>1. entries \in Seq(Path) /\ entries # <<>> /\ Left \subseteq Dirs!Listed
  BY DEF DirsInv, Dirs!TypeOK, Underway
<1>2. /\ Len(entries) \in Nat /\ Len(entries) >= 1 /\ DOMAIN entries = 1..Len(entries)
      /\ Dirs!Dir = entries[1] /\ Dirs!Dir \in Path
      /\ DOMAIN Tail(entries) = 1..Len(entries) - 1
      /\ \A i \in 1..Len(entries) - 1 : Tail(entries)[i] = entries[i + 1]
  BY <1>1, EmptySeq, HeadTailProperties DEF Dirs!Dir
<1>3. \A i \in 1..Len(entries) : i = 1 \/ (i - 1 \in 1..Len(entries) - 1 /\ i = (i - 1) + 1)
  BY <1>2
<1>4. Left = {Dirs!Dir} \cup {Tail(entries)[i] : i \in DOMAIN Tail(entries)}
  <2> DEFINE T == Tail(entries)
             n == Len(entries)
  <2>1. ASSUME NEW i \in 1..n
        PROVE  entries[i] \in {Dirs!Dir} \cup {T[j] : j \in DOMAIN T}
    <3>1. CASE i = 1
      BY <1>2, <3>1
    <3>2. CASE i # 1
      <4>1. i - 1 \in DOMAIN T /\ T[i - 1] = entries[i]
        BY <1>2, <1>3, <3>2
      <4> QED
        BY <4>1
    <3> QED
      BY <3>1, <3>2
  <2>2. ASSUME NEW j \in DOMAIN T
        PROVE  T[j] \in Left
    <3>1. j + 1 \in DOMAIN entries /\ T[j] = entries[j + 1]
      BY <1>2
    <3> QED
      BY <3>1 DEF Left
  <2>3. Dirs!Dir \in Left
    BY <1>2 DEF Left
  <2> QED
    BY <1>2, <2>1, <2>2, <2>3 DEF Left
<1>5. Dirs!TypeOK /\ created \subseteq Path
  BY DEF DirsInv, Dirs!TypeOK
<1>6. Dirs!Listed \subseteq Path
  BY DirsAssumption, ConcatProperties DEF Dirs!Listed, Dirs!PrepareAssumption
<1>7. Settled \subseteq Path /\ Roots \subseteq Path /\ At[Dirs!Dir] \in Path
  BY <1>2, <1>5, <1>6, Places DEF Settled, Roots
<1> QED
  BY <1>1, <1>2, <1>4, <1>5, <1>7, Order

(* A directory on the way is made: it is owed.                             *)
LEMMA MkdirStep == DirsInv /\ Dirs!Mkdir => DirsInv'
<1> SUFFICES ASSUME DirsInv, Dirs!Mkdir PROVE DirsInv'
  OBVIOUS
<1>2. /\ phase = "make" /\ UNCHANGED <<mounts, phase, entries, created, pending>>
      /\ Dirs!TypeOK /\ Volumes /\ Layers
  BY DEF Dirs!Mkdir, Dirs!passVars, DirsInv
<1>1. PICK w \in Dirs!UpTo(Dirs!Dir) :
        /\ Dirs!Fs[Dirs!Place(w)].kind = "none"
        /\ Dirs!Parent(Dirs!Place(w)) # Dirs!AppRoot =>
             Dirs!Fs[Dirs!Parent(Dirs!Place(w))].kind = "dir"
        /\ Dirs!Store([Dirs!Fs EXCEPT ![Dirs!Place(w)] = Dirs!RootDir])
        /\ made' = made \cup {Dirs!Place(w)}
  BY DEF Dirs!Mkdir
<1> DEFINE p == At[w]
<1>3. w \in Path /\ p = Dirs!Place(w) /\ p \in Path
  BY <1>1, <1>2, FirstLeft, Places
<1> HIDE DEF p
<1>4. /\ Volumes' /\ Layers' /\ volume' \in Dirs!Rooted /\ layer' \in Dirs!Rooted
      /\ Dirs!Fs'[p] = Dirs!RootDir /\ \A q \in Path : q # p => Dirs!Fs'[q] = Dirs!Fs[q]
      /\ Dirs!Fs[p].kind = "none" /\ made' = made \cup {p}
  BY <1>1, <1>2, <1>3, Created DEF Dirs!RootDir
<1>5. /\ Dirs!Dir' = Dirs!Dir /\ Settled' = Settled /\ Left' = Left /\ Settled \subseteq Path
      /\ At' = At /\ To' = To /\ Roots' = Roots
  <2>1. At' = At /\ To' = To
    BY <1>2, <1>4, SamePlaces DEF Dirs!RootDir
  <2> QED
    BY <1>2, <2>1, FirstLeft DEF Dirs!Dir, Settled, Left, Roots
<1>6. Dirs!TypeOK'
  BY <1>2, <1>4 DEF Dirs!TypeOK, Dirs!RootDir
<1>7. Underway'
  BY <1>2, <1>3, <1>4, <1>5 DEF DirsInv, Underway, InPass, Dirs!RootDir, Dirs!IsBacked
<1>8. Ways'
  <2>1. ASSUME NEW q \in Dirs!UpTo(Dirs!Dir) \ {Dirs!Dir}, Dirs!Fs'[At[q]].kind = "none"
        PROVE  At[q] \in created
    <3>1. q \in Path /\ At[q] \in Path
      BY <1>2, FirstLeft, Places
    <3> QED
      BY <1>2, <1>4, <2>1, <3>1 DEF DirsInv, Ways, Dirs!RootDir
  <2>2. ASSUME NEW c \in created
        PROVE  /\ \E q \in Dirs!UpTo(Dirs!Dir) : c = To[q]
               /\ Dirs!Fs'[c].kind = "none" \/ c \in made'
    BY <1>2, <1>4, <2>2, FirstLeft DEF DirsInv, Ways
  <2> QED
    BY <1>2, <1>5, <2>1, <2>2 DEF Ways
<1>9. \A e \in Settled : Dirs!Fs'[To[e]].kind = "dir"
  BY <1>2, <1>4, <1>5, Places DEF DirsInv, Owners, InPass, Dirs!RootDir
<1>10. ASSUME NEW q \in Path, Dirs!Fs'[q].kind # "none", q \in made' \/ Roots \cap Dirs!UpTo(q) # {}
       PROVE  Dirs!Fs'[q].owner = "nonroot" \/ Owed(q)'
  <2>1. Owed(q)' <=> Owed(q)
    BY <1>2, <1>5 DEF Owed
  <2>2. CASE q = p
    <3>1. w = Dirs!Dir \/ p \in created
      BY <1>1, <1>2, <1>4 DEF DirsInv, Ways, p
    <3> QED
      BY <1>2, <2>1, <2>2, <3>1 DEF Owed, p
  <2>3. CASE q # p
    BY <1>2, <1>4, <1>10, <2>1, <2>3 DEF DirsInv, Owners, InPass
  <2> QED
    BY <2>2, <2>3
<1>11. Owners'
  BY <1>5, <1>9, <1>10 DEF Owners
<1> QED
  BY <1>4, <1>6, <1>7, <1>8, <1>11 DEF DirsInv

LEMMA MadeStep == DirsInv /\ Dirs!Made => DirsInv'
<1> SUFFICES ASSUME DirsInv, Dirs!Made PROVE DirsInv'
  OBVIOUS
<1>1. /\ phase = "make" /\ phase' = "walk"
      /\ UNCHANGED <<mounts, volume, layer, entries, created, made>>
      /\ \A p \in Dirs!UpTo(Dirs!Dir) : Dirs!Fs[Dirs!Leads(p)].kind = "dir"
      /\ pending' = {Dirs!Place(Dirs!Dir)}
      /\ Dirs!TypeOK /\ Volumes' /\ Layers' /\ Dirs!Fs' = Dirs!Fs /\ At' = At /\ To' = To
  BY Untouched DEF Dirs!Made, DirsInv
<1>2. /\ Dirs!Dir \in Path /\ At[Dirs!Dir] \in Path
      /\ Dirs!UpTo(Dirs!Dir) \subseteq Path /\ Dirs!Dir \in Dirs!UpTo(Dirs!Dir)
  BY <1>1, FirstLeft
<1>3. /\ \A p \in Dirs!UpTo(Dirs!Dir) : Dirs!Fs[To[p]].kind = "dir"
      /\ Dirs!Fs[At[Dirs!Dir]].kind # "none" /\ pending' = {At[Dirs!Dir]}
  BY <1>1, <1>2, Places
<1>4. /\ Dirs!Dir' = Dirs!Dir /\ Left' = Left /\ Settled' = Settled \cup {Dirs!Dir}
      /\ Roots' = Roots \cup {At[Dirs!Dir]}
  BY <1>1 DEF Dirs!Dir, Left, Settled, Roots
<1>5. Dirs!TypeOK'
  BY <1>1, <1>2, <1>3 DEF Dirs!TypeOK
<1>6. Underway'
  BY <1>1, <1>4 DEF DirsInv, Underway, InPass, Dirs!IsBacked
<1>7. Ways'
  <2>1. created' \subseteq made'
    BY <1>1, <1>3 DEF DirsInv, Ways
  <2>2. pending' \subseteq Dirs!Below(At[Dirs!Dir])
    BY <1>2, <1>3, Order
  <2> QED
    BY <1>1, <1>4, <2>1, <2>2 DEF Ways
<1>8. \A e \in Settled' : Dirs!Fs'[To'[e]].kind = "dir"
  BY <1>1, <1>2, <1>3, <1>4 DEF DirsInv, Owners, InPass
<1>9. ASSUME NEW q \in Path, Dirs!Fs'[q].kind # "none", q \in made' \/ Roots' \cap Dirs!UpTo(q) # {}
      PROVE  Dirs!Fs'[q].owner = "nonroot" \/ Owed(q)'
  <2>1. CASE At[Dirs!Dir] \in Dirs!UpTo(q)
    BY <1>1, <1>3, <2>1 DEF Owed
  <2>2. CASE At[Dirs!Dir] \notin Dirs!UpTo(q)
    <3>1. q # At[Dirs!Dir]
      BY <2>2, Order
    <3>2. Dirs!Fs[q].owner = "nonroot" \/ Owed(q)
      BY <1>1, <1>4, <1>9, <2>2 DEF DirsInv, Owners, InPass
    <3> QED
      BY <1>1, <3>1, <3>2 DEF Owed
  <2> QED
    BY <2>1, <2>2
<1>10. Owners'
  BY <1>8, <1>9 DEF Owners
<1> QED
  BY <1>1, <1>5, <1>6, <1>7, <1>10 DEF DirsInv

LEMMA ChownCreatedStep == DirsInv /\ Dirs!ChownCreated => DirsInv'
<1> SUFFICES ASSUME DirsInv, Dirs!ChownCreated PROVE DirsInv'
  OBVIOUS
<1>1. PICK p \in created : Dirs!Chown(p) /\ created' = created \ {p}
  BY DEF Dirs!ChownCreated
<1>2. /\ phase = "walk" /\ UNCHANGED <<mounts, phase, entries, pending, made>>
      /\ Dirs!TypeOK /\ Volumes /\ Layers
  BY DEF Dirs!ChownCreated, DirsInv
<1>3. p \in Path
  BY <1>1, <1>2, FirstLeft
<1>4. /\ Volumes' /\ Layers' /\ volume' \in Dirs!Rooted /\ layer' \in Dirs!Rooted
      /\ At' = At /\ To' = To
      /\ \A q \in Path : Dirs!Fs'[q].kind = Dirs!Fs[q].kind
      /\ \A q \in Path : Dirs!Fs'[q].owner = IF q = p THEN "nonroot" ELSE Dirs!Fs[q].owner
  BY <1>1, <1>2, <1>3, Chowned
<1>5. /\ Dirs!Dir' = Dirs!Dir /\ Settled' = Settled /\ Left' = Left /\ Settled \subseteq Path
      /\ Roots' = Roots
  BY <1>2, <1>4, FirstLeft DEF Dirs!Dir, Settled, Left, Roots
<1>6. Dirs!TypeOK'
  BY <1>1, <1>2, <1>4 DEF Dirs!TypeOK
<1>7. Underway'
  BY <1>1, <1>2, <1>4, <1>5 DEF DirsInv, Underway, InPass, Dirs!IsBacked
<1>8. Ways'
  BY <1>1, <1>2, <1>4, <1>5 DEF DirsInv, Ways
<1>9. \A e \in Settled : Dirs!Fs'[To[e]].kind = "dir"
  BY <1>2, <1>4, <1>5, Places DEF DirsInv, Owners, InPass
<1>10. ASSUME NEW q \in Path, Dirs!Fs'[q].kind # "none", q \in made' \/ Roots \cap Dirs!UpTo(q) # {}
       PROVE  Dirs!Fs'[q].owner = "nonroot" \/ Owed(q)'
  <2>1. CASE q = p
    BY <1>4, <2>1
  <2>2. CASE q # p
    <3>1. Dirs!Fs[q].owner = "nonroot" \/ Owed(q)
      BY <1>2, <1>4, <1>10 DEF DirsInv, Owners, InPass
    <3> QED
      BY <1>1, <1>2, <1>4, <2>2, <3>1 DEF Owed
  <2> QED
    BY <2>1, <2>2
<1>11. Owners'
  BY <1>4, <1>5, <1>9, <1>10 DEF Owners
<1> QED
  BY <1>4, <1>6, <1>7, <1>8, <1>11 DEF DirsInv

(* What was below the path just visited is below one of those listed.      *)
LEMMA WalkStep == DirsInv /\ Dirs!Walk => DirsInv'
<1> SUFFICES ASSUME DirsInv, Dirs!Walk PROVE DirsInv'
  OBVIOUS
<1>1. PICK p \in pending : Dirs!Chown(p) /\ pending' = (pending \ {p}) \cup Dirs!Listing(p)
  BY DEF Dirs!Walk
<1>2. /\ phase = "walk" /\ created = {} /\ UNCHANGED <<mounts, phase, entries, created, made>>
      /\ Dirs!TypeOK /\ Volumes /\ Layers
  BY DEF Dirs!Walk, DirsInv
<1>3. p \in Path /\ p # Dirs!AppRoot /\ Dirs!Fs[p].kind # "none" /\ At[Dirs!Dir] \in Dirs!UpTo(p)
  BY <1>1, <1>2, FirstLeft, Order, DirsAssumption
     DEF Dirs!TypeOK, DirsInv, Ways, Dirs!PrepareAssumption, Dirs!PathAssumption
<1>4. /\ Volumes' /\ Layers' /\ volume' \in Dirs!Rooted /\ layer' \in Dirs!Rooted
      /\ At' = At /\ To' = To
      /\ \A q \in Path : Dirs!Fs'[q].kind = Dirs!Fs[q].kind
      /\ \A q \in Path : Dirs!Fs'[q].owner = IF q = p THEN "nonroot" ELSE Dirs!Fs[q].owner
  BY <1>1, <1>2, <1>3, Chowned
<1>5. /\ Dirs!Dir' = Dirs!Dir /\ Settled' = Settled /\ Left' = Left /\ Settled \subseteq Path
      /\ Roots' = Roots
  BY <1>2, <1>4, FirstLeft DEF Dirs!Dir, Settled, Left, Roots
<1>6. \A q \in Dirs!Listing(p) :
        q \in Path /\ Dirs!Fs[q].kind # "none" /\ Dirs!Parent(q) = p /\ p \in Dirs!UpTo(q)
  <2> SUFFICES ASSUME NEW q \in Dirs!Listing(p)
               PROVE  q \in Path /\ Dirs!Fs[q].kind # "none" /\ Dirs!Parent(q) = p /\ p \in Dirs!UpTo(q)
    OBVIOUS
  <2>1. q \in Path /\ Dirs!Fs[q].kind # "none" /\ Dirs!Parent(q) = p
    BY DEF Dirs!Listing, Dirs!Children
  <2> QED
    BY <1>3, <2>1, Parents, Order
<1>7. Dirs!TypeOK'
  <2>1. \A q \in pending' : q \in Path /\ Dirs!Fs'[q].kind # "none"
    BY <1>1, <1>2, <1>4, <1>6 DEF Dirs!TypeOK
  <2> QED
    BY <1>2, <1>4, <2>1 DEF Dirs!TypeOK
<1>8. Underway'
  BY <1>2, <1>4, <1>5 DEF DirsInv, Underway, InPass, Dirs!IsBacked
<1>9. Ways'
  <2>1. \A q \in Dirs!Listing(p) : q \in Dirs!Below(At[Dirs!Dir])
    BY <1>2, <1>3, <1>6, FirstLeft, Order
  <2> QED
    BY <1>1, <1>2, <1>4, <1>5, <2>1 DEF DirsInv, Ways
<1>10. \A e \in Settled : Dirs!Fs'[To[e]].kind = "dir"
  BY <1>2, <1>4, <1>5, Places DEF DirsInv, Owners, InPass
<1>11. ASSUME NEW q \in Path, Dirs!Fs'[q].kind # "none", q \in made' \/ Roots \cap Dirs!UpTo(q) # {}
       PROVE  Dirs!Fs'[q].owner = "nonroot" \/ Owed(q)'
  <2>1. Dirs!Fs[q].kind # "none" /\ (Dirs!Fs[q].owner = "nonroot" \/ Owed(q))
    BY <1>2, <1>4, <1>11 DEF DirsInv, Owners, InPass
  <2>2. CASE Dirs!Fs[q].owner = "nonroot"
    BY <1>4, <2>2
  <2>3. ASSUME NEW r \in pending, r \in Dirs!UpTo(q)
        PROVE  Dirs!Fs'[q].owner = "nonroot" \/ Owed(q)'
    <3>1. CASE r # p
      BY <1>1, <1>2, <2>3, <3>1 DEF Owed
    <3>2. CASE r = p /\ q = p
      BY <1>4, <3>2
    <3>3. CASE r = p /\ q # p
      <4>1. PICK c \in Dirs!UpTo(q) : Dirs!Parent(c) = p
        BY <2>3, <3>3, NextDown
      <4>2. c \in Path /\ Dirs!Fs[c].kind # "none" /\ Dirs!Fs[p].kind = "dir"
        BY <1>2, <2>1, <2>3, <3>3, Above, Order
      <4>3. c \in Dirs!Listing(p)
        BY <4>1, <4>2 DEF Dirs!Listing, Dirs!Children
      <4> QED
        BY <1>1, <1>2, <4>1, <4>3 DEF Owed
    <3> QED
      BY <3>1, <3>2, <3>3
  <2> QED
    BY <1>2, <2>1, <2>2, <2>3 DEF Owed
<1>12. Owners'
  BY <1>4, <1>5, <1>10, <1>11 DEF Owners
<1> QED
  BY <1>4, <1>7, <1>8, <1>9, <1>12 DEF DirsInv

LEMMA WalkedStep == DirsInv /\ Dirs!Walked => DirsInv'
<1> SUFFICES ASSUME DirsInv, Dirs!Walked PROVE DirsInv'
  OBVIOUS
<1>1. /\ phase = "walk" /\ created = {} /\ pending = {} /\ entries' = Tail(entries)
      /\ UNCHANGED <<mounts, volume, layer, pending, made>>
      /\ Dirs!TypeOK /\ Volumes' /\ Layers' /\ Dirs!Fs' = Dirs!Fs /\ At' = At /\ To' = To
  BY Untouched DEF Dirs!Walked, DirsInv
<1>2. \A p : Dirs!IsBacked(p)' <=> Dirs!IsBacked(p)
  BY <1>1 DEF Dirs!IsBacked
<1>3. entries' \in Seq(Path) /\ Left = {Dirs!Dir} \cup Left' /\ Left \subseteq Dirs!Listed
  <2>1. /\ entries \in Seq(Path) /\ entries # <<>>
        /\ Left = {Dirs!Dir} \cup {Tail(entries)[i] : i \in DOMAIN Tail(entries)}
    BY <1>1, FirstLeft
  <2>2. Left' = {Tail(entries)[i] : i \in DOMAIN Tail(entries)}
    BY <1>1 DEF Left
  <2>3. entries' \in Seq(Path)
    BY <1>1, <2>1, HeadTailProperties
  <2>4. Left \subseteq Dirs!Listed
    BY <1>1 DEF DirsInv, Underway
  <2> QED
    BY <2>1, <2>2, <2>3, <2>4
<1>4. \A q \in Path : Dirs!Fs[q].kind # "none" /\ (q \in made \/ Roots \cap Dirs!UpTo(q) # {}) =>
                     Dirs!Fs[q].owner = "nonroot"
  BY <1>1 DEF DirsInv, Owners, InPass, Owed
<1>5. ASSUME phase' \in {"make", "done"}
      PROVE  Owners'
  <2>1. Settled' \subseteq Settled /\ Roots' \subseteq Roots
    BY <1>1, <1>3, <1>5 DEF Settled, Roots
  <2>2. \A e \in Settled' : Dirs!Fs'[To'[e]].kind = "dir"
    BY <1>1, <2>1 DEF DirsInv, Owners, InPass
  <2>3. \A q \in Path : Dirs!Fs'[q].kind # "none" /\ (q \in made' \/ Roots' \cap Dirs!UpTo(q) # {}) =>
                       Dirs!Fs'[q].owner = "nonroot"
    BY <1>1, <1>4, <2>1
  <2> QED
    BY <2>2, <2>3 DEF Owners
<1>6. CASE entries' = <<>>
  <2>1. phase' = "done" /\ created' = {}
    BY <1>6 DEF Dirs!Walked, Dirs!GoOn
  <2>2. Dirs!TypeOK'
    BY <1>1, <1>3, <2>1 DEF Dirs!TypeOK
  <2>3. Underway' /\ Ways'
    BY <1>1, <1>2, <1>6, <2>1 DEF DirsInv, Underway, Ways, InPass
  <2> QED
    BY <1>1, <1>5, <2>1, <2>2, <2>3 DEF DirsInv
<1>7. CASE entries' # <<>>
  <2>1. phase' = "make" /\ created' = Dirs!Probe(Head(entries'))
    BY <1>7 DEF Dirs!Walked, Dirs!GoOn
  <2>2. Dirs!Dir' \in Path
    BY <1>3, <1>7, HeadTailProperties DEF Dirs!Dir
  <2>3. created' \subseteq Path /\ Ways'
    BY <1>1, <2>1, <2>2, Probed DEF Dirs!Dir
  <2>4. Dirs!TypeOK'
    BY <1>1, <1>3, <2>1, <2>3 DEF Dirs!TypeOK
  <2>5. Underway'
    BY <1>1, <1>2, <1>3, <1>7, <2>1 DEF DirsInv, Underway, InPass
  <2> QED
    BY <1>1, <1>5, <2>1, <2>3, <2>4, <2>5 DEF DirsInv
<1> QED
  BY <1>6, <1>7

LEMMA AppStep == DirsInv /\ (Dirs!AppStarts \/ Dirs!AppWrites \/ Dirs!AppRemoves) => DirsInv'
<1> SUFFICES ASSUME DirsInv, Dirs!AppStarts \/ Dirs!AppWrites \/ Dirs!AppRemoves PROVE DirsInv'
  OBVIOUS
<1>1. /\ phase \in {"done", "running"} /\ phase' = "running"
      /\ UNCHANGED <<mounts, entries, created, pending, made>>
      /\ Dirs!TypeOK /\ Volumes /\ Layers
  BY DEF Dirs!AppStarts, Dirs!AppWrites, Dirs!AppRemoves, Dirs!passVars, DirsInv
<1>2. /\ Volumes' /\ Layers' /\ volume' \in Dirs!Rooted /\ layer' \in Dirs!Rooted
      /\ pending = {}
  <2>0. pending = {}
    BY <1>1 DEF DirsInv, Underway
  <2>1. CASE Dirs!AppStarts
    BY <1>1, <2>0, <2>1, Untouched DEF Dirs!AppStarts, Dirs!TypeOK
  <2>2. CASE Dirs!AppWrites
    <3>1. PICK p \in Path, kind \in {"file", "dir", "link"} :
            /\ Dirs!Fs[Dirs!Parent(p)].kind = "dir" /\ Dirs!Fs[p].kind = "none"
            /\ kind = "link" => p \in DOMAIN Target
            /\ Dirs!Store([Dirs!Fs EXCEPT ![p] = [kind |-> kind, owner |-> "nonroot"]])
      BY <2>2 DEF Dirs!AppWrites, Dirs!AppOwns
    <3> QED
      BY <1>1, <2>0, <3>1, Created
  <2>3. CASE Dirs!AppRemoves
    <3>1. PICK p \in Path \ mounts :
            /\ \A q \in Dirs!Below(p) \ {p} : Dirs!Fs[q].kind = "none"
            /\ Dirs!Store([Dirs!Fs EXCEPT ![p] = Dirs!Nothing])
      BY <2>3 DEF Dirs!AppRemoves
    <3> QED
      BY <1>1, <2>0, <3>1, Removed
  <2> QED
    BY <2>1, <2>2, <2>3
<1>3. Dirs!TypeOK'
  BY <1>1, <1>2 DEF Dirs!TypeOK
<1>4. Underway' /\ Ways' /\ Owners'
  BY <1>1 DEF DirsInv, Underway, Ways, Owners, InPass, Dirs!IsBacked
<1> QED
  BY <1>2, <1>3, <1>4 DEF DirsInv

LEMMA HostWritesStep == DirsInv /\ Dirs!HostWrites => DirsInv'
<1> SUFFICES ASSUME DirsInv, Dirs!HostWrites PROVE DirsInv'
  OBVIOUS
<1>1. PICK p \in Path, kind \in {"file", "dir", "link"} :
        /\ Dirs!Fs[Dirs!Parent(p)].kind = "dir" /\ Dirs!Fs[p].kind = "none"
        /\ kind = "link" => p \in DOMAIN Target
        /\ Dirs!Store([Dirs!Fs EXCEPT ![p] = [kind |-> kind, owner |-> "root"]])
  BY DEF Dirs!HostWrites
<1>2. /\ phase = "start" /\ UNCHANGED <<mounts, phase, entries, created, pending, made>>
      /\ Dirs!TypeOK /\ Volumes /\ Layers
  BY DEF Dirs!HostWrites, Dirs!passVars, DirsInv
<1>3. /\ Volumes' /\ Layers' /\ volume' \in Dirs!Rooted /\ layer' \in Dirs!Rooted
      /\ Dirs!Fs'[p] = [kind |-> kind, owner |-> "root"]
      /\ \A q \in Path : q # p => Dirs!Fs'[q] = Dirs!Fs[q]
  BY <1>1, <1>2, Created
<1>4. Dirs!TypeOK'
  BY <1>2, <1>3 DEF Dirs!TypeOK
<1>5. Underway' /\ Ways' /\ Owners'
  BY <1>2 DEF DirsInv, Underway, Ways, Owners, InPass
<1> QED
  BY <1>3, <1>4, <1>5 DEF DirsInv

LEMMA RestartStep == DirsInv /\ Dirs!Restart => DirsInv'
<1> SUFFICES ASSUME DirsInv, Dirs!Restart PROVE DirsInv'
  OBVIOUS
<1>1. /\ phase' = "start" /\ entries' = <<>> /\ created' = {} /\ pending' = {} /\ made' = {}
      /\ volume' = volume /\ Dirs!TypeOK /\ Volumes /\ Layers
  BY DEF Dirs!Restart, DirsInv
<1>2. Volumes'
  BY <1>1 DEF Volumes
<1>3. Layers' /\ layer' \in Dirs!Rooted /\ mounts' \subseteq MountPoints
  <2>1. CASE UNCHANGED <<mounts, layer>>
    BY <1>1, <2>1 DEF Layers, Dirs!TypeOK
  <2>2. CASE mounts' \in SUBSET MountPoints /\ layer' = Dirs!LayerOver(mounts')
    BY <2>2, NewLayer DEF Layers
  <2> QED
    BY <2>1, <2>2 DEF Dirs!Restart
<1>4. Dirs!TypeOK'
  BY <1>1, <1>3 DEF Dirs!TypeOK
<1>5. Underway' /\ Ways' /\ Owners'
  BY <1>1 DEF Underway, Ways, Owners, InPass
<1> QED
  BY <1>2, <1>3, <1>4, <1>5 DEF DirsInv

LEMMA DirsInvKept == DirsInv /\ [Dirs!Next]_dirVars => DirsInv'
<1> SUFFICES ASSUME DirsInv, [Dirs!Next]_dirVars PROVE DirsInv'
  OBVIOUS
<1>1. ASSUME Dirs!Refused \/ Dirs!Fails
      PROVE  DirsInv'
  <2>1. /\ phase' \in {"refused", "failed"}
        /\ UNCHANGED <<mounts, volume, layer, entries, created, pending, made>>
        /\ Volumes' /\ Layers' /\ Dirs!Fs' = Dirs!Fs
    BY <1>1, Untouched DEF DirsInv, Dirs!Refused, Dirs!Fails, Dirs!passVars
  <2>2. Dirs!TypeOK'
    BY <2>1 DEF DirsInv, Dirs!TypeOK
  <2>3. Underway' /\ Ways' /\ Owners'
    BY <2>1 DEF Underway, Ways, Owners, InPass
  <2> QED
    BY <2>1, <2>2, <2>3 DEF DirsInv
<1>2. CASE UNCHANGED dirVars
  <2>1. /\ UNCHANGED <<mounts, volume, layer, phase, entries, created, pending, made>>
        /\ Volumes' /\ Layers' /\ Dirs!Fs' = Dirs!Fs /\ At' = At /\ To' = To
    BY <1>2, Untouched DEF DirsInv, dirVars
  <2>2. Dirs!TypeOK'
    BY <2>1 DEF DirsInv, Dirs!TypeOK
  <2>3. /\ \A p : (Dirs!IsBacked(p)' <=> Dirs!IsBacked(p)) /\ (Owed(p)' <=> Owed(p))
        /\ Left' = Left /\ Settled' = Settled /\ Roots' = Roots /\ Dirs!Dir' = Dirs!Dir
    BY <2>1 DEF Dirs!IsBacked, Owed, Left, Settled, Roots, Dirs!Dir
  <2>4. Underway' /\ Ways' /\ Owners'
    BY <2>1, <2>3 DEF DirsInv, Underway, Ways, Owners, InPass
  <2> QED
    BY <2>1, <2>2, <2>4 DEF DirsInv
<1> QED
  BY <1>1, <1>2, CheckedStep, MkdirStep, MadeStep, ChownCreatedStep, WalkStep, WalkedStep,
     AppStep, HostWritesStep, RestartStep DEF Dirs!Next

-----------------------------------------------------------------------------
LEMMA DirsInvAlways == MCSpec => []DirsInv
<1>1. MCInit => DirsInv
  BY DirsInvInitially DEF MCInit
<1>2. DirsInv /\ [MCNext]_<<part, vars, dirVars>> => DirsInv'
  BY DirsInvKept DEF MCNext
<1> QED
  BY <1>1, <1>2, PTL DEF MCSpec

(* A finished pass leaves a directory where each entry leads, and what is  *)
(* at its place and beneath, and what the pass made on the way to it, is   *)
(* nonroot's, whatever an earlier pass left half done and wherever there   *)
(* are links (prepare.rs 16-53).                                           *)
THEOREM PassOwns == MCSpec => []DirsOwned
<1>1. ASSUME DirsInv
      PROVE  DirsOwned
  <2>0. Dirs!TypeOK
    BY <1>1 DEF DirsInv
  <2> SUFFICES ASSUME phase = "done"
               PROVE  /\ \A e \in Dirs!Listed : Dirs!Fs[Dirs!Leads(e)].kind = "dir"
                      /\ \A p \in Dirs!Trees : Dirs!Fs[p].kind # "none" => Dirs!Fs[p].owner = "nonroot"
                      /\ \A p \in made : Dirs!Fs[p].owner = "nonroot"
    BY <2>0 DEF DirsOwned, Dirs!EntriesOwned, Dirs!WayOwned
  <2>1. /\ entries = <<>> /\ created = {} /\ pending = {}
        /\ \A p \in made : p \in Path /\ Dirs!Fs[p].kind # "none"
    BY <1>1 DEF DirsInv, Underway, InPass
  <2>2. Settled = Dirs!Listed /\ Dirs!Listed \subseteq Path
    BY <2>1, DirsAssumption, ConcatProperties DEF Settled, Left, Dirs!Listed, Dirs!PrepareAssumption
  <2>3. \A p \in Path : ~Owed(p)
    BY <2>1 DEF Owed
  <2>4. \A e \in Dirs!Listed : At[e] = Dirs!Place(e) /\ To[e] = Dirs!Leads(e) /\ At[e] \in Path
    BY <2>0, <2>2, Places
  <2>5. ASSUME NEW p \in Dirs!Trees
        PROVE  p \in Path /\ Roots \cap Dirs!UpTo(p) # {}
    <3>1. PICK e \in Dirs!Listed : p \in Dirs!Below(Dirs!Place(e))
      BY DEF Dirs!Trees
    <3>2. p \in Path /\ At[e] \in Dirs!UpTo(p)
      BY <2>4, <3>1, Order DEF Dirs!Below
    <3> QED
      BY <2>2, <3>2 DEF Roots
  <2> QED
    BY <1>1, <2>1, <2>2, <2>3, <2>4, <2>5 DEF DirsInv, Owners, InPass
<1> QED
  BY <1>1, DirsInvAlways, PTL

(* A container gives away nothing but the trees at the entries' places and *)
(* what the pass made: a link on the way to an entry is followed to its    *)
(* place, one met there or below is not (prepare.rs 16-53).                *)
THEOREM NothingElseGiven == MCSpec => OnlyOwnTrees
<1> DEFINE Given(p) == Dirs!Fs[p].kind # "none" /\ Dirs!Fs[p].owner = "root" /\ Dirs!Fs'[p].owner = "nonroot"
           Allowed == \A p \in Path : phase' # "start" /\ Given(p) => p \in Dirs!Trees \cup made
<1>1. ASSUME DirsInv, [MCNext]_<<part, vars, dirVars>>, phase' # "start",
             NEW p \in Path, Given(p)
      PROVE  p \in Dirs!Trees \cup made
  <2>0. Dirs!TypeOK /\ Volumes /\ Layers
    BY <1>1 DEF DirsInv
  <2>1. CASE UNCHANGED <<mounts, volume, layer>>
    BY <1>1, <2>0, <2>1, Untouched
  <2>2. ASSUME NEW q \in Path, NEW new \in [kind : {"dir", "file", "link"}, owner : {"root", "nonroot"}],
               Dirs!Fs[q].kind = "none", new.kind = "link" => q \in DOMAIN Target,
               Dirs!Parent(q) # Dirs!AppRoot => Dirs!Fs[Dirs!Parent(q)].kind = "dir",
               Dirs!Store([Dirs!Fs EXCEPT ![q] = new]), mounts' = mounts
        PROVE  FALSE
    <3>1. Dirs!Fs'[q] = new /\ \A r \in Path : r # q => Dirs!Fs'[r] = Dirs!Fs[r]
      BY <1>1, <2>0, <2>2, Created
    <3> QED
      BY <1>1, <2>2, <3>1
  <2>3. ASSUME NEW q \in Path, Dirs!Chown(q), mounts' = mounts
        PROVE  p = q
    <3>1. \A r \in Path : r # q => Dirs!Fs'[r].owner = Dirs!Fs[r].owner
      BY <1>1, <2>0, <2>3, Chowned
    <3> QED
      BY <1>1, <3>1
  <2>4. CASE Dirs!Mkdir
    <3>1. PICK w \in Dirs!UpTo(Dirs!Dir) :
            /\ Dirs!Fs[Dirs!Place(w)].kind = "none"
            /\ Dirs!Parent(Dirs!Place(w)) # Dirs!AppRoot =>
                 Dirs!Fs[Dirs!Parent(Dirs!Place(w))].kind = "dir"
            /\ Dirs!Store([Dirs!Fs EXCEPT ![Dirs!Place(w)] = Dirs!RootDir])
      BY <2>4 DEF Dirs!Mkdir
    <3>2. Dirs!Place(w) \in Path /\ mounts' = mounts
      BY <1>1, <2>0, <2>4, <3>1, FirstLeft, Places DEF Dirs!Mkdir
    <3>3. /\ Dirs!RootDir \in [kind : {"dir", "file", "link"}, owner : {"root", "nonroot"}]
          /\ Dirs!RootDir.kind # "link"
      BY DEF Dirs!RootDir
    <3> QED
      BY <2>2, <3>1, <3>2, <3>3
  <2>5. CASE Dirs!AppWrites
    <3>1. PICK q \in Path, kind \in {"file", "dir", "link"} :
            /\ Dirs!Fs[Dirs!Parent(q)].kind = "dir" /\ Dirs!Fs[q].kind = "none"
            /\ kind = "link" => q \in DOMAIN Target
            /\ Dirs!Store([Dirs!Fs EXCEPT ![q] = [kind |-> kind, owner |-> "nonroot"]])
      BY <2>5 DEF Dirs!AppWrites, Dirs!AppOwns
    <3>2. [kind |-> kind, owner |-> "nonroot"]
            \in [kind : {"dir", "file", "link"}, owner : {"root", "nonroot"}]
      OBVIOUS
    <3>3. mounts' = mounts
      BY <2>5 DEF Dirs!AppWrites
    <3> QED
      BY <2>2, <3>1, <3>2, <3>3
  <2>6. CASE Dirs!AppRemoves
    <3>1. PICK q \in Path \ mounts :
            /\ \A r \in Dirs!Below(q) \ {q} : Dirs!Fs[r].kind = "none"
            /\ Dirs!Store([Dirs!Fs EXCEPT ![q] = Dirs!Nothing])
            /\ mounts' = mounts
      BY <2>6 DEF Dirs!AppRemoves
    <3>2. Dirs!Fs'[q] = Dirs!Nothing /\ \A r \in Path : r # q => Dirs!Fs'[r] = Dirs!Fs[r]
      BY <2>0, <3>1, Removed
    <3> QED
      BY <1>1, <3>1, <3>2 DEF Dirs!Nothing
  <2>7. CASE Dirs!ChownCreated
    <3>1. PICK q \in created : Dirs!Chown(q)
      BY <2>7 DEF Dirs!ChownCreated
    <3>2. phase = "walk" /\ q \in Path /\ mounts' = mounts
      BY <2>0, <2>7, <3>1 DEF Dirs!ChownCreated, Dirs!TypeOK
    <3> QED
      BY <1>1, <2>3, <3>1, <3>2 DEF DirsInv, Ways
  <2>8. CASE Dirs!Walk
    <3>1. PICK q \in pending : Dirs!Chown(q)
      BY <2>8 DEF Dirs!Walk
    <3>2. phase = "walk" /\ q \in Path /\ mounts' = mounts
      BY <2>0, <2>8, <3>1 DEF Dirs!Walk, Dirs!TypeOK
    <3>3. Dirs!Dir \in Path /\ Dirs!Dir \in Dirs!Listed /\ q \in Dirs!Below(At[Dirs!Dir])
      BY <1>1, <3>1, <3>2, FirstLeft DEF DirsInv, Ways
    <3>4. At[Dirs!Dir] = Dirs!Place(Dirs!Dir)
      BY <2>0, <3>3, Places
    <3> QED
      BY <2>3, <3>1, <3>2, <3>3, <3>4 DEF Dirs!Trees
  <2> QED
    BY <1>1, <2>1, <2>4, <2>5, <2>6, <2>7, <2>8
       DEF MCNext, dirVars, Dirs!Next, Dirs!Refused, Dirs!Checked, Dirs!Made, Dirs!Walked, Dirs!Fails,
           Dirs!AppStarts, Dirs!HostWrites, Dirs!Restart
<1>2. DirsInv /\ [MCNext]_<<part, vars, dirVars>> => [Allowed]_(Dirs!vars)
  BY <1>1
<1> QED
  BY <1>2, DirsInvAlways, PTL DEF MCSpec, OnlyOwnTrees, Dirs!OnlyOwnTrees

(* What the app stored in a required directory is there in the next        *)
(* container of the same mounts: no pass ends without a mount behind each  *)
(* (mounts.rs 38-64).                                                      *)
THEOREM StoredIsKept == MCSpec => StoredSurvives
<1> DEFINE Kept == phase = "running" /\ phase' = "start" /\ mounts' = mounts =>
                     \A i \in DOMAIN Required : \A p \in Dirs!Below(Required[i]) :
                       Dirs!Fs[p].kind # "none" => Dirs!Fs'[p] = Dirs!Fs[p]
<1>1. ASSUME DirsInv, [MCNext]_<<part, vars, dirVars>>,
             phase = "running", phase' = "start", mounts' = mounts,
             NEW i \in DOMAIN Required, NEW p \in Dirs!Below(Required[i])
      PROVE  Dirs!Fs'[p] = Dirs!Fs[p]
  <2>1. Dirs!IsBacked(Required[i])
    BY <1>1 DEF DirsInv, Underway, InPass
  <2>2. Required[i] \in Path /\ p \in Path
    BY DirsAssumption DEF Dirs!PrepareAssumption, Dirs!Below
  <2>3. PICK m \in mounts : m \in Dirs!UpTo(Required[i])
    BY <2>1 DEF Dirs!IsBacked
  <2>4. Dirs!Mounted(p)
    <3>1. m \in Path /\ Required[i] \in Dirs!UpTo(p)
      BY <2>2, <2>3, Order
    <3> QED
      BY <2>2, <2>3, <3>1, Order DEF Dirs!Mounted
  <2>5. volume' = volume
    BY <1>1 DEF MCNext, dirVars, Dirs!Next, Dirs!Refused, Dirs!Checked, Dirs!Mkdir, Dirs!Made,
                Dirs!ChownCreated, Dirs!Walk, Dirs!Walked, Dirs!Fails, Dirs!AppStarts, Dirs!AppWrites,
                Dirs!AppRemoves, Dirs!HostWrites,
                Dirs!Restart
  <2>6. Dirs!Mounted(p)'
    BY <1>1, <2>4 DEF Dirs!Mounted
  <2> QED
    BY <2>2, <2>4, <2>5, <2>6 DEF Dirs!Fs
<1>2. DirsInv /\ [MCNext]_<<part, vars, dirVars>> => [Kept]_(Dirs!vars)
  BY <1>1
<1> QED
  BY <1>2, DirsInvAlways, PTL DEF MCSpec, StoredSurvives, Dirs!StoredSurvives
=============================================================================
