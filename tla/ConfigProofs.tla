---------------------------- MODULE ConfigProofs ----------------------------
(***************************************************************************)
(* Proofs about Bundle.tla and KeyText.tla, for every table, every set of  *)
(* edits and every length of a key, as the parts MCConfig.tla makes them;  *)
(* Wg0Proofs.tla has those about the third part, wg0.                      *)
(*                                                                         *)
(* That a spoke is a host of the hub's network is shown of numbers and     *)
(* powers of two.  Induction is by the least element of a set, and that a  *)
(* power doubles is FS_SUBSET's: a set with one element more has twice as  *)
(* many subsets.                                                           *)
(***************************************************************************)
EXTENDS MCConfig, TLAPS, SequenceTheorems, FiniteSetTheorems, WellFoundedInduction

-----------------------------------------------------------------------------
Chars == {"letter", "=", "other"}
Length == 4 * Groups

(* A prefix of the shape is one character by character.                    *)
LEMMA PrefixOfShape ==
  ASSUME NEW s \in Seq(Chars)
  PROVE  /\ Key!IsPrefix(s, Key!Shape(Length)) <=>
              Len(s) <= Length /\ \A i \in 1..Len(s) : s[i] = Key!Shape(Length)[i]
         /\ s = Key!Shape(Length) <=> Len(s) = Length /\ Key!IsPrefix(s, Key!Shape(Length))
<1> DEFINE t == Key!Shape(Length)
<1>0. Length \in Nat
  BY TextAssumption DEF Length, Key!KeyTextAssumption
<1>1. /\ t \in Seq(Chars) /\ Len(t) = Length
      /\ \A i \in 1..Length : t[i] = IF i = Length THEN "=" ELSE "letter"
  <2>1. t \in [1..Length -> Chars]
    BY DEF Key!Shape, Chars, Length
  <2> QED
    BY <1>0, <2>1 DEF Key!Shape, Length
<1> HIDE DEF t
<1>2. ASSUME Len(s) <= Length
      PROVE  SubSeq(s, 1, Len(s)) = SubSeq(t, 1, Len(s)) <=> \A i \in 1..Len(s) : s[i] = t[i]
  <2> DEFINE a == SubSeq(s, 1, Len(s))  b == SubSeq(t, 1, Len(s))
  <2>0. Len(s) \in Nat /\ 1 \in Int
    OBVIOUS
  <2>1. a = s
    BY SubSeqFull
  <2>2. \A i \in 1..Len(s) : t[i] \in Chars
    BY <1>0, <1>1, <1>2
  <2>3. /\ b \in Seq(Chars) /\ Len(b) = Len(s)
        /\ \A i \in 1..Len(s) : b[i] = t[i]
    <3>1. /\ b \in Seq(Chars) /\ Len(b) = IF 1 <= Len(s) THEN Len(s) - 1 + 1 ELSE 0
          /\ \A i \in 1..Len(s) - 1 + 1 : b[i] = t[1 + i - 1]
      BY <2>0, <2>2, SubSeqProperties
    <3> QED
      BY <2>0, <3>1
  <2> QED
    BY <2>1, <2>3, SeqEqual
<1>3. Key!IsPrefix(s, t) <=> Len(s) <= Length /\ \A i \in 1..Len(s) : s[i] = t[i]
  BY <1>1, <1>2 DEF Key!IsPrefix
<1>4. s = t <=> Len(s) = Length /\ \A i \in 1..Len(s) : s[i] = t[i]
  BY <1>0, <1>1, SeqEqual
<1> QED
  BY <1>0, <1>1, <1>3, <1>4 DEF t

(* What has been read of a text that may still be a key's: letters, but in *)
(* the last two places, where the padding goes on to the end; the bytes of *)
(* the groups that are over; and the padding of the one under way.         *)
Reading ==
  /\ Len(read) <= Length
  /\ \A i \in 1..Len(read) : i < Length - 1 => read[i] = "letter"
  /\ \A i \in 1..Len(read) : read[i] \in {"letter", "="}
  /\ Len(read) = Length /\ read[Length - 1] = "=" => read[Length] = "="
  /\ Len(read) < Length - 1 => pad = 0
  /\ Len(read) = Length - 1 => pad = IF read[Length - 1] = "=" THEN 1 ELSE 0
  /\ Len(read) < Length => out = 3 * (Len(read) \div 4)
  /\ Len(read) = Length =>
       /\ pad = 0
       /\ out = CASE read[Length] = "letter" -> 3 * Groups
                  [] read[Length] = "=" /\ read[Length - 1] = "letter" -> 3 * Groups - 1
                  [] read[Length - 1] = "=" -> 3 * Groups - 2

KeyInv ==
  /\ read \in Seq(Chars) /\ verdict \in {"reading", "key", "refused"}
  /\ verdict = "reading" => Reading
  /\ verdict = "key" => read = Key!Shape(Length)
  /\ verdict = "refused" => ~Key!IsPrefix(read, Key!Shape(Length))

LEMMA KeyInvInitially == Key!Init => KeyInv
<1> SUFFICES ASSUME Key!Init PROVE KeyInv
  OBVIOUS
<1>1. Length \in Nat /\ Length >= 4 /\ read = <<>> /\ verdict = "reading" /\ pad = 0 /\ out = 0
  BY TextAssumption DEF Length, Key!KeyTextAssumption, Key!Init
<1>2. read \in Seq(Chars) /\ Len(read) = 0
  BY <1>1
<1>3. Reading
  BY <1>1, <1>2 DEF Reading
<1> QED
  BY <1>1, <1>2, <1>3 DEF KeyInv

LEMMA KeyInvKept == KeyInv /\ Key!Next => KeyInv'
<1> SUFFICES ASSUME KeyInv, Key!Next PROVE KeyInv'
  OBVIOUS
<1>0. /\ Groups \in Nat \ {0} /\ Bytes = 3 * Groups - 1 /\ Length = 4 * Groups /\ Length \in Nat
      /\ Len(read) \in Nat /\ Key!Shape(Length)' = Key!Shape(Length)
  BY TextAssumption DEF Length, Key!KeyTextAssumption, KeyInv, Key!Shape
<1>s. \A i \in 1..Length : Key!Shape(Length)[i] = IF i = Length THEN "=" ELSE "letter"
  BY <1>0 DEF Key!Shape
<1>1. ASSUME NEW c \in Chars, Key!Read(c) \/ Key!Refuse(c)
      PROVE  /\ verdict = "reading" /\ Reading /\ Len(read) < Length
             /\ read' \in Seq(Chars) /\ Len(read') = Len(read) + 1
             /\ \A i \in 1..Len(read) : read'[i] = read[i]
             /\ read'[Len(read) + 1] = c
  BY <1>0, <1>1 DEF KeyInv, Key!Read, Key!Refuse, Length
<1>2. ASSUME NEW c \in Chars, Key!Read(c)
      PROVE  KeyInv'
  <2>1. verdict' = "reading"
    BY <1>1, <1>2 DEF Key!Read
  <2> DEFINE n == Len(read)  q == n \div 4  r == n % 4
  <2>2. n = 4 * q + r /\ q \in Nat /\ r \in 0..3
    BY <1>0
  <2>3. r = 3 => (n + 1) \div 4 = q + 1
    BY <2>2
  <2>4. r # 3 => (n + 1) \div 4 = q
    BY <2>2
  <2>5. c = "=" => n >= Length - 2
    BY <1>0, <1>2, <2>2 DEF Key!Read, Key!Takes, Key!At, Key!LastGroup
  <2>6. c \in {"letter", "="} /\ (c = "letter" => pad = 0)
    BY <1>2 DEF Key!Read, Key!Takes
  <2> DEFINE pads == pad + (IF c = "=" THEN 1 ELSE 0)
  <2>7. IF r = 3 THEN pad' = 0 /\ out' = out + 3 - pads ELSE pad' = pads /\ out' = out
    BY <1>2 DEF Key!Read, Key!At
  <2>8. /\ Length' = Length /\ Groups' = Groups
        /\ Len(read') = n + 1 /\ read'[n + 1] = c /\ \A i \in 1..n : read'[i] = read[i]
    BY <1>1, <1>2 DEF Length
  <2>9. r = 3 /\ n + 1 # Length => n + 1 < Length - 1
    <3>1. n < Length
      BY <1>1, <1>2
    <3>2. r = 3 /\ n + 1 # Length => q + 1 # Groups /\ q + 1 <= Groups
      BY <1>0, <2>2, <3>1
    <3> HIDE DEF n, q, r
    <3> QED
      BY <1>0, <2>2, <3>2
  <2>10. Reading'
    <3> HIDE DEF q, r
    <3>0. Reading /\ n \in Nat /\ n < Length
      BY <1>0, <1>1, <1>2
    <3> HIDE DEF n
    <3>1. n + 1 <= Length /\ \A i \in 1..n + 1 : i < Length - 1 => read'[i] = "letter"
      BY <1>0, <2>5, <2>6, <2>8, <3>0 DEF Reading, n
    <3>2. \A i \in 1..n + 1 : read'[i] \in {"letter", "="}
      BY <1>0, <2>6, <2>8, <3>0 DEF Reading, n
    <3>3. n + 1 = Length /\ read'[Length - 1] = "=" => read'[Length] = "="
      <4>1. n + 1 = Length => Length - 1 \in 1..n /\ pad = IF read[Length - 1] = "=" THEN 1 ELSE 0
        BY <1>0, <3>0 DEF Reading, n
      <4> QED
        BY <2>6, <2>8, <4>1
    <3>4. n + 1 < Length - 1 => pad' = 0
      <4>1. n + 1 < Length - 1 => pads = 0
        BY <1>0, <2>5, <2>6, <3>0 DEF Reading, n
      <4> QED
        BY <2>7, <4>1
    <3>5. n + 1 = Length - 1 => pad' = IF read'[Length - 1] = "=" THEN 1 ELSE 0
      <4>1. n + 1 = Length - 1 => r # 3
        BY <1>0, <2>2
      <4>2. n + 1 = Length - 1 => pads = IF c = "=" THEN 1 ELSE 0
        BY <1>0, <3>0 DEF Reading, n
      <4>3. n + 1 = Length - 1 => read'[Length - 1] = c
        BY <1>0, <2>8, <3>0
      <4> QED
        BY <2>7, <4>1, <4>2, <4>3
    <3>6. n + 1 < Length => out' = 3 * ((n + 1) \div 4)
      <4>1. CASE r = 3
        <5>1. n + 1 < Length => pads = 0
          <6>1. n + 1 < Length => n + 1 < Length - 1 /\ c # "="
            BY <1>0, <2>5, <2>9, <3>0, <4>1
          <6>2. n + 1 < Length => pad = 0
            BY <1>0, <3>0, <6>1 DEF Reading, n
          <6> QED
            BY <6>1, <6>2
        <5>2. n + 1 < Length => out = 3 * q
          BY <1>0, <2>2, <3>0 DEF Reading, n, q
        <5>3. n + 1 < Length => out' = 3 * q + 3 - 0
          BY <2>7, <4>1, <5>1, <5>2
        <5>4. q \in Nat /\ (n + 1) \div 4 = q + 1
          BY <2>2, <2>3, <4>1
        <5> QED
          BY <5>3, <5>4
      <4>2. CASE r # 3
        <5>1. n + 1 < Length => out = 3 * q
          BY <1>0, <2>2, <3>0 DEF Reading, n, q
        <5> QED
          BY <2>4, <2>7, <4>2, <5>1
      <4> QED
        BY <4>1, <4>2
    <3>7. n + 1 = Length =>
            /\ pad' = 0
            /\ out' = 3 * Groups - pad - (IF c = "=" THEN 1 ELSE 0)
      <4>1. n + 1 = Length => r = 3 /\ q = Groups - 1
        BY <1>0, <2>2
      <4>2. n + 1 = Length => out = 3 * (Groups - 1) /\ pad \in {0, 1}
        <5>1. n + 1 = Length => out = 3 * q /\ pad \in {0, 1}
          BY <1>0, <3>0 DEF Reading, n, q
        <5> QED
          BY <4>1, <5>1
      <4>3. n + 1 = Length => out + 3 - pads = 3 * Groups - pad - (IF c = "=" THEN 1 ELSE 0)
        BY <1>0, <4>2
      <4> QED
        BY <2>7, <4>1, <4>3
    <3>8. n + 1 = Length => pad = IF read'[Length - 1] = "=" THEN 1 ELSE 0
      <4>1. n + 1 = Length => Length - 1 \in 1..n /\ pad = IF read[Length - 1] = "=" THEN 1 ELSE 0
        BY <1>0, <3>0 DEF Reading, n
      <4> QED
        BY <2>8, <4>1
    <3> QED
      BY <1>0, <2>6, <2>8, <3>0, <3>1, <3>2, <3>3, <3>4, <3>5, <3>6, <3>7, <3>8 DEF Reading
  <2> QED
    BY <1>1, <1>2, <2>1, <2>10 DEF KeyInv
<1>3. ASSUME NEW c \in Chars, Key!Refuse(c)
      PROVE  KeyInv'
  <2>1. verdict' = "refused"
    BY <1>3 DEF Key!Refuse
  <2> DEFINE n == Len(read)  q == n \div 4  r == n % 4
  <2>2. n = 4 * q + r /\ q \in Nat /\ r \in 0..3
    BY <1>0
  <2>3. \E i \in 1..Len(read') : read'[i] # Key!Shape(Length)[i]
    <3>1. CASE c = "letter"
      <4>1. n = Length - 1 /\ read'[n] = "="
        BY <1>0, <1>1, <1>3, <3>1 DEF Reading, Key!Refuse, Key!Takes
      <4> QED
        BY <1>0, <1>s, <1>1, <1>3, <4>1
    <3>2. CASE c = "="
      <4>1. n + 1 # Length
        BY <1>0, <1>1, <1>3, <2>2, <3>2 DEF Key!Refuse, Key!Takes, Key!At, Key!LastGroup
      <4> QED
        BY <1>0, <1>s, <1>1, <1>3, <3>2, <4>1
    <3>3. CASE c = "other"
      BY <1>0, <1>s, <1>1, <1>3, <3>3
    <3> QED
      BY <1>3, <3>1, <3>2, <3>3 DEF Chars
  <2>4. ~Key!IsPrefix(read', Key!Shape(Length))
    BY <1>1, <1>3, <2>3, PrefixOfShape
  <2> QED
    BY <1>0, <1>1, <1>3, <2>1, <2>4 DEF KeyInv
<1>4. ASSUME Key!Decoded
      PROVE  KeyInv'
  <2>1. /\ verdict = "reading" /\ Reading /\ Len(read) = Length /\ read' = read
        /\ verdict' = IF out = Bytes THEN "key" ELSE "refused"
    BY <1>4 DEF Key!Decoded, KeyInv, Length
  <2>2. CASE out = Bytes
    <3>1. read[Length] = "=" /\ read[Length - 1] = "letter"
      BY <1>0, <2>1, <2>2 DEF Reading
    <3>2. \A i \in 1..Len(read) : read[i] = Key!Shape(Length)[i]
      BY <1>0, <1>s, <2>1, <3>1 DEF Reading
    <3> QED
      BY <1>0, <2>1, <2>2, <3>2, PrefixOfShape DEF KeyInv
  <2>3. CASE out # Bytes
    <3>1. read[Length] # "=" \/ read[Length - 1] # "letter"
      BY <1>0, <2>1, <2>3 DEF Reading
    <3>2. \E i \in 1..Len(read) : read[i] # Key!Shape(Length)[i]
      BY <1>0, <1>s, <2>1, <3>1
    <3> QED
      BY <1>0, <2>1, <2>3, <3>2, PrefixOfShape DEF KeyInv
  <2> QED
    BY <2>2, <2>3
<1> QED
  BY <1>2, <1>3, <1>4 DEF Key!Next, Chars

(* The shape of the texts accepted is KeyText.tla's KeyShape               *)
(* (bundle.rs 165-211).                                                    *)
LEMMA ShapeOfKeys == KeyInv => Key!KeyShape
<1> SUFFICES ASSUME KeyInv PROVE Key!KeyShape
  OBVIOUS
<1>1. Len(Key!Shape(Length)) \in Nat /\ read \in Seq(Chars) /\ Length = 4 * Groups
  BY TextAssumption DEF KeyInv, Key!Shape, Length, Key!KeyTextAssumption
<1>2. read = Key!Shape(Length) => Key!IsPrefix(read, Key!Shape(Length))
  BY <1>1, PrefixOfShape
<1> QED
  BY <1>1, <1>2 DEF KeyInv, Key!KeyShape

-----------------------------------------------------------------------------
(* The table under the edits: a table still, its rows in order.            *)
LEMMA OneField ==
  ASSUME NEW t, Hub!IsTable(t), NEW f, f # "peers", NEW v, NEW u, u = [t EXCEPT ![f] = v]
  PROVE  Hub!IsTable(u)
<1>1. u = [x \in {"schema", "hub_version", "hub", "peers"} |-> u[x]] /\ u.peers = t.peers
  BY DEF Hub!IsTable
<1> QED
  BY <1>1 DEF Hub!IsTable

LEMMA OfARow ==
  ASSUME NEW t, Hub!IsTable(t), NEW i \in DOMAIN t.peers, NEW r, NEW u, u = [t EXCEPT !.peers[i] = r]
  PROVE  Hub!IsTable(u)
<1> DEFINE s == t.peers
           w == [s EXCEPT ![i] = r]
           S == {w[j] : j \in DOMAIN w}
<1>1. u = [x \in {"schema", "hub_version", "hub", "peers"} |-> u[x]] /\ u.peers = w
  BY DEF Hub!IsTable
<1>2. s \in [1..Len(s) -> {s[j] : j \in DOMAIN s}] /\ Len(s) \in Nat
  BY DEF Hub!IsTable, Hub!IsRows
<1>3. DOMAIN w = 1..Len(s) /\ w = [j \in 1..Len(s) |-> w[j]]
  BY <1>2
<1>4. w \in [1..Len(s) -> S]
  BY <1>3
<1> HIDE DEF S, w
<1>5. w \in Seq(S)
  BY <1>2, <1>4, SeqDef
<1> QED
  BY <1>1, <1>5 DEF Hub!IsTable, Hub!IsRows, S

LEMMA WithoutARow ==
  ASSUME NEW t, Hub!IsTable(t), NEW i \in DOMAIN t.peers,
         NEW u, u = [t EXCEPT !.peers = SubSeq(@, 1, i - 1) \o SubSeq(@, i + 1, Len(@))]
  PROVE  Hub!IsTable(u)
<1> DEFINE s == t.peers
           S == {s[j] : j \in DOMAIN s}
           upper == SubSeq(s, 1, i - 1)
           lower == SubSeq(s, i + 1, Len(s))
           w == upper \o lower
<1>1. u = [x \in {"schema", "hub_version", "hub", "peers"} |-> u[x]] /\ u.peers = w
  BY DEF Hub!IsTable
<1>2. s \in Seq(S) /\ DOMAIN s = 1..Len(s) /\ Len(s) \in Nat /\ i \in 1..Len(s)
  BY DEF Hub!IsTable, Hub!IsRows
<1>3. \A j \in 1..Len(s) : s[j] \in S
  BY <1>2
<1> HIDE DEF S, s
<1>4. upper \in Seq(S)
  <2>1. \A j \in 1..i - 1 : s[j] \in S
    BY <1>2, <1>3
  <2> QED
    BY <1>2, <2>1, SubSeqProperties
<1>5. lower \in Seq(S)
  <2>1. \A j \in i + 1..Len(s) : s[j] \in S
    BY <1>2, <1>3
  <2> QED
    BY <1>2, <2>1, SubSeqProperties
<1>6. w \in Seq(S)
  BY <1>4, <1>5, ConcatProperties
<1> HIDE DEF w
<1>7. Len(w) \in Nat /\ w \in [1..Len(w) -> S] /\ DOMAIN w = 1..Len(w)
  BY <1>6, LenProperties
<1>8. w \in [1..Len(w) -> {w[j] : j \in DOMAIN w}]
  BY <1>7
<1>9. w \in Seq({w[j] : j \in DOMAIN w})
  BY <1>7, <1>8, SeqDef
<1>10. Hub!IsRows(w)
  BY <1>9 DEF Hub!IsRows
<1>11. Hub!IsRows(u.peers)
  BY <1>1, <1>10
<1> QED
  BY <1>1, <1>11 DEF Hub!IsTable

LEMMA TableKept == Hub!IsTable(table) /\ Hub!Edit => Hub!IsTable(table')
<1> SUFFICES ASSUME Hub!IsTable(table), Hub!Edit PROVE Hub!IsTable(table')
  OBVIOUS
<1>1. ASSUME NEW e \in TableEdits, table' = [table EXCEPT ![e.field] = e.value]
      PROVE  Hub!IsTable(table')
  BY <1>1, TableAssumption, OneField DEF Hub!BundleAssumption
<1>2. ASSUME NEW e \in HubEdits, table' = [table EXCEPT !.hub[e.field] = e.value]
      PROVE  Hub!IsTable(table')
  BY <1>2, OneField
<1>3. ASSUME NEW e \in PeerEdits, NEW i \in DOMAIN table.peers,
             table' = [table EXCEPT !.peers[i][e.field] = e.value]
      PROVE  Hub!IsTable(table')
  BY <1>3, OfARow
<1>4. ASSUME NEW i \in DOMAIN table.peers,
             table' = [table EXCEPT !.peers = SubSeq(@, 1, i - 1) \o SubSeq(@, i + 1, Len(@))]
      PROVE  Hub!IsTable(table')
  BY <1>4, WithoutARow
<1> QED
  BY <1>1, <1>2, <1>3, <1>4 DEF Hub!Edit


-----------------------------------------------------------------------------
(* An accepted table's row is the one of its key, and the hub's key is no  *)
(* row's: `select` has nothing to choose between.                          *)
LEMMA OneRow ==
  ASSUME NEW t, Hub!IsTable(t), Hub!Parses(t), NEW i \in DOMAIN t.peers
  PROVE  /\ Hub!RowsOf(t, t.peers[i].public_key) = {i}
         /\ i = CHOOSE j \in {i} : \A k \in {i} : j <= k
         /\ t.peers[i].public_key # t.hub.public_key
<1>1. i \in Int
  BY DEF Hub!IsTable, Hub!IsRows
<1>2. \A j \in DOMAIN t.peers : j # i => t.peers[j].public_key # t.peers[i].public_key
  BY DEF Hub!Parses, Hub!Unique
<1>3. t.peers[i].public_key # t.hub.public_key
  BY DEF Hub!Parses, Hub!Unique
<1>4. Hub!RowsOf(t, t.peers[i].public_key) = {i}
  BY <1>2 DEF Hub!RowsOf
<1> QED
  BY <1>1, <1>3, <1>4

LEMMA Selected ==
  ASSUME NEW t, Hub!IsTable(t), Hub!Parses(t), NEW i \in DOMAIN t.peers
  PROVE  Hub!Select(t, t.peers[i].public_key) =
           {[address |-> t.peers[i].address, hub_public_key |-> t.hub.public_key,
             endpoint |-> Hub!OrHubs(t.peers[i].endpoint, t.hub.endpoint),
             allowed_ips |-> Hub!OrHubs(t.peers[i].allowed_ips, t.hub.allowed_ips),
             keepalive |-> Hub!OrHubs(t.peers[i].persistent_keepalive, t.hub.persistent_keepalive)]}
<1> DEFINE k == t.peers[i].public_key
<1>1. Hub!RowsOf(t, k) = {i} /\ i = CHOOSE j \in {i} : \A l \in {i} : j <= l
  BY OneRow
<1> HIDE DEF k
<1>2. Hub!RowsOf(t, k) # {}
  BY <1>1
<1>3. i = CHOOSE j \in Hub!RowsOf(t, k) : \A l \in Hub!RowsOf(t, k) : j <= l
  BY <1>1
<1> QED
  BY <1>2, <1>3 DEF Hub!Select, k

LEMMA NotEnrolled ==
  ASSUME NEW t, NEW k, \A i \in DOMAIN t.peers : t.peers[i].public_key # k
  PROVE  Hub!Select(t, k) = {} /\ Hub!RowsOf(t, k) = {}
BY DEF Hub!Select, Hub!RowsOf

(* One row for each key and none for the hub's (bundle.rs 329-356).        *)
LEMMA Rows == Hub!IsTable(table) => Hub!OneRowPerKey
<1> SUFFICES ASSUME Hub!IsTable(table), Hub!Parses(table)
             PROVE  /\ Hub!Select(table, table.hub.public_key) = {}
                    /\ \A i \in DOMAIN table.peers :
                         \A eff \in Hub!Select(table, table.peers[i].public_key) :
                           eff.address = table.peers[i].address
  BY DEF Hub!OneRowPerKey
<1>1. Hub!Select(table, table.hub.public_key) = {}
  BY OneRow, NotEnrolled
<1>2. ASSUME NEW i \in DOMAIN table.peers, NEW eff \in Hub!Select(table, table.peers[i].public_key)
      PROVE  eff.address = table.peers[i].address
  BY <1>2, Selected
<1> QED
  BY <1>1, <1>2

(* What `select` takes for a field passed that field's check, in the row   *)
(* or in [hub] (bundle.rs 300-324).                                        *)
LEMMA Checked ==
  ASSUME NEW t, Hub!Parses(t), NEW i \in DOMAIN t.peers
  PROVE  /\ Hub!Endpoint(Hub!OrHubs(t.peers[i].endpoint, t.hub.endpoint))
         /\ Hub!AllowedIps(Hub!OrHubs(t.peers[i].allowed_ips, t.hub.allowed_ips))
         /\ Hub!Keepalive(Hub!OrHubs(t.peers[i].persistent_keepalive, t.hub.persistent_keepalive))
<1>1. /\ Hub!Settings(t.hub) /\ Hub!Settings(t.peers[i])
      /\ t.hub.endpoint # {} /\ t.hub.allowed_ips # {} /\ t.hub.persistent_keepalive # {}
  BY DEF Hub!Parses, Hub!Hub, Hub!Peer
<1>2. ASSUME NEW own, NEW hubs, hubs # {}
      PROVE  Hub!OrHubs(own, hubs) \in own \cup hubs
  BY <1>2 DEF Hub!OrHubs, Hub!Only
<1>3. Hub!OrHubs(t.peers[i].endpoint, t.hub.endpoint) \in t.peers[i].endpoint \cup t.hub.endpoint
  BY <1>1, <1>2
<1>4. Hub!OrHubs(t.peers[i].allowed_ips, t.hub.allowed_ips)
        \in t.peers[i].allowed_ips \cup t.hub.allowed_ips
  BY <1>1, <1>2
<1>5. Hub!OrHubs(t.peers[i].persistent_keepalive, t.hub.persistent_keepalive)
        \in t.peers[i].persistent_keepalive \cup t.hub.persistent_keepalive
  BY <1>1, <1>2
<1> QED
  BY <1>1, <1>3, <1>4, <1>5 DEF Hub!Settings

LEMMA Usable == Hub!IsTable(table) => Hub!UsableEntry
<1> SUFFICES ASSUME Hub!IsTable(table), Hub!Parses(table),
                    NEW k \in Keys, NEW eff \in Hub!Select(table, k)
             PROVE  /\ {eff.endpoint.port, eff.keepalive} \subseteq 1..Hub!MaxU16
                    /\ eff.allowed_ips # {} /\ eff.endpoint.host # ""
                    /\ \A c \in eff.allowed_ips : c.prefix <= IF c.v6 THEN 4 * W ELSE W
  BY DEF Hub!UsableEntry
<1>1. PICK i \in DOMAIN table.peers : table.peers[i].public_key = k
  BY NotEnrolled
<1>2. Hub!Endpoint(eff.endpoint) /\ Hub!AllowedIps(eff.allowed_ips) /\ Hub!Keepalive(eff.keepalive)
  BY <1>1, Selected, Checked
<1>3. {eff.endpoint.port, eff.keepalive} \subseteq 1..Hub!MaxU16 /\ eff.endpoint.host # ""
  BY <1>2 DEF Hub!Endpoint, Hub!Port, Hub!Keepalive
<1>4. eff.allowed_ips # {} /\ \A c \in eff.allowed_ips : Hub!AnyCidr(c)
  BY <1>2 DEF Hub!AllowedIps
<1>5. ASSUME NEW c, Hub!AnyCidr(c)
      PROVE  c.prefix <= IF c.v6 THEN 4 * W ELSE W
  <2>1. W \in Nat /\ c.prefix \in 0..(IF c.v6 THEN 4 * W ELSE W)
    BY <1>5, TableAssumption DEF Hub!AnyCidr, Hub!BundleAssumption
  <2> QED
    BY <2>1
<1> QED
  BY <1>3, <1>4, <1>5

-----------------------------------------------------------------------------
(* Numbers and their bits.                                                 *)
LEMMA LeastOf ==
  ASSUME NEW T, T \subseteq Nat, T # {}
  PROVE  \E m \in T : \A k \in T : m <= k
<1>1. PICK m \in T : \A k \in T : ~ (<<k, m>> \in OpToRel(<, Nat))
  BY WFMin, NatLessThanWellFounded, Zenon
<1>2. \A k \in T : ~ (k < m)
  BY <1>1, Zenon DEF OpToRel
<1>3. m \in Nat /\ \A k \in T : k \in Nat
  OBVIOUS
<1>4. \A k \in T : m <= k
  BY <1>2, <1>3
<1> QED
  BY <1>4

(* Half of the sets of numbers up to n + 1 are without n + 1.              *)
LEMMA Halves ==
  ASSUME NEW n \in Nat
  PROVE  2^n \in Nat /\ 2^(n + 1) = 2 * 2^n
<1> DEFINE S == 1..n
           A == SUBSET S
           B == {T \cup {n + 1} : T \in A}
<1>1. IsFiniteSet(S) /\ Cardinality(S) = n
  BY FS_Interval
<1>2. IsFiniteSet(A) /\ Cardinality(A) = 2^n
  BY <1>1, FS_SUBSET
<1>3. IsFiniteSet(SUBSET (1..n + 1)) /\ Cardinality(SUBSET (1..n + 1)) = 2^(n + 1)
  <2>1. IsFiniteSet(1..n + 1) /\ Cardinality(1..n + 1) = n + 1
    BY FS_Interval
  <2> QED
    BY <2>1, FS_SUBSET
<1>4. n + 1 \notin S
  OBVIOUS
<1>5. ExistsBijection(A, B)
  <2> DEFINE f == [T \in A |-> T \cup {n + 1}]
  <2>1. f \in [A -> B]
    OBVIOUS
  <2>2. \A T, U \in A : f[T] = f[U] => T = U
    BY <1>4
  <2>3. \A U \in B : \E T \in A : f[T] = U
    OBVIOUS
  <2>4. f \in Bijection(A, B)
    BY <2>1, <2>2, <2>3 DEF Bijection, Injection, Surjection, IsInjective
  <2> QED
    BY <2>4 DEF ExistsBijection
<1>6. IsFiniteSet(B) /\ Cardinality(B) = 2^n
  BY <1>2, <1>5, FS_Bijection
<1>7. A \cap B = {}
  BY <1>4
<1>8. A \cup B = SUBSET (1..n + 1)
  <2>1. 1..n + 1 = S \cup {n + 1}
    OBVIOUS
  <2>2. ASSUME NEW U \in SUBSET (1..n + 1) PROVE U \in A \cup B
    <3>1. CASE n + 1 \in U
      <4>1. U \ {n + 1} \in A /\ U = (U \ {n + 1}) \cup {n + 1}
        BY <2>1, <3>1
      <4> QED
        BY <4>1
    <3>2. CASE n + 1 \notin U
      BY <2>1, <3>2
    <3> QED
      BY <3>1, <3>2
  <2>3. A \cup B \subseteq SUBSET (1..n + 1)
    BY <2>1
  <2> QED
    BY <2>2, <2>3
<1>9. Cardinality(A \cup B) = Cardinality(A) + Cardinality(B) - Cardinality(A \cap B)
  BY <1>2, <1>6, FS_Union
<1>10. 2^n \in Nat
  BY <1>2, FS_CardinalityType
<1>11. Cardinality(A \cap B) = 0
  BY <1>7, FS_EmptySet
<1> HIDE DEF A, B
<1>12. 2^(n + 1) = 2^n + 2^n - 0
  BY <1>2, <1>3, <1>6, <1>8, <1>9, <1>11
<1> QED
  BY <1>10, <1>12

LEMMA Powers == \A n \in Nat : 2^n \in Nat \ {0}
<1> DEFINE T == {n \in Nat : 2^n = 0}
<1> SUFFICES ASSUME T # {} PROVE FALSE
  BY Halves
<1>1. PICK m \in T : \A k \in T : m <= k
  <2> HIDE DEF T
  <2>1. T \subseteq Nat
    BY DEF T
  <2> QED
    BY <2>1, LeastOf
<1>0. 2^0 = 1
  OBVIOUS
<1>2. m \in Nat /\ 2^m = 0 /\ m # 0
  <2>1. m \in Nat /\ 2^m = 0
    OBVIOUS
  <2>2. ASSUME m = 0 PROVE 2^m = 1
    BY <1>0, <2>2, Zenon
  <2>3. m # 0
    <3> HIDE DEF T
    <3>1. CASE m = 0
      BY <2>1, <2>2, <3>1, SMT
    <3> QED
      BY <3>1
  <2> QED
    BY <2>1, <2>3
<1>3. m - 1 \in Nat /\ (m - 1) + 1 = m
  BY <1>2
<1>4. 2^(m - 1) \in Nat /\ 2^m = 2 * 2^(m - 1)
  BY <1>3, Halves
<1>5. m - 1 \in T
  BY <1>2, <1>3, <1>4
<1> QED
  BY <1>1, <1>3, <1>5

(* A number without its last k bits.                                       *)
Rest(x, k) == x \div 2^k

LEMMA Grows ==
  ASSUME NEW a \in Nat, NEW q \in Nat, a >= 1
  PROVE  q * a >= q
OBVIOUS

LEMMA Division ==
  ASSUME NEW x \in Nat, NEW q \in Nat \ {0}
  PROVE  x \div q \in Nat /\ x % q \in Nat /\ x % q < q /\ x = q * (x \div q) + (x % q)
OBVIOUS

LEMMA Quotient ==
  ASSUME NEW x \in Nat, NEW q \in Nat \ {0}, NEW h \in Nat, NEW r \in Nat, r < q, x = q * h + r
  PROVE  x \div q = h
<1> DEFINE g == x \div q
           s == x % q
<1>1. g \in Nat /\ s \in Nat /\ s < q /\ x = q * g + s
  BY Division
<1> HIDE DEF g, s
<1>2. CASE g > h
  <2>1. g - h \in Nat /\ g - h >= 1
    BY <1>1, <1>2
  <2>2. q * (g - h) >= q
    BY <2>1, Grows
  <2>3. q * (g - h) = q * g - q * h
    BY <1>1
  <2> QED
    BY <1>1, <2>2, <2>3
<1>3. CASE h > g
  <2>1. h - g \in Nat /\ h - g >= 1
    BY <1>1, <1>3
  <2>2. q * (h - g) >= q
    BY <2>1, Grows
  <2>3. q * (h - g) = q * h - q * g
    BY <1>1
  <2> QED
    BY <1>1, <2>2, <2>3
<1> QED
  BY <1>1, <1>2, <1>3 DEF g

(* The bit at the place k is the remainder of what is left above it.       *)
LEMMA RestFacts ==
  ASSUME NEW x \in Nat, NEW k \in Nat
  PROVE  /\ Rest(x, k) \in Nat
         /\ x = 2^k * Rest(x, k) + (x % 2^k) /\ x % 2^k \in Nat
         /\ Rest(x, k) = 2 * Rest(x, k + 1) + (Rest(x, k) % 2)
         /\ Rest(x, k) % 2 \in {0, 1}
         /\ Rest(x, k + 1) = Rest(x, k) \div 2
<1> DEFINE q == 2^k
           h == Rest(x, k)
           r == x % q
           g == h \div 2
           b == h % 2
<1>1. q \in Nat \ {0} /\ 2^(k + 1) = 2 * q
  BY Powers, Halves
<1>2. h \in Nat /\ r \in Nat /\ r < q /\ x = q * h + r
  <2> HIDE DEF q
  <2>1. h = x \div q
    BY DEF Rest, q
  <2> QED
    BY <1>1, <2>1, Division DEF r
<1>3. g \in Nat /\ b \in {0, 1} /\ h = 2 * g + b
  <2> HIDE DEF h
  <2> QED
    BY <1>2
<1> HIDE DEF q, h, r, g, b
<1>4. x \div (2 * q) = g
  <2>1. 2 * q \in Nat \ {0} /\ q * b + r \in Nat /\ q * b + r < 2 * q
    <3>1. b = 0 => q * b = 0
      BY <1>1
    <3>2. b = 1 => q * b = q
      BY <1>1
    <3> QED
      BY <1>1, <1>2, <1>3, <3>1, <3>2
  <2>2. x = (2 * q) * g + (q * b + r)
    <3>1. q * h = q * (2 * g) + q * b
      BY <1>1, <1>3
    <3>2. q * (2 * g) = (2 * q) * g
      BY <1>1, <1>3
    <3> QED
      BY <1>1, <1>2, <1>3, <2>1, <3>1, <3>2
  <2> QED
    BY <1>3, <2>1, <2>2, Quotient
<1>5. Rest(x, k + 1) = g
  BY <1>1, <1>4 DEF Rest
<1> QED
  BY <1>2, <1>3, <1>5 DEF q, h, r, g, b

LEMMA RestWhole == ASSUME NEW x \in Nat PROVE Rest(x, 0) = x
<1>1. 2^0 = 1
  OBVIOUS
<1>2. Rest(x, 0) = x \div 1
  BY <1>1, Zenon DEF Rest
<1> QED
  BY <1>2

(* Two numbers that agree above the place k agree in every bit above it.   *)
LEMMA AgreeAbove ==
  ASSUME NEW x \in Nat, NEW y \in Nat, NEW k \in Nat, Rest(x, k) = Rest(y, k), NEW j \in Nat, j >= k
  PROVE  Rest(x, j) = Rest(y, j)
<1> DEFINE T == {n \in Nat : n >= k /\ Rest(x, n) # Rest(y, n)}
<1> SUFFICES ASSUME T # {} PROVE FALSE
  OBVIOUS
<1>1. T \subseteq Nat
  OBVIOUS
<1>2. PICK m \in T : \A n \in T : m <= n
  <2> HIDE DEF T
  <2> QED
    BY <1>1, LeastOf
<1>3. m \in Nat /\ m >= k /\ Rest(x, m) # Rest(y, m) /\ m # k
  OBVIOUS
<1>4. m - 1 \in Nat /\ m - 1 >= k /\ (m - 1) + 1 = m
  BY <1>3
<1>5. Rest(x, m - 1) = Rest(y, m - 1)
  <2>1. m - 1 \notin T
    <3> HIDE DEF T
    <3> QED
      BY <1>2, <1>3, <1>4
  <2> QED
    BY <1>4, <2>1
<1>6. Rest(x, m) = Rest(x, m - 1) \div 2 /\ Rest(y, m) = Rest(y, m - 1) \div 2
  BY <1>4, RestFacts
<1> QED
  BY <1>3, <1>5, <1>6

(* Two numbers that agree above the place k, and in every bit below it,    *)
(* are one.                                                                *)
LEMMA AgreeBelow ==
  ASSUME NEW x \in Nat, NEW y \in Nat, NEW k \in Nat, Rest(x, k) = Rest(y, k),
         \A j \in 0..k - 1 : Rest(x, j) % 2 = Rest(y, j) % 2
  PROVE  x = y
<1> DEFINE T == {n \in 0..k : Rest(x, n) = Rest(y, n)}
<1>1. T \subseteq Nat /\ k \in T
  OBVIOUS
<1>2. PICK m \in T : \A n \in T : m <= n
  <2> HIDE DEF T
  <2> QED
    BY <1>1, LeastOf
<1>3. m \in 0..k /\ Rest(x, m) = Rest(y, m)
  OBVIOUS
<1>4. CASE m # 0
  <2>1. PICK j \in 0..k - 1 : j + 1 = m
    <3>1. m - 1 \in 0..k - 1 /\ (m - 1) + 1 = m
      BY <1>3, <1>4
    <3> QED
      BY <3>1
  <2>2. /\ Rest(x, j) \in Nat /\ Rest(x, j) = 2 * Rest(x, j + 1) + (Rest(x, j) % 2)
        /\ Rest(y, j) \in Nat /\ Rest(y, j) = 2 * Rest(y, j + 1) + (Rest(y, j) % 2)
    BY RestFacts
  <2>3. Rest(x, j) % 2 = Rest(y, j) % 2 /\ Rest(x, j + 1) = Rest(y, j + 1)
    BY <1>3, <2>1
  <2>4. Rest(x, j) = Rest(y, j)
    BY <2>2, <2>3
  <2>5. j \in T /\ j < m
    BY <2>1, <2>4
  <2> HIDE DEF T
  <2> QED
    BY <1>2, <1>3, <2>1, <2>5
<1>5. CASE m = 0
  BY <1>3, <1>5, RestWhole
<1> QED
  BY <1>4, <1>5

(* A number below a power of two has nothing above that place.             *)
LEMMA NothingAbove ==
  ASSUME NEW x \in Nat, NEW k \in Nat, x < 2^k
  PROVE  Rest(x, k) = 0
<1> DEFINE q == 2^k
<1>1. q \in Nat \ {0} /\ x < q
  BY Powers
<1> HIDE DEF q
<1>2. x = q * 0 + x
  BY <1>1
<1>3. x \div q = 0
  BY <1>1, <1>2, Quotient
<1> QED
  BY <1>3 DEF Rest, q

(* A number with no bit below the place k is a multiple of its power.      *)
LEMMA NoneBelow ==
  ASSUME NEW x \in Nat, NEW k \in Nat, \A j \in 0..k - 1 : Rest(x, j) % 2 = 0
  PROVE  x = 2^k * Rest(x, k)
<1> DEFINE T == {n \in 0..k : x # 2^n * Rest(x, n)}
<1> SUFFICES ASSUME T # {} PROVE FALSE
  BY DEF T
<1>1. T \subseteq Nat
  OBVIOUS
<1>2. PICK m \in T : \A n \in T : m <= n
  <2> HIDE DEF T
  <2> QED
    BY <1>1, LeastOf
<1>3. m \in 0..k /\ x # 2^m * Rest(x, m)
  OBVIOUS
<1>4. m # 0
  <2>1. 2^0 = 1 /\ Rest(x, 0) = x
    BY RestWhole
  <2>2. x = 2^0 * Rest(x, 0)
    BY <2>1
  <2> QED
    BY <1>3, <2>2, Zenon
<1>5. PICK j \in 0..k - 1 : j + 1 = m
  <2>1. m - 1 \in 0..k - 1 /\ (m - 1) + 1 = m
    BY <1>3, <1>4
  <2> QED
    BY <2>1
<1>6. x = 2^j * Rest(x, j)
  <2>1. j \in 0..k /\ j < m /\ j \in Nat
    BY <1>3, <1>5
  <2>2. j \notin T
    <3> HIDE DEF T
    <3> QED
      BY <1>2, <1>3, <2>1
  <2> QED
    BY <2>1, <2>2
<1>7. Rest(x, j) = 2 * Rest(x, j + 1) + (Rest(x, j) % 2) /\ Rest(x, j + 1) \in Nat
                   /\ Rest(x, j) % 2 = 0
  <2>1. j \in Nat /\ j + 1 \in Nat
    OBVIOUS
  <2> HIDE DEF T
  <2> QED
    BY <2>1, RestFacts
<1>8. 2^j \in Nat /\ 2^(j + 1) = 2 * 2^j
  BY Halves
<1>9. x = 2^(j + 1) * Rest(x, j + 1)
  <2> DEFINE q == 2^j  g == Rest(x, j + 1)
  <2>1. Rest(x, j) = 2 * g
    BY <1>7
  <2>2. q \in Nat /\ g \in Nat /\ x = q * Rest(x, j) /\ 2^(j + 1) = 2 * q
    BY <1>6, <1>7, <1>8
  <2> HIDE DEF q, g
  <2>3. x = q * (2 * g)
    BY <2>1, <2>2
  <2>4. q * (2 * g) = (2 * q) * g
    BY <2>2
  <2> QED
    BY <2>2, <2>3, <2>4 DEF g
<1> QED
  BY <1>3, <1>5, <1>9, Zenon

(* The mask takes an address to the bits above its host part; bit n of the *)
(* W, from the top, is the one at the place W - n.                         *)
LEMMA Network ==
  ASSUME NEW x \in 0..2^W - 1, NEW prefix \in 0..W
  PROVE  LET K == W - prefix
         IN  /\ K \in 0..W
             /\ Hub!V4Network(x, prefix) = 2^K * Rest(x, K)
             /\ Rest(x, K) \in Nat /\ x \in Nat
<1> DEFINE K == W - prefix
<1>1. W \in Nat \ {0}
  BY TableAssumption DEF Hub!BundleAssumption
<1>2. 2^W \in Nat /\ x \in Nat /\ x < 2^W
  BY <1>1, Powers
<1>3. K \in 0..W /\ K \in Nat
  BY <1>1
<1>4. Rest(x, K) \in Nat /\ x = 2^K * Rest(x, K) + (x % 2^K) /\ x % 2^K \in Nat /\ 2^K \in Nat
  BY <1>2, <1>3, RestFacts, Powers
<1>5. CASE prefix = 0
  <2>1. K = W
    BY <1>1, <1>5
  <2>2. Rest(x, W) = 0
    BY <1>1, <1>2, NothingAbove
  <2>3. 2^W * 0 = 0
    BY <1>2
  <2>4. Hub!V4Network(x, prefix) = 0
    BY <1>5 DEF Hub!V4Network
  <2>5. 2^K * Rest(x, K) = 0
    BY <2>1, <2>2, <2>3, Zenon
  <2> QED
    BY <1>2, <1>3, <1>4, <2>4, <2>5
<1>6. CASE prefix # 0
  <2>1. K % W = K
    BY <1>1, <1>6
  <2>2. Hub!V4Network(x, prefix) = x - (x % 2^K)
    BY <1>6, <2>1, Zenon DEF Hub!V4Network
  <2> HIDE DEF K
  <2>3. x - (x % 2^K) = 2^K * Rest(x, K)
    <3> DEFINE a == 2^K * Rest(x, K)  r == x % 2^K
    <3>1. a \in Nat /\ r \in Nat /\ x = a + r
      BY <1>4
    <3> HIDE DEF a, r
    <3>2. x - r = a
      BY <3>1
    <3> QED
      BY <3>2 DEF a, r
  <2> QED
    BY <1>2, <1>3, <1>4, <2>2, <2>3 DEF K
<1> QED
  BY <1>5, <1>6

LEMMA Places ==
  ASSUME NEW x
  PROVE  /\ \A n \in 1..W : W - n \in Nat /\ Hub!Bit(x, n) = Rest(x, W - n) % 2
         /\ \A j \in 0..W - 1 : W - j \in 1..W /\ Hub!Bit(x, W - j) = Rest(x, j) % 2
<1>1. W \in Nat \ {0}
  BY TableAssumption DEF Hub!BundleAssumption
<1>2. ASSUME NEW n \in 1..W
      PROVE  W - n \in Nat /\ Hub!Bit(x, n) = Rest(x, W - n) % 2
  BY <1>1 DEF Hub!Bit, Rest
<1>3. ASSUME NEW j \in 0..W - 1
      PROVE  W - j \in 1..W /\ Hub!Bit(x, W - j) = Rest(x, j) % 2
  <2>1. W - j \in 1..W /\ W - (W - j) = j
    BY <1>1
  <2>2. Hub!Bit(x, W - j) = Rest(x, W - (W - j)) % 2
    BY Zenon DEF Hub!Bit, Rest
  <2> QED
    BY <2>1, <2>2
<1> QED
  BY <1>2, <1>3

(* An address that is not its network's has a bit in the host part; two    *)
(* different addresses of one network differ there and only there.         *)
LEMMA HasHostPart ==
  ASSUME NEW a, Hub!HubAddress(a)
  PROVE  \E n \in a.prefix + 1..W : Hub!Bit(a.ip, n) = 1
<1>1. W \in Nat \ {0} /\ a.ip \in 0..2^W - 1 /\ a.prefix \in 0..W /\ a.prefix # W
  BY TableAssumption DEF Hub!BundleAssumption, Hub!HubAddress, Hub!V4Cidr
<1>2. a.ip # Hub!V4Network(a.ip, a.prefix)
  BY DEF Hub!HubAddress
<1> DEFINE x == a.ip
           K == W - a.prefix
<1>3. /\ K \in 0..W /\ x \in Nat
      /\ Hub!V4Network(x, a.prefix) = 2^K * Rest(x, K)
  BY <1>1, Network
<1>4. PICK j \in 0..K - 1 : Rest(x, j) % 2 # 0
  <2> SUFFICES ASSUME \A j \in 0..K - 1 : Rest(x, j) % 2 = 0 PROVE FALSE
    OBVIOUS
  <2> HIDE DEF x, K
  <2>1. x = 2^K * Rest(x, K)
    BY <1>3, NoneBelow
  <2> QED
    BY <1>2, <1>3, <2>1 DEF x
<1>5. W - j \in a.prefix + 1..W /\ j \in Nat /\ j \in 0..W - 1
  BY <1>1
<1>6. Rest(x, j) % 2 = 1
  <2>1. Rest(x, j) % 2 \in {0, 1}
    BY <1>3, <1>5, RestFacts
  <2> QED
    BY <1>4, <2>1
<1>7. Hub!Bit(x, W - j) = 1
  BY <1>5, <1>6, Places
<1> QED
  BY <1>5, <1>7

LEMMA HostsOfOne ==
  ASSUME NEW hub, NEW a, Hub!HubAddress(hub), Hub!PeerAddress(a, hub)
  PROVE  /\ \A n \in 1..hub.prefix : Hub!Bit(a.ip, n) = Hub!Bit(hub.ip, n)
         /\ \E n \in hub.prefix + 1..W : Hub!Bit(a.ip, n) # Hub!Bit(hub.ip, n)
<1>1. /\ W \in Nat \ {0} /\ hub.ip \in 0..2^W - 1 /\ hub.prefix \in 0..W /\ hub.prefix # W
      /\ a.ip \in 0..2^W - 1 /\ a.ip # hub.ip
      /\ Hub!V4Network(a.ip, hub.prefix) = Hub!V4Network(hub.ip, hub.prefix)
  BY TableAssumption DEF Hub!BundleAssumption, Hub!HubAddress, Hub!PeerAddress, Hub!V4Cidr
<1> DEFINE x == a.ip
           y == hub.ip
           K == W - hub.prefix
<1>2. /\ K \in 0..W /\ x \in Nat /\ y \in Nat /\ Rest(x, K) \in Nat /\ Rest(y, K) \in Nat
      /\ Hub!V4Network(x, hub.prefix) = 2^K * Rest(x, K)
      /\ Hub!V4Network(y, hub.prefix) = 2^K * Rest(y, K)
  BY <1>1, Network
<1>3. Rest(x, K) = Rest(y, K)
  <2> DEFINE q == 2^K  g == Rest(x, K)  h == Rest(y, K)
  <2>1. q \in Nat \ {0}
    BY <1>2, Powers
  <2>2. g \in Nat /\ h \in Nat /\ q * g = q * h
    BY <1>1, <1>2
  <2> HIDE DEF q, g, h
  <2>3. q * g = q * h + 0 /\ q * g \in Nat
    BY <2>1, <2>2
  <2>4. (q * g) \div q = g /\ (q * g) \div q = h
    <3>1. q * g = q * g + 0
      BY <2>3
    <3> QED
      BY <2>1, <2>2, <2>3, <3>1, Quotient
  <2> QED
    BY <2>4 DEF g, h
<1>4. ASSUME NEW n \in 1..hub.prefix
      PROVE  Hub!Bit(x, n) = Hub!Bit(y, n)
  <2>1. W - n \in Nat /\ W - n >= K /\ n \in 1..W /\ K \in Nat
    BY <1>1, <1>2
  <2>2. Rest(x, W - n) = Rest(y, W - n)
    BY <1>2, <1>3, <2>1, AgreeAbove
  <2> QED
    BY <2>1, <2>2, Places
<1>5. \E n \in hub.prefix + 1..W : Hub!Bit(x, n) # Hub!Bit(y, n)
  <2>1. PICK j \in 0..K - 1 : Rest(x, j) % 2 # Rest(y, j) % 2
    <3> SUFFICES ASSUME \A j \in 0..K - 1 : Rest(x, j) % 2 = Rest(y, j) % 2 PROVE FALSE
      OBVIOUS
    <3> HIDE DEF x, y, K
    <3>1. x = y
      BY <1>2, <1>3, AgreeBelow
    <3> QED
      BY <1>1, <3>1 DEF x, y
  <2>2. W - j \in hub.prefix + 1..W /\ j \in 0..W - 1
    BY <1>1
  <2>3. Hub!Bit(x, W - j) # Hub!Bit(y, W - j)
    BY <2>1, <2>2, Places
  <2> QED
    BY <2>2, <2>3
<1> QED
  BY <1>4, <1>5

LEMMA HostsOfTheNetwork == Hub!OneNetwork
BY HasHostPart, HostsOfOne DEF Hub!OneNetwork, Hub!Parses, Hub!Hub, Hub!Peer

-----------------------------------------------------------------------------
(* A spoke whom nothing concerns is given what it was given (bundle.rs     *)
(* 354-380).                                                               *)
LEMMA SameEntry ==
  ASSUME Hub!IsTable(table), Hub!IsTable(table'), Hub!Parses(table), Hub!Parses(table'),
         NEW k, ~Hub!Concerned(k)
  PROVE  Hub!Select(table, k) = Hub!Select(table', k)
<1>1. Hub!RowsOf(table, k) = Hub!RowsOf(table', k) /\ table.hub.public_key = table'.hub.public_key
  BY DEF Hub!Concerned
<1>2. CASE Hub!RowsOf(table, k) = {}
  BY <1>1, <1>2 DEF Hub!Select
<1>3. ASSUME NEW i \in Hub!RowsOf(table, k)
      PROVE  Hub!Select(table, k) = Hub!Select(table', k)
  <2>1. /\ i \in DOMAIN table.peers /\ i \in DOMAIN table'.peers
        /\ table.peers[i].public_key = k /\ table'.peers[i].public_key = k
    BY <1>1, <1>3 DEF Hub!RowsOf
  <2>2. /\ table.peers[i] = table'.peers[i]
        /\ table.peers[i].endpoint = {} => table.hub.endpoint = table'.hub.endpoint
        /\ table.peers[i].allowed_ips = {} => table.hub.allowed_ips = table'.hub.allowed_ips
        /\ table.peers[i].persistent_keepalive = {} =>
             table.hub.persistent_keepalive = table'.hub.persistent_keepalive
    BY <1>3 DEF Hub!Concerned
  <2>3. /\ Hub!OrHubs(table.peers[i].endpoint, table.hub.endpoint)
             = Hub!OrHubs(table'.peers[i].endpoint, table'.hub.endpoint)
        /\ Hub!OrHubs(table.peers[i].allowed_ips, table.hub.allowed_ips)
             = Hub!OrHubs(table'.peers[i].allowed_ips, table'.hub.allowed_ips)
        /\ Hub!OrHubs(table.peers[i].persistent_keepalive, table.hub.persistent_keepalive)
             = Hub!OrHubs(table'.peers[i].persistent_keepalive, table'.hub.persistent_keepalive)
    BY <2>2 DEF Hub!OrHubs
  <2>4. Hub!Select(table, table.peers[i].public_key) =
           {[address |-> table.peers[i].address, hub_public_key |-> table.hub.public_key,
             endpoint |-> Hub!OrHubs(table.peers[i].endpoint, table.hub.endpoint),
             allowed_ips |-> Hub!OrHubs(table.peers[i].allowed_ips, table.hub.allowed_ips),
             keepalive |-> Hub!OrHubs(table.peers[i].persistent_keepalive,
                                      table.hub.persistent_keepalive)]}
    BY <2>1, Selected
  <2>5. Hub!Select(table', table'.peers[i].public_key) =
           {[address |-> table'.peers[i].address, hub_public_key |-> table'.hub.public_key,
             endpoint |-> Hub!OrHubs(table'.peers[i].endpoint, table'.hub.endpoint),
             allowed_ips |-> Hub!OrHubs(table'.peers[i].allowed_ips, table'.hub.allowed_ips),
             keepalive |-> Hub!OrHubs(table'.peers[i].persistent_keepalive,
                                      table'.hub.persistent_keepalive)]}
    BY <2>1, Selected
  <2> QED
    BY <1>1, <2>1, <2>2, <2>3, <2>4, <2>5
<1> QED
  BY <1>2, <1>3

-----------------------------------------------------------------------------
(* The three parts of MCConfig.tla, each as its module has it.             *)
Inv == Hub!IsTable(table) /\ KeyInv

LEMMA InvAlways == MCSpec => []Inv
<1>1. MCInit => Inv
  BY KeyInvInitially, TableAssumption DEF MCInit, Inv, Hub!Init, Hub!BundleAssumption
<1>2. Inv /\ [MCNext]_<<part, vars, bundleVars, keyVars>> => Inv'
  <2> SUFFICES ASSUME Inv, [MCNext]_<<part, vars, bundleVars, keyVars>> PROVE Inv'
    OBVIOUS
  <2>1. CASE Hub!Edit /\ UNCHANGED keyVars
    BY <2>1, TableKept DEF Inv, keyVars, KeyInv, Reading
  <2>2. CASE Key!Next /\ UNCHANGED bundleVars
    BY <2>2, KeyInvKept DEF Inv, bundleVars
  <2>3. CASE UNCHANGED <<bundleVars, keyVars>>
    BY <2>3 DEF Inv, bundleVars, keyVars, KeyInv, Reading
  <2> QED
    BY <2>1, <2>2, <2>3 DEF MCNext
<1> QED
  BY <1>1, <1>2, PTL DEF MCSpec

(* What the checks let through: one row for each key and none for the      *)
(* hub's; a spoke and the hub two hosts of one network, bit by bit; the    *)
(* entries complete; and the texts of keys alone, all of them              *)
(* (bundle.rs 85-96, 165-236, 300-356).                                    *)
THEOREM AcceptedEntries == MCSpec => []AcceptedIsSound
<1>1. Inv => AcceptedIsSound
  BY Rows, Usable, ShapeOfKeys, HostsOfTheNetwork DEF Inv, AcceptedIsSound
<1> QED
  BY <1>1, InvAlways, PTL

(* An edit concerns the spokes it is about and no other (bundle.rs         *)
(* 354-380).                                                               *)
THEOREM EditsConcern == MCSpec => OnlyTheConcerned
<1>1. ASSUME Inv, Inv', [MCNext]_<<part, vars, bundleVars, keyVars>>
      PROVE  [Hub!Parses(table) /\ Hub!Parses(table') =>
                \A k \in Keys : Hub!Select(table, k) # Hub!Select(table', k) => Hub!Concerned(k)]_bundleVars
  BY <1>1, SameEntry DEF Inv
<1> QED
  BY <1>1, InvAlways, PTL DEF MCSpec, OnlyTheConcerned, Hub!OnlyTheConcerned, Hub!vars, bundleVars
=============================================================================
