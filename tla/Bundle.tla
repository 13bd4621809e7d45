------------------------------- MODULE Bundle -------------------------------
(***************************************************************************)
(* The bundle of src/bundle.rs: which tables `parse` accepts, and what     *)
(* `select` makes of an accepted one.                                      *)
(*                                                                         *)
(* A text is what its validator tells apart: a name, key or tag is a       *)
(* value, ill-formed when it is not in Names, Keys or Tags; a CIDR is its  *)
(* numbers and how the prefix is spelt (u8's parse takes 32, 032 and +32). *)
(* An optional field is the set of its values: empty when it is missing.   *)
(* A field of another TOML type is refused as an ill-formed one is.        *)
(*                                                                         *)
(* The one action is whoever keeps the table, a field at a time.           *)
(***************************************************************************)
EXTENDS Integers, Sequences, FiniteSets

CONSTANTS
  W,          \* the bits of an IPv4 address
  Names, Keys, Tags,
  Starting,   \* the table before any edit
  HubEdits, PeerEdits, TableEdits,  \* what a field may be set to: sets of [field, value]
  MaxEdits    \* bound

IsRows(rows) == rows \in Seq({rows[i] : i \in DOMAIN rows})
IsTable(t) == t = [field \in {"schema", "hub_version", "hub", "peers"} |-> t[field]] /\ IsRows(t.peers)

BundleAssumption ==
  /\ W \in Nat \ {0} /\ MaxEdits \in Nat
  /\ IsTable(Starting) /\ \A e \in TableEdits : e.field \in {"schema", "hub_version"}

VARIABLES table, edits
vars == <<table, edits>>

MaxU16 == 65535

-----------------------------------------------------------------------------
(* The validators.                                                         *)
V4Cidr(a) == a.ip \in 0..2^W - 1 /\ a.prefix \in 0..W

(* MUTANT of V4Network: the mask one bit short.                            *)
V4NetworkShort(ip, prefix) == ip - (ip % 2^((W - prefix + 1) % W))

(* The mask is a shift, which takes its count modulo the width.            *)
V4Network(ip, prefix) == IF prefix = 0 THEN 0 ELSE ip - (ip % 2^((W - prefix) % W))

HubAddress(a) ==
  V4Cidr(a) /\ a.prefix # W /\ a.ip # V4Network(a.ip, a.prefix)

PeerAddress(a, hub) ==
  /\ V4Cidr(a) /\ a.prefix = W
  /\ V4Network(a.ip, hub.prefix) = V4Network(hub.ip, hub.prefix)
  /\ a.ip # hub.ip

AnyCidr(c) == c.prefix \in 0..(IF c.v6 THEN 4 * W ELSE W)
AllowedIps(cidrs) == cidrs # {} /\ \A c \in cidrs : AnyCidr(c)

Port(n) == n \in 1..MaxU16

Endpoint(e) == e.host # "" /\ Port(e.port)

Keepalive(n) == n \in 1..MaxU16

Identified(row) == row.name \in Names /\ row.public_key \in Keys

Settings(row) ==
  /\ \A e \in row.endpoint : Endpoint(e)
  /\ \A cidrs \in row.allowed_ips : AllowedIps(cidrs)
  /\ \A n \in row.persistent_keepalive : Keepalive(n)

Hub(hub) ==
  /\ Identified(hub) /\ HubAddress(hub.address) /\ Port(hub.listen_port)
  /\ hub.endpoint # {} /\ hub.allowed_ips # {} /\ hub.persistent_keepalive # {}
  /\ Settings(hub)

Peer(row, hub) ==
  /\ PeerAddress(row.address, hub.address) /\ Identified(row)
  /\ Settings(row)

(* Addresses are compared as they are written.                             *)
Unique(hub, peers) ==
  /\ \A i \in DOMAIN peers : peers[i].name # hub.name /\ peers[i].public_key # hub.public_key
  /\ \A i, j \in DOMAIN peers : i # j =>
       /\ peers[i].name # peers[j].name /\ peers[i].public_key # peers[j].public_key
       /\ peers[i].address # peers[j].address

Parses(t) ==
  /\ t.schema = 1
  /\ t.hub_version \subseteq Tags
  /\ Hub(t.hub)
  /\ \A i \in DOMAIN t.peers : Peer(t.peers[i], t.hub)
  /\ Unique(t.hub, t.peers)

-----------------------------------------------------------------------------
(* The row's own value, or the hub's.                                      *)
Only(S) == CHOOSE v \in S : TRUE

(* MUTANT of OrHubs: a row's own value counts only if the hub has none.    *)
HubsOr(own, hubs) == IF hubs # {} THEN Only(hubs) ELSE Only(own)
OrHubs(own, hubs) == IF own # {} THEN Only(own) ELSE Only(hubs)

RowsOf(t, public_key) == {i \in DOMAIN t.peers : t.peers[i].public_key = public_key}

(* Empty: not enrolled.                                                    *)
Select(t, public_key) ==
  LET rows == RowsOf(t, public_key)
      first == CHOOSE i \in rows : \A j \in rows : i <= j
      row == t.peers[first]
  IN  IF rows = {} THEN {}
      ELSE {[address |-> row.address, hub_public_key |-> t.hub.public_key,
             endpoint |-> OrHubs(row.endpoint, t.hub.endpoint),
             allowed_ips |-> OrHubs(row.allowed_ips, t.hub.allowed_ips),
             keepalive |-> OrHubs(row.persistent_keepalive, t.hub.persistent_keepalive)]}

-----------------------------------------------------------------------------
Init == table = Starting /\ edits = 0

(* A field is given a value, or a row is removed.                          *)
Edit ==
  /\ edits < MaxEdits /\ edits' = edits + 1
  /\ \/ \E e \in TableEdits : table' = [table EXCEPT ![e.field] = e.value]
     \/ \E e \in HubEdits : table' = [table EXCEPT !.hub[e.field] = e.value]
     \/ \E e \in PeerEdits, i \in DOMAIN table.peers :
          table' = [table EXCEPT !.peers[i][e.field] = e.value]
     \/ \E i \in DOMAIN table.peers :
          table' = [table EXCEPT !.peers = SubSeq(@, 1, i - 1) \o SubSeq(@, i + 1, Len(@))]

Spec == Init /\ [][Edit]_vars

-----------------------------------------------------------------------------
(* The hub is not a peer of itself, and a key has one row: what a spoke is *)
(* given does not depend on the order of the rows (bundle.rs 355-356).     *)
OneRowPerKey ==
  Parses(table) =>
    /\ Select(table, table.hub.public_key) = {}
    /\ \A i \in DOMAIN table.peers :
         \A eff \in Select(table, table.peers[i].public_key) : eff.address = table.peers[i].address

(* A spoke's address and the hub's are two hosts of one network: they      *)
(* agree on the hub's prefix, bit by bit, and nowhere but there.           *)
Bit(ip, n) == (ip \div 2^(W - n)) % 2

OneNetwork ==
  Parses(table) =>
    LET hub == table.hub.address
    IN  /\ \E n \in hub.prefix + 1..W : Bit(hub.ip, n) = 1
        /\ \A i \in DOMAIN table.peers :
             /\ \A n \in 1..hub.prefix : Bit(table.peers[i].address.ip, n) = Bit(hub.ip, n)
             /\ \E n \in hub.prefix + 1..W : Bit(table.peers[i].address.ip, n) # Bit(hub.ip, n)

(* Whatever is left to the hub's defaults, an enrolled spoke's             *)
(* configuration is complete: an endpoint, an allowed IP, with a prefix no *)
(* longer than an address of its family, and a keepalive, without which an *)
(* idle tunnel never renews its handshake and reads as stale (wireguard.rs *)
(* 96-100); the port and the keepalive are numbers of 16 bits.             *)
UsableEntry ==
  Parses(table) =>
    \A k \in Keys : \A eff \in Select(table, k) :
      /\ {eff.endpoint.port, eff.keepalive} \subseteq 1..MaxU16 /\ eff.allowed_ips # {}
      /\ eff.endpoint.host # ""
      /\ \A c \in eff.allowed_ips : c.prefix <= IF c.v6 THEN 4 * W ELSE W

(* An edit of the table changes the configuration of the spokes it is      *)
(* about and no other's: a default, of the rows that have no value of      *)
(* their own; a row, of that row.  A release that leaves a spoke's entry   *)
(* alone is not re-applied by it (supervisor.rs 271).                      *)
Concerned(k) ==
  \/ RowsOf(table, k) # RowsOf(table', k) \/ table.hub.public_key # table'.hub.public_key
  \/ \E i \in RowsOf(table, k) :
       \/ table.peers[i] # table'.peers[i]
       \/ table.peers[i].endpoint = {} /\ table.hub.endpoint # table'.hub.endpoint
       \/ table.peers[i].allowed_ips = {} /\ table.hub.allowed_ips # table'.hub.allowed_ips
       \/ /\ table.peers[i].persistent_keepalive = {}
          /\ table.hub.persistent_keepalive # table'.hub.persistent_keepalive

OnlyTheConcerned ==
  [][Parses(table) /\ Parses(table') =>
       \A k \in Keys : Select(table, k) # Select(table', k) => Concerned(k)]_vars
=============================================================================
