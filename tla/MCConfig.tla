------------------------------ MODULE MCConfig ------------------------------
(***************************************************************************)
(* A spoke's configuration on its way from the hub's bundle to the kernel: *)
(* a key's text, the bundle's tables, and wg0.  The three meet in what a   *)
(* configuration is, and a behaviour is one of one of the three.           *)
(***************************************************************************)
EXTENDS Wg0

CONSTANTS
  W, Names, Keys, Tags, Starting, HubEdits, PeerEdits, TableEdits, MaxEdits,  \* Bundle.tla's
  Groups, Bytes                                                               \* KeyText.tla's

VARIABLES
  part,                     \* which of the three
  table, edits,             \* Bundle.tla's
  read, pad, out, verdict   \* KeyText.tla's

bundleVars == <<table, edits>>
keyVars == <<read, pad, out, verdict>>

Hub == INSTANCE Bundle
Key == INSTANCE KeyText

ASSUME NetsAssumption == DistinctNets
ASSUME TableAssumption == Hub!BundleAssumption
ASSUME TextAssumption == Key!KeyTextAssumption

MCInit ==
  /\ part \in {"wg0", "bundle", "key"}
  /\ Init /\ Hub!Init /\ Key!Init
  /\ part # "wg0" => fetched

MCNext ==
  \/ part = "wg0" /\ Next /\ UNCHANGED <<part, bundleVars, keyVars>>
  \/ part = "bundle" /\ Hub!Edit /\ UNCHANGED <<part, vars, keyVars>>
  \/ part = "key" /\ Key!Next /\ UNCHANGED <<part, vars, bundleVars>>

MCSpec == MCInit /\ [][MCNext]_<<part, vars, bundleVars, keyVars>>

-----------------------------------------------------------------------------
Configs(addresses) ==
  [address : addresses, hub : {"h1", "h2"}, endpoint : {"e1", "e2"},
   allowed : {{"c1"}, {"c1", "c2"}, {"c2", "c3"}}, keepalive : {25, 10}]

Fetchable == Configs({"a1", "a2"})
FromEnv == Configs({"a3"})

(* The environment's address is a /24 whose network is c1's.               *)
Distinct == [c1 |-> "n1", c2 |-> "n2", c3 |-> "n3"]
Subnets == [a1 |-> {}, a2 |-> {}, a3 |-> {"n1"}]

-----------------------------------------------------------------------------
Values(field, values) == {[field |-> field, value |-> v] : v \in values}

(* Of a four-bit address: the hub is 5/2, its network 4 to 7.              *)
Address(ip, prefix) == [ip |-> ip, prefix |-> prefix, spelling |-> "plain"]
Respelt(ip, prefix) == [ip |-> ip, prefix |-> prefix, spelling |-> "signed"]
Cidr(v6, prefix) == [v6 |-> v6, prefix |-> prefix]
At(host, port) == [host |-> host, port |-> port]
Row(name, public_key, ip) ==
  [name |-> name, public_key |-> public_key, address |-> Address(ip, 4),
   endpoint |-> {}, allowed_ips |-> {}, persistent_keepalive |-> {}]

Good ==
  [schema |-> 1, hub_version |-> {},
   hub |-> [name |-> "hub", public_key |-> "kh", address |-> Address(5, 2), listen_port |-> 51820,
            endpoint |-> {At("hub", 51820)}, allowed_ips |-> {{Cidr(FALSE, 2)}},
            persistent_keepalive |-> {25}],
   peers |-> <<Row("alpha", "ka", 6), Row("beta", "kb", 7)>>]

Defaults ==
  Values("endpoint", {{}, {At("hub", 51820)}, {At("alt", 65535)}, {At("alt", 0)}, {At("", 1)}})
  \cup Values("allowed_ips", {{}, {{}}, {{Cidr(FALSE, 4)}}, {{Cidr(FALSE, 2), Cidr(TRUE, 16)}},
                              {{Cidr(FALSE, 5)}}, {{Cidr(TRUE, 17)}}})
  \cup Values("persistent_keepalive", {{}, {0}, {1}, {65535}, {65536}})
  \cup Values("name", {"hub", "beta", "Upper"})
  \cup Values("public_key", {"kh", "kb", "kc", "short"})

OfHub ==
  Defaults \cup Values("listen_port", {0, 1, 65536})
  \cup Values("address", {Address(4, 2), Address(5, 0), Address(5, 3), Address(5, 4), Address(5, 5)})

OfPeer ==
  Defaults \cup Values("address", {Address(ip, 4) : ip \in {0, 4, 5, 7, 8, 16}}
                                  \cup {Respelt(7, 4), Address(6, 3)})

OfTable == Values("schema", {2}) \cup Values("hub_version", {{"v1"}, {"latest"}})

-----------------------------------------------------------------------------
(* What the checks let through (Bundle.tla, KeyText.tla): one row for each *)
(* key, none for the hub's; a spoke and the hub two hosts of one network;  *)
(* entries complete; and the texts of keys.                                *)
AcceptedIsSound == Hub!OneRowPerKey /\ Hub!OneNetwork /\ Hub!UsableEntry /\ Key!KeyShape

(* An edit concerns the spokes it is about and no other (Bundle.tla).      *)
OnlyTheConcerned == Hub!OnlyTheConcerned
=============================================================================
