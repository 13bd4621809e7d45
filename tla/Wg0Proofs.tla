----------------------------- MODULE Wg0Proofs ------------------------------
(***************************************************************************)
(* For every set of configurations: Wg0's type correctness, that its plans *)
(* of commands implement the one-step interface of WgView, and, if no      *)
(* network has two spellings, what the commands make of the kernel.        *)
(***************************************************************************)
EXTENDS Wg0, TLAPS

KernelType ==
  [link : {"none", "added", "keyed", "up"}, peers : [Hubs -> PeerType],
   addresses : SUBSET Addresses,
   routes : SUBSET UNION ({{Net[c] : c \in Cidrs}} \cup {OwnNet[a] : a \in Addresses})]

Rekeyed == pc = "reapply" /\ applied.hub # new.hub
Rebuilds == pc \in {"apply", "down_up"} \/ Rekeyed
Resolves ==
  \/ pc \in {"apply", "set_endpoint", "down_up"}
  \/ pc = "reapply" /\ (Rekeyed \/ applied.endpoint # new.endpoint \/ ~endpoint_ok)

(* What each plan is about, and that what is left of it is a part of it.   *)
Underway ==
  /\ fetched \in BOOLEAN /\ psk \in BOOLEAN /\ endpoint_ok \in BOOLEAN
  /\ applied \in Bundled \cup {NoConfig} /\ new \in Bundled \cup {NoConfig}
  /\ pc \in {"new", "create", "idle", "apply", "reapply", "set_endpoint", "down_up", "broken"}
  /\ pc \in {"new", "create"} => applied = NoConfig /\ new = NoConfig /\ endpoint_ok
  /\ pc = "apply" => applied = NoConfig /\ new \in Bundled
  /\ pc = "reapply" => applied \in Bundled /\ new \in Bundled \ {applied}
  /\ pc \in {"set_endpoint", "down_up"} => applied \in Bundled /\ new = applied
  /\ pc \in {"new", "idle", "broken"} => todo = {}
  /\ pc = "create" => todo \subseteq CreateCommands
  /\ pc = "apply" => todo \subseteq ApplyCommands(new)
  /\ pc = "reapply" => todo \subseteq ReapplyCommands(applied, new, endpoint_ok)
  /\ pc = "set_endpoint" => todo \subseteq EndpointCommand(new)
  /\ pc = "down_up" => todo \subseteq DownUpCommands(new)
  /\ todo # {} /\ Resolves => Cmd("endpoint", new.endpoint) \in todo

LEMMA Commands ==
  ASSUME Underway, NEW c \in todo
  PROVE  /\ c.op \in DOMAIN Rank
         /\ c.op \in {"del", "remove", "peer", "psk", "endpoint"} =>
              /\ pc # "create"
              /\ c.op = "del" => c = Cmd("del", None) /\ pc = "down_up"
              /\ c.op = "remove" => c = Cmd("remove", applied.hub) /\ Rekeyed
              /\ c.op = "peer" => c = Cmd("peer", new.hub) /\ new \in Bundled /\ Rebuilds
              /\ c.op = "psk" => new \in Bundled /\ Rebuilds
              /\ c.op = "endpoint" => c = Cmd("endpoint", new.endpoint) /\ new \in Bundled /\ Resolves
         /\ c.op = "repeer" => new \in Bundled /\ ~Rebuilds
         /\ c.op \in {"address", "readdress", "unaddress"} => c.on \in Addresses
         /\ c.op \in {"route", "unroute"} => c.on \in Cidrs
<1>1. pc \in {"create", "apply", "reapply", "set_endpoint", "down_up"}
  BY DEF Underway
<1> USE DEF Cmd, OnRoutes, EndpointCommand, Rank, None, Rekeyed, Rebuilds, Resolves
<1>2. CASE pc = "create"
  <2>1. c \in CreateCommands
    BY <1>2 DEF Underway
  <2> QED BY <2>1, <1>2 DEF CreateCommands
<1>3. CASE pc = "set_endpoint"
  <2>1. c \in EndpointCommand(new) /\ new \in Bundled
    BY <1>3 DEF Underway
  <2> QED BY <2>1, <1>3
<1>4. ASSUME new \in Bundled, c \in ApplyCommands(new), pc \in {"apply", "down_up"}
      PROVE  /\ c.op \in {"peer", "address", "up", "psk", "route", "endpoint"}
             /\ c.op = "peer" => c = Cmd("peer", new.hub)
             /\ c.op = "address" => c.on \in Addresses
             /\ c.op = "route" => c.on \in Cidrs
             /\ c.op = "endpoint" => c = Cmd("endpoint", new.endpoint)
  BY <1>4 DEF ApplyCommands, Addresses, Cidrs
<1>5. CASE pc = "apply"
  <2>1. c \in ApplyCommands(new) /\ new \in Bundled
    BY <1>5 DEF Underway
  <2> QED BY <2>1, <1>4, <1>5
<1>6. CASE pc = "down_up"
  <2>1. c \in DownUpCommands(new) /\ new \in Bundled
    BY <1>6 DEF Underway
  <2>2. CASE c \in ApplyCommands(new)
    BY <2>1, <2>2, <1>4, <1>6
  <2>3. CASE c \in {Cmd("del", None), Cmd("add", None), Cmd("key", None)}
    BY <2>3, <1>6
  <2> QED BY <2>1, <2>2, <2>3 DEF DownUpCommands, CreateCommands
<1>7. CASE pc = "reapply"
  <2>1. c \in ReapplyCommands(applied, new, endpoint_ok) /\ applied \in Bundled /\ new \in Bundled
    BY <1>7 DEF Underway
  <2>2. c.op \in {"remove", "peer", "repeer", "readdress", "unaddress", "route", "unroute", "endpoint"}
    BY <2>1 DEF ReapplyCommands
  <2>3. c.op \in {"remove", "peer"} => Rekeyed /\ c.on = (IF c.op = "peer" THEN new.hub ELSE applied.hub)
                                            /\ c = Cmd(c.op, c.on)
    BY <2>1, <1>7 DEF ReapplyCommands
  <2>4. c.op = "repeer" => ~Rekeyed
    BY <2>1, <1>7 DEF ReapplyCommands
  <2>5. c.op \in {"readdress", "unaddress"} => c.on \in Addresses
    BY <2>1 DEF ReapplyCommands, Addresses
  <2>6. c.op \in {"route", "unroute"} => c.on \in Cidrs
    BY <2>1 DEF ReapplyCommands, Cidrs
  <2>7. c.op = "endpoint" => c = Cmd("endpoint", new.endpoint) /\ Resolves
    BY <2>1, <1>7 DEF ReapplyCommands
  <2> QED BY <2>1, <2>2, <2>3, <2>4, <2>5, <2>6, <2>7, <1>7
<1> QED BY <1>1, <1>2, <1>3, <1>5, <1>6, <1>7

-----------------------------------------------------------------------------
(* What WgView sees of a kernel: which peers are set, and their endpoints. *)
Unset(k, h) == ~k.peers[h].set /\ k.peers[h].endpoint = None
Bare(k) == \A h \in Hubs : Unset(k, h)
Shows(k, h, e) ==
  /\ k.peers[h].set /\ k.peers[h].endpoint = e
  /\ \A g \in Hubs \ {h} : Unset(k, g)
SameRows(k, l) ==
  \A h \in Hubs : (k.peers[h].set <=> l.peers[h].set) /\ k.peers[h].endpoint = l.peers[h].endpoint

LEMMA SeenBare ==
  ASSUME NEW k, Bare(k)
  PROVE  Seen(k) = [hub |-> None, endpoint |-> None]
BY DEF Bare, Unset, Seen

LEMMA SeenShows ==
  ASSUME NEW k, NEW h \in Hubs, NEW e, Shows(k, h, e)
  PROVE  Seen(k) = [hub |-> h, endpoint |-> e]
<1> DEFINE present == {g \in Hubs : k.peers[g].set}
<1>1. present = {h}
  BY DEF Shows, Unset
<1>2. (CHOOSE g \in present : TRUE) = h
  BY <1>1
<1> QED BY <1>1, <1>2 DEF Seen, Shows

LEMMA SeenSame ==
  ASSUME NEW k, NEW l, SameRows(k, l)
  PROVE  Seen(k) = Seen(l)
<1>1. {h \in Hubs : k.peers[h].set} = {h \in Hubs : l.peers[h].set}
  BY DEF SameRows
<1>2. CASE {h \in Hubs : k.peers[h].set} = {}
  BY <1>1, <1>2 DEF Seen
<1>3. CASE {h \in Hubs : k.peers[h].set} # {}
  <2> DEFINE g == CHOOSE h \in {f \in Hubs : k.peers[f].set} : TRUE
  <2>1. g \in Hubs
    BY <1>3
  <2>2. Seen(k) = [hub |-> g, endpoint |-> k.peers[g].endpoint]
    BY <1>3 DEF Seen
  <2>3. Seen(l) = [hub |-> g, endpoint |-> l.peers[g].endpoint]
    BY <1>1, <1>3 DEF Seen
  <2> QED BY <2>1, <2>2, <2>3 DEF SameRows
<1> QED BY <1>2, <1>3

(* What a command leaves, of the peers as WgView sees them                 *)
LEMMA Rows ==
  ASSUME kernel \in KernelType, NEW c, c.op \in DOMAIN Rank
  PROVE  /\ c.op \notin PeerOps \cup {"del", "remove"} => SameRows(After(c), kernel)
         /\ c.op = "del" => Bare(After(c))
         /\ c.op = "remove" =>
              /\ c.on \in Hubs => Unset(After(c), c.on)
              /\ \A h \in Hubs \ {c.on} : After(c).peers[h] = kernel.peers[h]
         /\ c.op \in PeerOps /\ new.hub \in Hubs =>
              /\ After(c).peers[new.hub].set
              /\ After(c).peers[new.hub].endpoint =
                   IF c.op = "endpoint" THEN c.on ELSE kernel.peers[new.hub].endpoint
              /\ \A h \in Hubs \ {new.hub} : Unset(kernel, h) => Unset(After(c), h)
<1> USE DEF KernelType, Rank
<1>1. ASSUME c.op \notin PeerOps \cup {"del", "remove"}
      PROVE  SameRows(After(c), kernel)
  <2>1. After(c).peers = kernel.peers
    BY <1>1 DEF After, PeerOps
  <2> QED BY <2>1 DEF SameRows
<1>2. ASSUME c.op = "del"
      PROVE  Bare(After(c))
  <2>1. After(c) = NoKernel
    BY <1>2 DEF After, PeerOps
  <2>2. \A h \in Hubs : NoKernel.peers[h] = NoPeer
    BY DEF NoKernel
  <2> QED BY <2>1, <2>2 DEF Bare, Unset, NoPeer
<1>3. ASSUME c.op = "remove"
      PROVE  /\ c.on \in Hubs => Unset(After(c), c.on)
             /\ \A h \in Hubs \ {c.on} : After(c).peers[h] = kernel.peers[h]
  <2>1. After(c).peers = [kernel.peers EXCEPT ![c.on] = NoPeer]
    BY <1>3 DEF After, PeerOps
  <2> QED BY <2>1 DEF Unset, NoPeer
<1>4. ASSUME c.op \in PeerOps, new.hub \in Hubs
      PROVE  /\ After(c).peers[new.hub].set
             /\ After(c).peers[new.hub].endpoint =
                  IF c.op = "endpoint" THEN c.on ELSE kernel.peers[new.hub].endpoint
             /\ \A h \in Hubs \ {new.hub} : Unset(kernel, h) => Unset(After(c), h)
  <2> DEFINE peer == [PeerAfter(c, kernel.peers[new.hub]) EXCEPT !.set = TRUE]
  <2>1. After(c).peers = WithPeer(new.hub, peer)
    BY <1>4 DEF After, PeerOps
  <2>2. kernel.peers[new.hub] \in PeerType
    BY <1>4
  <2>3. peer.set /\ peer.endpoint = IF c.op = "endpoint" THEN c.on ELSE kernel.peers[new.hub].endpoint
    BY <1>4, <2>2 DEF PeerAfter, PeerOps, PeerType
  <2>4. \A h \in Hubs \ {new.hub} :
          /\ After(c).peers[h].set = kernel.peers[h].set
          /\ After(c).peers[h].endpoint = kernel.peers[h].endpoint
    BY <2>1 DEF WithPeer, PeerType
  <2>5. After(c).peers[new.hub] = peer
    BY <1>4, <2>1 DEF WithPeer
  <2> QED BY <2>3, <2>4, <2>5 DEF Unset
<1> HIDE DEF KernelType, Rank
<1> QED BY <1>1, <1>2, <1>3, <1>4

-----------------------------------------------------------------------------
Doomed == \E c \in todo : c.op \in {"del", "remove"}
Coming == \E c \in todo : c.op = "peer"

(* Where a plan under way has got with the peer: still the old one, none,  *)
(* or the new one without an endpoint.                                     *)
Where ==
  /\ todo # {} /\ Rebuilds =>
       /\ Doomed => Coming /\ SameRows(kernel, before)
       /\ ~Doomed /\ Coming => Bare(kernel)
       /\ ~Coming => Shows(kernel, new.hub, None)
  /\ todo # {} /\ ~Rebuilds => SameRows(kernel, before)

(* What is applied is what the callers see.                                *)
Holds(k) ==
  /\ applied \in Bundled =>
       /\ Shows(k, applied.hub, k.peers[applied.hub].endpoint)
       /\ endpoint_ok => k.peers[applied.hub].endpoint = applied.endpoint
  /\ applied \notin Bundled => Bare(k)

Held == pc # "broken" => Holds(IF todo = {} THEN kernel ELSE before)

Kernels == kernel \in KernelType /\ before \in KernelType

Inv == Underway /\ Kernels /\ Where /\ Held

LEMMA Configs ==
  /\ NoConfig \notin Bundled
  /\ \A e \in Bundled :
       /\ e.hub \in Hubs /\ e.address \in Addresses /\ e.keepalive \in Keepalives
       /\ e.allowed \subseteq Cidrs
BY Wg0Assumption DEF NoConfig, Hubs, Addresses, Keepalives, Cidrs

(* A row that is there stays, but for its endpoint.                        *)
LEMMA KeepsRow ==
  ASSUME Underway, Kernels, NEW c \in todo, c.op \notin {"del", "remove"},
         NEW e, new.hub \in Hubs, Shows(kernel, new.hub, e)
  PROVE  Shows(After(c), new.hub, IF c.op = "endpoint" THEN new.endpoint ELSE e)
<1>1. c.op \in DOMAIN Rank /\ (c.op = "endpoint" => c.on = new.endpoint)
  BY Commands DEF Cmd
<1>2. CASE c.op \in PeerOps
  BY <1>1, <1>2, Rows DEF Kernels, Shows
<1>3. CASE c.op \notin PeerOps
  BY <1>1, <1>3, Rows DEF Kernels, Shows, SameRows, Unset, PeerOps
<1> QED BY <1>2, <1>3

(* The endpoint has its turn when nothing else is left.                    *)
LEMMA EndpointIsLast ==
  ASSUME Underway, NEW c \in todo, Turn(c), c.op = "endpoint"
  PROVE  todo = {c} /\ ~Doomed /\ ~Coming
<1>1. ASSUME NEW d \in todo
      PROVE  d = c
  <2>1. d.op \in DOMAIN Rank /\ Rank["endpoint"] <= Rank[d.op]
    BY Commands DEF Turn
  <2>2. d.op = "endpoint"
    BY <2>1 DEF Rank
  <2> QED BY <2>2, Commands
<1> QED BY <1>1 DEF Doomed, Coming

(* As long as the old peer is to go or the new one to come, no other       *)
(* command changes a row.                                                  *)
LEMMA PeerFirst ==
  ASSUME Underway, NEW c \in todo, Turn(c), Rebuilds, Coming
  PROVE  /\ c.op = "peer" => ~Doomed
         /\ c.op \in PeerOps => c.op = "peer"
<1>1. PICK p \in todo : p.op = "peer"
  BY DEF Coming
<1>2. Rank[c.op] <= 4 /\ c.op \in DOMAIN Rank
  BY <1>1, Commands DEF Turn, Rank
<1>3. c.op \in PeerOps => c.op = "peer"
  BY <1>2, Commands DEF PeerOps, Rank
<1>4. ASSUME c.op = "peer", NEW d \in todo
      PROVE  d.op \notin {"del", "remove"}
  <2>1. Rank["peer"] <= Rank[d.op]
    BY <1>4 DEF Turn
  <2> QED BY <2>1 DEF Rank
<1> QED BY <1>3, <1>4 DEF Doomed

-----------------------------------------------------------------------------
(* A command leaves a kernel.                                              *)
LEMMA AfterTyped ==
  ASSUME Underway, Kernels, NEW c \in todo
  PROVE  After(c) \in KernelType
<1> DEFINE nets == UNION ({{Net[x] : x \in Cidrs}} \cup {OwnNet[a] : a \in Addresses})
<1>1. /\ c.op \in DOMAIN Rank
      /\ c.op \in PeerOps => new \in Bundled
      /\ c.op = "endpoint" => c.on = new.endpoint
      /\ c.op \in {"address", "readdress", "unaddress"} => c.on \in Addresses
      /\ c.op \in {"route", "unroute"} => c.on \in Cidrs
  BY Commands DEF PeerOps, Cmd
<1>2. kernel \in [link : {"none", "added", "keyed", "up"}, peers : [Hubs -> PeerType],
                  addresses : SUBSET Addresses, routes : SUBSET nets]
  BY DEF Kernels, KernelType
<1>3. NoPeer \in PeerType
  BY DEF NoPeer, PeerType
<1>4. CASE c.op = "del"
  <2>1. NoKernel \in KernelType
    BY <1>3 DEF NoKernel, KernelType
  <2> QED BY <1>4, <2>1 DEF After, PeerOps
<1>5. CASE c.op = "remove"
  <2>1. After(c) = [kernel EXCEPT !.peers[c.on] = NoPeer]
    BY <1>5 DEF After, PeerOps
  <2> QED BY <2>1, <1>2, <1>3 DEF KernelType
<1>6. CASE c.op \in PeerOps
  <2> DEFINE peer == PeerAfter(c, kernel.peers[new.hub])
  <2>1. /\ new.hub \in Hubs
        /\ Nets(new.allowed) \subseteq {Net[x] : x \in Cidrs}
        /\ new.keepalive \in Keepalives /\ new.endpoint \in {e.endpoint : e \in Bundled}
    BY <1>1, <1>6, Configs DEF Nets
  <2>2. kernel.peers[new.hub] \in PeerType
    BY <1>2, <2>1
  <2>3. peer \in PeerType
    <3>1. CASE c.op = "peer"
      <4>1. peer = [kernel.peers[new.hub] EXCEPT !.allowed = Nets(new.allowed)]
        BY <3>1 DEF PeerAfter
      <4> QED BY <4>1, <2>1, <2>2 DEF PeerType
    <3>2. CASE c.op = "repeer"
      <4>1. peer = [kernel.peers[new.hub] EXCEPT
                      !.allowed = IF applied.allowed # new.allowed THEN Nets(new.allowed) ELSE @,
                      !.keepalive = IF applied.keepalive # new.keepalive THEN new.keepalive ELSE @]
        BY <3>2 DEF PeerAfter
      <4> QED BY <4>1, <2>1, <2>2 DEF PeerType
    <3>3. CASE c.op = "psk"
      <4>1. peer = [kernel.peers[new.hub] EXCEPT !.psk = TRUE]
        BY <3>3 DEF PeerAfter
      <4> QED BY <4>1, <2>1, <2>2 DEF PeerType
    <3>4. CASE c.op = "endpoint"
      <4>1. peer = [kernel.peers[new.hub] EXCEPT !.endpoint = c.on, !.keepalive = new.keepalive]
        BY <3>4 DEF PeerAfter
      <4> QED BY <4>1, <3>4, <1>1, <2>1, <2>2 DEF PeerType
    <3> QED BY <1>6, <3>1, <3>2, <3>3, <3>4 DEF PeerOps
  <2>4. [peer EXCEPT !.set = TRUE] \in PeerType
    BY <2>3 DEF PeerType
  <2>5. WithPeer(new.hub, [peer EXCEPT !.set = TRUE]) \in [Hubs -> PeerType]
    <3>1. ASSUME NEW h \in Hubs, NEW allowed
          PROVE  [kernel.peers[h] EXCEPT !.allowed = @ \ allowed] \in PeerType
      BY <1>2 DEF PeerType
    <3> QED BY <2>4, <3>1 DEF WithPeer
  <2>6. After(c) = [kernel EXCEPT !.peers = WithPeer(new.hub, [peer EXCEPT !.set = TRUE])]
    BY <1>6 DEF After, PeerOps
  <2> QED BY <2>5, <2>6, <1>2 DEF KernelType
<1>7. CASE c.op \in {"add", "key"}
  BY <1>7, <1>2 DEF After, PeerOps, KernelType
<1>8. CASE c.op \in {"address", "readdress", "unaddress"}
  BY <1>8, <1>1, <1>2 DEF After, PeerOps, KernelType
<1>9. CASE c.op = "up"
  <2>1. After(c) = [kernel EXCEPT !.link = "up",
                                  !.routes = @ \cup UNION {OwnNet[a] : a \in kernel.addresses}]
    BY <1>9 DEF After, PeerOps
  <2>2. UNION {OwnNet[a] : a \in kernel.addresses} \subseteq nets
    BY <1>2
  <2> QED BY <2>1, <2>2, <1>2 DEF KernelType
<1>10. CASE c.op \in {"route", "unroute"}
  <2>1. /\ c.op = "route" => After(c) = [kernel EXCEPT !.routes = @ \cup {Net[c.on]}]
        /\ c.op = "unroute" => After(c) = [kernel EXCEPT !.routes = @ \ {Net[c.on]}]
    BY <1>10 DEF After, PeerOps
  <2>2. Net[c.on] \in nets
    BY <1>1, <1>10
  <2> QED BY <2>1, <2>2, <1>2, <1>10 DEF KernelType
<1> QED BY <1>1, <1>4, <1>5, <1>6, <1>7, <1>8, <1>9, <1>10 DEF Rank, PeerOps

-----------------------------------------------------------------------------
Starts == Create \/ Apply \/ Reapply \/ SetEndpoint \/ DownUp

LEMMA StartUnderway ==
  ASSUME Inv, Starts
  PROVE  /\ Underway'
         /\ todo' # {} /\ Rebuilds' =>
              /\ applied \in Bundled => Doomed' /\ Coming'
              /\ applied \notin Bundled => ~Doomed' /\ Coming'
         /\ todo' # {} /\ applied \notin Bundled => Rebuilds' \/ pc' = "create"
<1> USE DEF Start
<1>1. Underway /\ Entries \subseteq Bundled /\ EnvEntries \subseteq Bundled /\ NoConfig \notin Bundled
  BY Configs DEF Inv, Bundled
<1>2. CASE Create
  <2>1. /\ pc' = "create" /\ new' = NoConfig /\ todo' = CreateCommands
        /\ applied' = NoConfig /\ endpoint_ok' /\ UNCHANGED <<fetched, psk>>
    BY <1>1, <1>2 DEF Create, Underway
  <2> QED BY <2>1, <1>1 DEF Underway, Rebuilds, Rekeyed, Resolves
<1>3. CASE Apply
  <2>1. /\ pc' = "apply" /\ new' \in Bundled /\ todo' = ApplyCommands(new') /\ applied = NoConfig
        /\ applied' = NoConfig /\ UNCHANGED <<fetched, psk, endpoint_ok>>
    <3>1. PICK eff \in Bundled : Start("apply", eff, ApplyCommands(eff))
      BY <1>1, <1>3 DEF Apply
    <3> QED BY <3>1, <1>3 DEF Apply, ApplyCommands
  <2>2. /\ \A c \in todo' : c.op \notin {"del", "remove"}
        /\ Cmd("endpoint", new'.endpoint) \in todo' /\ Cmd("peer", new'.hub) \in todo'
    BY <2>1 DEF ApplyCommands, EndpointCommand, OnRoutes, Cmd
  <2>3. ~Doomed' /\ Coming'
    BY <2>2 DEF Doomed, Coming, Cmd
  <2>4. todo' \subseteq ApplyCommands(new)'
    BY <2>1 DEF ApplyCommands
  <2>5. Underway'
    BY <2>1, <2>2, <2>4, <1>1 DEF Underway
  <2> QED BY <2>1, <2>3, <2>5, <1>1 DEF Rebuilds
<1>4. CASE Reapply
  <2>1. /\ pc' = "reapply" /\ new' \in Bundled \ {applied} /\ applied \in Bundled
        /\ todo' = ReapplyCommands(applied, new', endpoint_ok)
        /\ UNCHANGED <<fetched, psk, endpoint_ok, applied>>
    <3>1. PICK eff \in Bundled \ {applied} :
            Start("reapply", eff, ReapplyCommands(applied, eff, endpoint_ok))
      BY <1>1, <1>4 DEF Reapply
    <3> QED BY <3>1, <1>1, <1>4 DEF Reapply, Underway
  <2>2. Resolves' => Cmd("endpoint", new'.endpoint) \in todo'
    BY <2>1 DEF ReapplyCommands, Resolves, Rekeyed, EndpointCommand
  <2>3. Rekeyed' => Cmd("remove", applied.hub) \in todo' /\ Cmd("peer", new'.hub) \in todo'
    BY <2>1 DEF ReapplyCommands, Rekeyed
  <2>4. Rekeyed' => Doomed' /\ Coming'
    BY <2>3 DEF Doomed, Coming, Cmd
  <2>5. todo' \subseteq ReapplyCommands(applied, new, endpoint_ok)'
    BY <2>1 DEF ReapplyCommands
  <2>6. Underway'
    BY <2>1, <2>2, <2>5, <1>1 DEF Underway
  <2> QED BY <2>1, <2>4, <2>6, <1>1 DEF Rebuilds
<1>5. CASE SetEndpoint
  <2>1. /\ pc' = "set_endpoint" /\ new' = applied /\ applied \in Bundled
        /\ todo' = EndpointCommand(new')
        /\ UNCHANGED <<fetched, psk, endpoint_ok, applied>>
    BY <1>1, <1>5 DEF SetEndpoint, Underway
  <2>2. Cmd("endpoint", new'.endpoint) \in todo'
    BY <2>1 DEF EndpointCommand
  <2>3. todo' \subseteq EndpointCommand(new)'
    BY <2>1 DEF EndpointCommand
  <2>4. Underway'
    BY <2>1, <2>2, <2>3, <1>1 DEF Underway
  <2> QED BY <2>1, <2>4, <1>1 DEF Rebuilds, Rekeyed
<1>6. CASE DownUp
  <2>1. /\ pc' = "down_up" /\ new' = applied /\ applied \in Bundled
        /\ todo' = DownUpCommands(new')
        /\ UNCHANGED <<fetched, psk, endpoint_ok, applied>>
    BY <1>1, <1>6 DEF DownUp, Underway
  <2>2. /\ Cmd("endpoint", new'.endpoint) \in todo' /\ Cmd("peer", new'.hub) \in todo'
        /\ Cmd("del", None) \in todo'
    BY <2>1 DEF DownUpCommands, ApplyCommands, EndpointCommand
  <2>3. Doomed' /\ Coming'
    BY <2>2 DEF Doomed, Coming, Cmd
  <2>4. todo' \subseteq DownUpCommands(new)'
    BY <2>1, <1>6 DEF DownUpCommands, ApplyCommands, CreateCommands, EndpointCommand, OnRoutes, DownUp
  <2>5. Underway'
    BY <2>1, <2>2, <2>4, <1>1 DEF Underway
  <2> QED BY <2>1, <2>3, <2>5, <1>1
<1> QED BY <1>2, <1>3, <1>4, <1>5, <1>6 DEF Starts

(* A plan's start: the callers see what they saw.                          *)
LEMMA StartKeeps ==
  ASSUME Inv, Starts
  PROVE  /\ Inv'
         /\ Seen(IF todo = {} THEN kernel ELSE before)' = Seen(IF todo = {} THEN kernel ELSE before)
         /\ UNCHANGED <<applied, endpoint_ok>>
<1>1. /\ kernel' = kernel /\ before' = kernel /\ UNCHANGED <<applied, endpoint_ok>>
      /\ pc \in {"new", "idle"} /\ todo = {} /\ pc' # "broken"
  BY DEF Inv, Underway, Starts, Create, Apply, Reapply, SetEndpoint, DownUp, Start
<1>2. Holds(kernel)
  BY <1>1 DEF Inv, Held
<1>3. Where'
  <2>1. SameRows(kernel, before)'
    BY <1>1 DEF SameRows
  <2>2. applied \notin Bundled => Bare(kernel)'
    BY <1>1, <1>2 DEF Holds, Bare, Unset
  <2> QED BY <2>1, <2>2, StartUnderway DEF Where
<1>4. Held'
  <2>1. Holds(kernel)' /\ Holds(before)'
    BY <1>1, <1>2 DEF Holds, Shows, Bare, Unset
  <2> QED BY <2>1 DEF Held
<1>5. Kernels'
  BY <1>1 DEF Inv, Kernels
<1>6. Seen(IF todo = {} THEN kernel ELSE before)' = Seen(kernel)
  BY <1>1 DEF Seen
<1> QED BY <1>1, <1>3, <1>4, <1>5, <1>6, StartUnderway DEF Inv

-----------------------------------------------------------------------------
(* A command that is not the plan's last                                   *)
LEMMA RunOn ==
  ASSUME Inv, NEW c \in todo, Turn(c), kernel' = After(c), todo' = todo \ {c}, todo' # {},
         UNCHANGED <<fetched, psk, new, before, pc, applied, endpoint_ok>>
  PROVE  Inv'
<1>1. Underway /\ Kernels /\ Where /\ Held
  BY DEF Inv
<1>2. c.op # "endpoint"
  BY <1>1, EndpointIsLast
<1>3. Underway'
  <2>1. Resolves' = Resolves
    BY DEF Resolves, Rekeyed
  <2>2. Resolves => Cmd("endpoint", new.endpoint) \in todo'
    BY <1>1, <1>2 DEF Underway, Cmd
  <2>3. /\ ApplyCommands(new)' = ApplyCommands(new)
        /\ ReapplyCommands(applied, new, endpoint_ok)' = ReapplyCommands(applied, new, endpoint_ok)
        /\ EndpointCommand(new)' = EndpointCommand(new)
        /\ DownUpCommands(new)' = DownUpCommands(new)
    BY DEF ApplyCommands, ReapplyCommands, EndpointCommand, DownUpCommands
  <2> QED BY <1>1, <2>1, <2>2, <2>3 DEF Underway
<1>4. Kernels'
  BY <1>1, AfterTyped DEF Kernels, KernelType
<1>5. Held'
  BY <1>1 DEF Held, Holds, Shows, Bare, Unset
<1>6. Holds(before) /\ pc # "broken" /\ c.op \in DOMAIN Rank
  BY <1>1, Commands DEF Held, Underway
<1>7. Rebuilds' = Rebuilds
  BY DEF Rebuilds, Rekeyed
<1>8. ASSUME Rebuilds
      PROVE  /\ Doomed' => Coming' /\ SameRows(kernel, before)'
             /\ ~Doomed' /\ Coming' => Bare(kernel)'
             /\ ~Coming' => Shows(kernel, new.hub, None)'
  <2>1. /\ Doomed => Coming /\ SameRows(kernel, before)
        /\ ~Doomed /\ Coming => Bare(kernel)
        /\ ~Coming => Shows(kernel, new.hub, None)
    BY <1>1, <1>8 DEF Where
  <2>2. CASE c.op \in {"del", "remove"}
    <3>1. Doomed /\ Coming /\ SameRows(kernel, before)
      BY <2>1, <2>2 DEF Doomed
    <3>2. ASSUME NEW d \in todo, d.op \in {"del", "remove"}
          PROVE  d = c
      <4>1. /\ d.op = "del" => d = Cmd("del", None) /\ pc = "down_up"
            /\ d.op = "remove" => d = Cmd("remove", applied.hub) /\ Rekeyed
        BY <1>1, <3>2, Commands
      <4>2. /\ c.op = "del" => c = Cmd("del", None) /\ pc = "down_up"
            /\ c.op = "remove" => c = Cmd("remove", applied.hub) /\ Rekeyed
        BY <1>1, <2>2, Commands
      <4> QED BY <4>1, <4>2, <2>2, <3>2 DEF Rekeyed
    <3>3. ~Doomed' /\ Coming'
      BY <3>1, <3>2, <2>2 DEF Doomed, Coming
    <3>4. CASE c.op = "del"
      <4>1. Bare(kernel')
        BY <3>4, <1>1, <1>6, Rows DEF Kernels
      <4> QED BY <4>1, <3>3 DEF Bare, Unset
    <3>5. CASE c.op = "remove"
      <4>1. c.on = applied.hub /\ applied \in Bundled /\ applied.hub \in Hubs
        <5>1. c = Cmd("remove", applied.hub) /\ Rekeyed
          BY <1>1, <3>5, Commands
        <5> QED BY <5>1, <1>1, Configs DEF Cmd, Rekeyed, Underway
      <4>2. \A h \in Hubs \ {applied.hub} : Unset(kernel, h)
        BY <4>1, <1>6, <3>1 DEF Holds, Shows, SameRows, Unset
      <4>3. /\ Unset(kernel', applied.hub)
            /\ \A h \in Hubs \ {applied.hub} : kernel'.peers[h] = kernel.peers[h]
        BY <4>1, <3>5, <1>1, <1>6, Rows DEF Kernels
      <4>4. Bare(kernel')
        BY <4>2, <4>3 DEF Bare, Unset
      <4> QED BY <4>4, <3>3 DEF Bare, Unset
    <3> QED BY <2>2, <3>4, <3>5
  <2>3. CASE c.op = "peer"
    <3>1. Coming /\ c = Cmd("peer", new.hub) /\ new.hub \in Hubs
      BY <2>3, <1>1, Commands, Configs DEF Coming
    <3>2. ~Doomed /\ Bare(kernel)
      BY <3>1, <2>1, <2>3, <1>1, <1>8, PeerFirst
    <3>3. Shows(kernel', new.hub, None)
      <4>1. /\ kernel'.peers[new.hub].set
            /\ kernel'.peers[new.hub].endpoint = kernel.peers[new.hub].endpoint
            /\ \A h \in Hubs \ {new.hub} : Unset(kernel, h) => Unset(kernel', h)
        BY <2>3, <3>1, <1>1, <1>6, Rows DEF Kernels, PeerOps
      <4> QED BY <4>1, <3>1, <3>2 DEF Shows, Bare, Unset
    <3>4. ~Doomed' /\ ~Coming'
      <4>1. ASSUME NEW d \in todo, d.op = "peer"
            PROVE  d = c
        BY <4>1, <3>1, <1>1, Commands
      <4> QED BY <4>1, <3>2 DEF Doomed, Coming
    <3> QED BY <3>3, <3>4 DEF Shows, Unset
  <2>4. CASE c.op \notin {"del", "remove", "peer"}
    <3>1. Doomed' = Doomed /\ Coming' = Coming
      BY <2>4 DEF Doomed, Coming
    <3>2. CASE Coming
      <4>1. SameRows(kernel', kernel)
        <5>1. c.op \notin PeerOps
          BY <2>4, <3>2, <1>1, <1>8, PeerFirst
        <5> QED BY <5>1, <2>4, <1>1, <1>6, Rows DEF Kernels
      <4> QED BY <4>1, <3>1, <3>2, <2>1 DEF SameRows, Bare, Unset
    <3>3. CASE ~Coming
      <4>1. Shows(kernel, new.hub, None) /\ new.hub \in Hubs
        <5>1. new \in Bundled
          BY <1>1, <1>8 DEF Underway, Rebuilds, Rekeyed
        <5> QED BY <5>1, <3>3, <2>1, Configs
      <4>2. Shows(kernel', new.hub, None)
        BY <4>1, <2>4, <1>1, <1>2, KeepsRow
      <4> QED BY <4>2, <3>1, <3>3, <2>1 DEF Shows, Unset
    <3> QED BY <3>2, <3>3
  <2> QED BY <2>2, <2>3, <2>4
<1>9. ASSUME ~Rebuilds
      PROVE  SameRows(kernel, before)'
  <2>1. SameRows(kernel, before)
    BY <1>1, <1>9 DEF Where
  <2>2. c.op \notin {"del", "remove", "peer", "psk"}
    BY <1>1, <1>9, Commands DEF Rebuilds
  <2>3. CASE c.op = "repeer"
    <3>1. applied \in Bundled /\ new.hub = applied.hub /\ new.hub \in Hubs
      <4>1. new \in Bundled
        BY <2>3, <1>1, Commands
      <4>2. applied \in Bundled /\ pc \in {"reapply", "set_endpoint"}
        BY <4>1, <1>1, <1>9, Configs DEF Underway, Rebuilds
      <4> QED BY <4>1, <4>2, <1>1, <1>9, Configs DEF Underway, Rebuilds, Rekeyed
    <3>2. Shows(kernel, new.hub, before.peers[new.hub].endpoint)
      BY <3>1, <2>1, <1>6 DEF Holds, Shows, SameRows, Unset
    <3>3. Shows(kernel', new.hub, before.peers[new.hub].endpoint)
      BY <3>1, <3>2, <2>3, <1>1, KeepsRow
    <3> QED BY <3>1, <3>3, <1>6 DEF Holds, Shows, SameRows, Unset
  <2>4. CASE c.op # "repeer"
    <3>1. SameRows(kernel', kernel)
      BY <2>2, <2>4, <1>1, <1>2, <1>6, Rows DEF Kernels, PeerOps
    <3> QED BY <3>1, <2>1 DEF SameRows
  <2> QED BY <2>3, <2>4
<1> QED BY <1>3, <1>4, <1>5, <1>7, <1>8, <1>9 DEF Inv, Where

-----------------------------------------------------------------------------
(* A plan's end, whether all its commands ran or the endpoint's failed     *)
Ends(ok) ==
  \E c \in todo :
    /\ Turn(c)
    /\ IF ok THEN todo = {c} /\ kernel' = After(c) ELSE c.op = "endpoint" /\ kernel' = kernel

Left(ok) ==
  IF ok /\ Resolves THEN new.endpoint
  ELSE IF Rebuilds THEN None ELSE before.peers[applied.hub].endpoint

LEMMA Outcome ==
  ASSUME Inv, NEW ok \in BOOLEAN, Ends(ok), pc # "create"
  PROVE  /\ new \in Bundled /\ Shows(kernel', new.hub, Left(ok))
         /\ ~Rebuilds => applied \in Bundled /\ applied.hub = new.hub
         /\ ~Resolves => /\ ok /\ pc = "reapply" /\ endpoint_ok
                         /\ ~Rebuilds /\ applied.endpoint = new.endpoint
<1>1. Underway /\ Kernels /\ Where /\ Held
  BY DEF Inv
<1>2. PICK c \in todo :
        /\ Turn(c)
        /\ IF ok THEN todo = {c} /\ kernel' = After(c) ELSE c.op = "endpoint" /\ kernel' = kernel
  BY DEF Ends
<1>3. pc \in {"apply", "reapply", "set_endpoint", "down_up"} /\ new \in Bundled
  BY <1>1, <1>2 DEF Underway
<1>4. ~Resolves => pc = "reapply" /\ endpoint_ok /\ ~Rebuilds /\ applied.endpoint = new.endpoint
  BY <1>3 DEF Resolves, Rebuilds
<1>5. ~Rebuilds => applied \in Bundled /\ applied.hub = new.hub
  BY <1>1, <1>3 DEF Rebuilds, Rekeyed, Underway
<1>6. ~ok => Resolves
  BY <1>1, <1>2, Commands
<1>7. Resolves => c.op = "endpoint"
  <2>1. CASE ok
    BY <2>1, <1>1, <1>2 DEF Underway, Cmd
  <2> QED BY <2>1, <1>2
<1>8. ~Doomed /\ ~Coming /\ c.op \notin {"del", "remove", "peer"}
  <2>1. CASE Resolves
    BY <2>1, <1>1, <1>2, <1>7, EndpointIsLast
  <2>2. CASE ~Resolves
    <3>1. \A d \in todo : d.op \notin {"del", "remove", "peer"}
      BY <2>2, <1>1, <1>4, Commands DEF Rebuilds
    <3> QED BY <3>1 DEF Doomed, Coming
  <2> QED BY <2>1, <2>2
<1>9. new.hub \in Hubs
  BY <1>3, Configs
<1> DEFINE e == IF Rebuilds THEN None ELSE before.peers[applied.hub].endpoint
<1>10. Shows(kernel, new.hub, e)
  <2>1. CASE Rebuilds
    BY <2>1, <1>1, <1>2, <1>8 DEF Where
  <2>2. CASE ~Rebuilds
    <3>1. SameRows(kernel, before) /\ Holds(before)
      BY <2>2, <1>1, <1>2, <1>3 DEF Where, Held
    <3> QED BY <3>1, <2>2, <1>5, <1>9 DEF Holds, Shows, SameRows, Unset
  <2> QED BY <2>1, <2>2
<1>11. Shows(kernel', new.hub, Left(ok))
  <2>1. CASE ~ok
    <3>1. Left(ok) = e /\ kernel' = kernel
      BY <2>1, <1>2 DEF Left
    <3> QED BY <3>1, <1>10
  <2>2. CASE ok
    <3>1. Shows(After(c), new.hub, IF c.op = "endpoint" THEN new.endpoint ELSE e)
      BY <1>1, <1>8, <1>9, <1>10, KeepsRow
    <3>2. c.op = "endpoint" => Resolves
      BY <1>1, Commands
    <3>3. Left(ok) = IF c.op = "endpoint" THEN new.endpoint ELSE e
      BY <2>2, <3>2, <1>7 DEF Left
    <3> QED BY <3>1, <3>3, <2>2, <1>2
  <2> QED BY <2>1, <2>2
<1> HIDE DEF e
<1> QED BY <1>3, <1>4, <1>5, <1>6, <1>11

LEMMA FinishKeeps ==
  ASSUME Inv, NEW ok \in BOOLEAN, Ends(ok), Finish(ok), todo' = {}, Kernels',
         UNCHANGED <<fetched, psk, new, before>>
  PROVE  Inv' /\ [View!Next]_(View!vars)
<1>1. Underway /\ Kernels /\ Where /\ Held /\ todo # {}
  BY DEF Inv, Ends
<1>2. pc' = "idle" /\ applied' = new /\ endpoint_ok' = ok
  BY DEF Finish
<1>3. Underway'
  BY <1>1, <1>2 DEF Underway
<1>4. Where'
  BY DEF Where
<1> DEFINE wg == Seen(IF todo = {} THEN kernel ELSE before)
<1>5. wg = Seen(before) /\ wg' = Seen(kernel') /\ Holds(before)
  BY <1>1 DEF Held, Underway, Seen
<1>6. CASE pc = "create"
  <2>1. applied = NoConfig /\ new = NoConfig /\ endpoint_ok /\ NoConfig \notin Bundled
    BY <1>1, <1>6, Configs DEF Underway
  <2>2. PICK c \in todo : IF ok THEN kernel' = After(c) ELSE c.op = "endpoint"
    BY DEF Ends
  <2>3. ok /\ c.op \in DOMAIN Rank /\ c.op \notin PeerOps \cup {"del", "remove"}
    <3>1. c.op \in {"add", "key"}
      BY <1>1, <1>6 DEF Underway, CreateCommands, Cmd
    <3> QED BY <3>1, <2>2 DEF Rank, PeerOps
  <2>4. SameRows(kernel', before)
    <3>1. SameRows(kernel', kernel)
      BY <2>2, <2>3, <1>1, Rows DEF Kernels
    <3>2. SameRows(kernel, before)
      BY <1>1, <1>6 DEF Where, Rebuilds, Rekeyed
    <3> QED BY <3>1, <3>2 DEF SameRows
  <2>5. wg' = wg
    BY <2>4, <1>5, SeenSame
  <2>6. Holds(kernel)'
    <3>1. Bare(kernel')
      BY <2>1, <2>4, <1>5 DEF Holds, Bare, Unset, SameRows
    <3> QED BY <3>1, <2>1, <1>2 DEF Holds, Bare, Unset
  <2>7. Held'
    BY <2>6 DEF Held
  <2>8. UNCHANGED View!vars
    BY <2>1, <2>3, <2>5, <1>1, <1>2 DEF View!vars, Underway
  <2> QED BY <2>7, <2>8, <1>3, <1>4 DEF Inv
<1>7. CASE pc # "create"
  <2>1. /\ new \in Bundled /\ Shows(kernel', new.hub, Left(ok)) /\ new.hub \in Hubs
        /\ ~Rebuilds => applied \in Bundled /\ applied.hub = new.hub
        /\ ~Resolves => /\ ok /\ pc = "reapply" /\ endpoint_ok
                        /\ ~Rebuilds /\ applied.endpoint = new.endpoint
    BY <1>7, Outcome, Configs
  <2>2. applied \in Bundled =>
          /\ Shows(before, applied.hub, before.peers[applied.hub].endpoint)
          /\ endpoint_ok => before.peers[applied.hub].endpoint = applied.endpoint
          /\ applied.hub \in Hubs
    BY <1>5, Configs DEF Holds
  <2>3. applied \in Bundled =>
          wg = [hub |-> applied.hub, endpoint |-> before.peers[applied.hub].endpoint]
    BY <2>2, <1>5, SeenShows
  <2>4. wg' = [hub |-> new.hub, endpoint |-> Left(ok)]
    BY <2>1, <1>5, SeenShows
  <2>5. ok => Left(ok) = new.endpoint
    BY <2>1, <2>2 DEF Left
  <2>6. Held'
    <3>1. Holds(kernel)'
      BY <2>1, <2>5, <1>2 DEF Holds, Shows, Unset
    <3> QED BY <3>1 DEF Held
  <2>7. View!Next
    <3> USE DEF View!Leave
    <3>1. CASE pc \in {"apply", "reapply"}
      <4>1. applied' \in Bundled \ {applied}
        BY <3>1, <2>1, <1>1, <1>2, Configs DEF Underway
      <4>2. View!Anew(new) <=> Rebuilds
        BY <3>1, <1>1, Configs DEF View!Anew, View!Unapplied, Rebuilds, Rekeyed, Underway
      <4>3. View!Needed(new) \/ ok
        BY <3>1, <4>2, <2>1 DEF View!Needed, Resolves, Rebuilds, Left
      <4>4. View!Leave(IF View!Anew(new) THEN [hub |-> new.hub, endpoint |-> View!None] ELSE wg, new, ok)
        BY <4>2, <2>1, <2>3, <2>4, <2>5, <1>2 DEF Left, View!None, None
      <4>5. View!Apply
        BY <4>1, <4>3, <4>4, <1>2 DEF View!Apply
      <4> QED BY <4>5 DEF View!Next
    <3>2. CASE pc = "set_endpoint"
      <4>1. applied \in Bundled /\ new = applied /\ ~Rebuilds
        BY <3>2, <1>1 DEF Underway, Rebuilds, Rekeyed
      <4>2. View!Leave(wg, applied, ok)
        BY <4>1, <2>3, <2>4, <2>5, <1>2 DEF Left
      <4>3. View!SetEndpoint
        BY <4>1, <4>2, <1>2 DEF View!SetEndpoint
      <4> QED BY <4>3 DEF View!Next
    <3>3. CASE pc = "down_up"
      <4>1. applied \in Bundled /\ new = applied /\ Rebuilds
        BY <3>3, <1>1 DEF Underway, Rebuilds
      <4>2. View!Leave([hub |-> applied.hub, endpoint |-> View!None], applied, ok)
        BY <4>1, <2>4, <2>5, <1>2 DEF Left, View!None, None
      <4>3. View!DownUp
        BY <4>1, <4>2, <1>2 DEF View!DownUp
      <4> QED BY <4>3 DEF View!Next
    <3> QED BY <3>1, <3>2, <3>3, <1>1, <1>7 DEF Underway
  <2> QED BY <2>6, <2>7, <1>3, <1>4 DEF Inv
<1> QED BY <1>6, <1>7

-----------------------------------------------------------------------------
LEMMA InitInv == Init => Inv /\ View!Init
<1> SUFFICES ASSUME Init PROVE Inv /\ View!Init
  OBVIOUS
<1> USE DEF Init
<1>1. Underway
  BY DEF Underway
<1>2. Bare(kernel)
  BY DEF NoKernel, NoPeer, Bare, Unset
<1>3. Kernels
  <2>1. NoPeer \in PeerType
    BY DEF NoPeer, PeerType
  <2> QED BY <2>1 DEF Kernels, KernelType, NoKernel
<1>4. Where /\ Held /\ applied \notin Bundled
  BY <1>2, Configs DEF Where, Held, Holds
<1>5. View!Init
  <2>1. Seen(IF todo = {} THEN kernel ELSE before) = [hub |-> None, endpoint |-> None]
    BY <1>2, SeenBare
  <2> QED BY <2>1, <1>4 DEF View!Init, View!Absent, View!Unapplied, View!None, None
<1> QED BY <1>1, <1>3, <1>4, <1>5 DEF Inv

LEMMA NextInv ==
  ASSUME Inv, [Next]_vars
  PROVE  Inv' /\ [View!Next]_(View!vars)
<1>1. CASE Starts
  BY <1>1, StartKeeps DEF View!vars
<1>2. CASE Run
  <2>1. PICK c \in todo : Turn(c) /\ CanRun(c) /\ kernel' = After(c) /\ todo' = todo \ {c}
    BY <1>2 DEF Run
  <2>2. UNCHANGED <<fetched, psk, new, before>>
    BY <1>2 DEF Run
  <2>3. CASE todo' = {}
    <3>1. Finish(TRUE) /\ Ends(TRUE)
      BY <1>2, <2>1, <2>3 DEF Run, Ends
    <3>2. Kernels'
      BY <2>1, <2>2, AfterTyped DEF Inv, Kernels, KernelType
    <3> QED BY <2>2, <2>3, <3>1, <3>2, FinishKeeps
  <2>4. CASE todo' # {}
    <3>1. UNCHANGED <<pc, applied, endpoint_ok>>
      BY <1>2, <2>4 DEF Run
    <3>2. Inv'
      BY <2>1, <2>2, <2>4, <3>1, RunOn
    <3>3. UNCHANGED View!vars
      BY <2>1, <2>2, <2>4, <3>1 DEF View!vars, Seen
    <3> QED BY <3>2, <3>3
  <2> QED BY <2>3, <2>4
<1>3. CASE EndpointFails
  <2>1. /\ Ends(FALSE) /\ Finish(FALSE) /\ todo' = {} /\ Kernels'
        /\ UNCHANGED <<fetched, psk, new, before>>
    BY <1>3 DEF EndpointFails, Ends, Inv, Kernels, KernelType
  <2> QED BY <2>1, FinishKeeps
<1>4. CASE LocalFails
  <2>1. /\ todo' = {} /\ pc' = "broken" /\ kernel' = NoKernel
        /\ UNCHANGED <<fetched, psk, applied, endpoint_ok, new, before>>
    BY <1>4 DEF LocalFails
  <2>2. Underway' /\ Where' /\ Held'
    BY <2>1 DEF Inv, Underway, Where, Held
  <2>3. Kernels'
    <3>1. NoPeer \in PeerType
      BY DEF NoPeer, PeerType
    <3> QED BY <2>1, <3>1 DEF Inv, Kernels, KernelType, NoKernel
  <2>4. Seen(IF todo = {} THEN kernel ELSE before)' = [hub |-> None, endpoint |-> None]
    <3>1. Bare(NoKernel)
      BY DEF NoKernel, NoPeer, Bare, Unset
    <3>2. Seen(NoKernel) = [hub |-> None, endpoint |-> None]
      BY <3>1, SeenBare
    <3> QED BY <2>1, <3>2 DEF Seen
  <2>5. View!Break
    BY <2>1, <2>4 DEF View!Break, View!Absent, View!None, None
  <2> QED BY <2>2, <2>3, <2>5 DEF Inv, View!Next
<1>5. CASE UNCHANGED vars
  <2>1. UNCHANGED <<fetched, psk, kernel, applied, endpoint_ok, pc, new, todo, before>>
    BY <1>5 DEF vars
  <2>2. Underway'
    BY <2>1 DEF Inv, Underway, Resolves, Rekeyed, ApplyCommands, ReapplyCommands,
                EndpointCommand, DownUpCommands
  <2>3. Where'
    BY <2>1 DEF Inv, Where, Doomed, Coming, Rebuilds, Rekeyed, SameRows, Bare, Shows, Unset
  <2>4. Held' /\ Kernels'
    BY <2>1 DEF Inv, Held, Holds, Bare, Shows, Unset, Kernels, KernelType
  <2>5. UNCHANGED View!vars
    BY <2>1 DEF View!vars, Seen
  <2> QED BY <2>2, <2>3, <2>4, <2>5 DEF Inv
<1> QED BY <1>1, <1>2, <1>3, <1>4, <1>5 DEF Next, Starts

(* wg0 is a kernel's interface with rows of known peers, and what is under *)
(* way is a plan of the planner's (wireguard.rs 219-320).                  *)
THEOREM TypeCorrect == Spec => []TypeOK
<1>1. Inv => TypeOK
  <2> SUFFICES ASSUME Inv PROVE TypeOK
    OBVIOUS
  <2>1. \A c \in todo : c.op \in DOMAIN Rank
    BY Commands DEF Inv
  <2> QED BY <2>1 DEF Inv, Underway, Kernels, KernelType, TypeOK
<1> QED BY <1>1, InitInv, NextInv, PTL DEF Spec

(* Whatever the configurations, and whichever command a plan stopped at:   *)
(* to the supervisor and the boot each apply, re-apply and repair is one   *)
(* step, whose outcome endpoint_ok tells (wireguard.rs 250-294).           *)
THEOREM Implements == Spec => OneStepToCallers
BY InitInv, NextInv, PTL DEF Spec, OneStepToCallers, View!Spec

-----------------------------------------------------------------------------
(* What a plan under way has made of the kernel so far, of its commands t  *)
(* being left: its link, addresses, routes and peers.                      *)
Has(op, t) == \E c \in t : c.op = op

Linked(k, t) ==
  /\ pc \in {"reapply", "set_endpoint"} => k.link = "up"
  /\ pc \in {"create", "apply", "down_up"} =>
       k.link = IF Has("del", t) THEN "up"
                ELSE IF Has("add", t) THEN "none"
                ELSE IF Has("key", t) THEN "added"
                ELSE IF Has("up", t) \/ pc = "create" THEN "keyed" ELSE "up"

Addressed(k, t) ==
  /\ pc = "create" => k.addresses = {}
  /\ pc \in {"apply", "down_up"} =>
       k.addresses = IF Has("address", t) /\ ~Has("del", t) THEN {} ELSE {new.address}
  /\ pc = "set_endpoint" => k.addresses = {new.address}
  /\ pc = "reapply" =>
       k.addresses =
         (IF Has("unaddress", t) \/ applied.address = new.address THEN {applied.address} ELSE {})
           \cup (IF Has("readdress", t) THEN {} ELSE {new.address})

Ways(t) ==
  {x \in new.allowed : Cmd("route", x) \notin t}
    \cup {x \in applied.allowed : pc = "reapply" /\ Cmd("unroute", x) \in t}

Routed(k, t) ==
  /\ pc = "create" => k.routes = {}
  /\ pc \in {"apply", "down_up"} =>
       k.routes = IF Has("del", t) THEN Routes(new)
                  ELSE Nets(Ways(t)) \cup (IF Has("up", t) THEN {} ELSE OwnNet[new.address])
  /\ pc = "set_endpoint" => k.routes = Routes(new)
  /\ pc = "reapply" => k.routes = Nets(Ways(t))

NoneBut(k, h) == \A g \in Hubs \ {h} : k.peers[g] = NoPeer
Row(k, allowed, key) ==
  k.peers[new.hub].set /\ k.peers[new.hub].allowed = allowed /\ (k.peers[new.hub].psk <=> key)

Peered(k, t) ==
  /\ pc = "create" => \A h \in Hubs : k.peers[h] = NoPeer
  /\ Rebuilds =>
       IF Has("del", t) \/ Has("remove", t) THEN NoneBut(k, applied.hub)
       ELSE /\ NoneBut(k, new.hub)
            /\ IF Has("peer", t) THEN k.peers[new.hub] = NoPeer
               ELSE Row(k, Nets(new.allowed), psk /\ ~Has("psk", t))
  /\ pc = "set_endpoint" => NoneBut(k, new.hub) /\ Row(k, Nets(new.allowed), psk)
  /\ pc = "reapply" /\ ~Rekeyed =>
       /\ NoneBut(k, new.hub)
       /\ Row(k, Nets(IF Has("repeer", t) THEN applied.allowed ELSE new.allowed), psk)
       /\ endpoint_ok =>
            /\ k.peers[new.hub].endpoint \in {applied.endpoint, new.endpoint}
            /\ k.peers[new.hub].keepalive = IF Has("repeer", t) THEN applied.keepalive ELSE new.keepalive

(* What has run was due before what is left.                               *)
PlanOf ==
  IF pc = "create" THEN CreateCommands
  ELSE IF pc = "apply" THEN ApplyCommands(new)
  ELSE IF pc = "down_up" THEN DownUpCommands(new)
  ELSE IF pc = "reapply" THEN ReapplyCommands(applied, new, endpoint_ok)
  ELSE {}

Later(t) == \A done \in PlanOf \ t, left \in t : Rank[done.op] <= Rank[left.op]

Progress(k, t) == Later(t) /\ Linked(k, t) /\ Addressed(k, t) /\ Routed(k, t) /\ Peered(k, t)

(* And what it has made of it when it is over.                             *)
Settles(k, eff, ok) ==
  /\ k.link = "up" /\ k.addresses = {eff.address} /\ k.routes = Routes(eff)
  /\ NoneBut(k, eff.hub)
  /\ k.peers[eff.hub].set /\ k.peers[eff.hub].allowed = Nets(eff.allowed)
  /\ k.peers[eff.hub].psk <=> psk
  /\ ok => k.peers[eff.hub].endpoint = eff.endpoint /\ k.peers[eff.hub].keepalive = eff.keepalive

Rests ==
  /\ pc = "new" => kernel = NoKernel
  /\ pc = "idle" /\ applied \notin Bundled =>
       /\ kernel.link = "keyed" /\ kernel.addresses = {} /\ kernel.routes = {}
       /\ \A h \in Hubs : kernel.peers[h] = NoPeer
  /\ pc = "idle" /\ applied \in Bundled => Settles(kernel, applied, endpoint_ok)

(* Only a bundle's configuration is ever replaced by another.              *)
Modes ==
  /\ fetched => psk = FALSE /\ {applied, new} \subseteq Entries \cup {NoConfig}
  /\ ~fetched => pc # "reapply"

(* The whole of it: where the kernel rests between plans, how far it is in *)
(* one.                                                                    *)
FullInv == Inv /\ Modes /\ Rests /\ Progress(kernel, todo)

LEMMA NetsOf ==
  /\ Nets({}) = {}
  /\ \A S, T : Nets(S \cup T) = Nets(S) \cup Nets(T)
  /\ \A x : Nets({x}) = {Net[x]}
<1>1. \A S, T : Nets(S \cup T) = Nets(S) \cup Nets(T)
  <2> TAKE S, T
  <2> QED BY DEF Nets
<1>2. \A x : Nets({x}) = {Net[x]}
  <2> TAKE x
  <2> QED BY DEF Nets
<1> QED BY <1>1, <1>2 DEF Nets

LEMMA NoPeerKept == \A S : [NoPeer EXCEPT !.allowed = @ \ S] = NoPeer
<1> TAKE S
<1>1. NoPeer.allowed \ S = {} /\ NoPeer.allowed = {}
  BY DEF NoPeer
<1>2. NoPeer = [x \in DOMAIN NoPeer |-> NoPeer[x]]
  BY DEF NoPeer
<1>3. [NoPeer EXCEPT !.allowed = {}]
        = [x \in DOMAIN NoPeer |-> IF x = "allowed" THEN {} ELSE NoPeer[x]]
  OBVIOUS
<1>4. [x \in DOMAIN NoPeer |-> IF x = "allowed" THEN {} ELSE NoPeer[x]]
        = [x \in DOMAIN NoPeer |-> NoPeer[x]]
  BY <1>1
<1>5. [NoPeer EXCEPT !.allowed = @ \ S] = [NoPeer EXCEPT !.allowed = {}]
  BY <1>1
<1> QED BY <1>2, <1>3, <1>4, <1>5

(* Which plan a command is of, and that no plan has it twice               *)
LEMMA OfPlan ==
  ASSUME Underway, NEW c \in todo
  PROVE  /\ c.op \in {"add", "key"} => c = Cmd(c.op, None) /\ pc \in {"create", "down_up"}
         /\ c.op = "up" => c = Cmd("up", None) /\ pc \in {"apply", "down_up"}
         /\ c.op = "address" => c = Cmd("address", new.address) /\ pc \in {"apply", "down_up"}
         /\ c.op = "psk" => c = Cmd("psk", new.hub) /\ pc \in {"apply", "down_up"} /\ psk
         /\ c.op = "repeer" => c = Cmd("repeer", new.hub) /\ pc = "reapply" /\ ~Rekeyed
         /\ c.op = "readdress" => c = Cmd("readdress", new.address) /\ pc = "reapply"
         /\ c.op = "unaddress" => c = Cmd("unaddress", applied.address) /\ pc = "reapply"
         /\ c.op \in {"readdress", "unaddress"} => applied.address # new.address
         /\ c.op = "route" => /\ c = Cmd("route", c.on) /\ c.on \in new.allowed
                              /\ pc \in {"apply", "down_up", "reapply"}
         /\ c.op = "unroute" => /\ c = Cmd("unroute", c.on) /\ pc = "reapply"
                                /\ c.on \in applied.allowed \ new.allowed
<1>1. pc \in {"create", "apply", "reapply", "set_endpoint", "down_up"}
  BY DEF Underway
<1> USE DEF Cmd, OnRoutes, EndpointCommand, None, Rekeyed
<1>2. CASE pc = "create"
  <2>1. c \in CreateCommands
    BY <1>2 DEF Underway
  <2> QED BY <2>1, <1>2 DEF CreateCommands
<1>3. CASE pc = "set_endpoint"
  <2>1. c \in EndpointCommand(new)
    BY <1>3 DEF Underway
  <2> QED BY <2>1, <1>3
<1>4. ASSUME c \in ApplyCommands(new), pc \in {"apply", "down_up"}
      PROVE  /\ c.op \in {"peer", "address", "up", "psk", "route", "endpoint"}
             /\ c.op = "up" => c = Cmd("up", None)
             /\ c.op = "address" => c = Cmd("address", new.address)
             /\ c.op = "psk" => c = Cmd("psk", new.hub) /\ psk
             /\ c.op = "route" => c = Cmd("route", c.on) /\ c.on \in new.allowed
  BY <1>4 DEF ApplyCommands
<1>5. CASE pc = "apply"
  <2>1. c \in ApplyCommands(new)
    BY <1>5 DEF Underway
  <2> QED BY <2>1, <1>4, <1>5
<1>6. CASE pc = "down_up"
  <2>1. c \in DownUpCommands(new)
    BY <1>6 DEF Underway
  <2>2. CASE c \in ApplyCommands(new)
    BY <2>2, <1>4, <1>6
  <2>3. CASE c \in {Cmd("del", None), Cmd("add", None), Cmd("key", None)}
    BY <2>3, <1>6
  <2> QED BY <2>1, <2>2, <2>3 DEF DownUpCommands, CreateCommands
<1>7. CASE pc = "reapply"
  <2>1. c \in ReapplyCommands(applied, new, endpoint_ok)
    BY <1>7 DEF Underway
  <2>2. c.op \in {"remove", "peer", "repeer", "readdress", "unaddress", "route", "unroute", "endpoint"}
    BY <2>1 DEF ReapplyCommands
  <2>3. c.op = "repeer" => c = Cmd("repeer", new.hub) /\ ~Rekeyed
    BY <2>1, <1>7 DEF ReapplyCommands
  <2>4. /\ c.op = "readdress" => c = Cmd("readdress", new.address)
        /\ c.op = "unaddress" => c = Cmd("unaddress", applied.address)
        /\ c.op \in {"readdress", "unaddress"} => applied.address # new.address
    BY <2>1 DEF ReapplyCommands
  <2>5. /\ c.op = "route" => c = Cmd("route", c.on) /\ c.on \in new.allowed
        /\ c.op = "unroute" => c = Cmd("unroute", c.on) /\ c.on \in applied.allowed \ new.allowed
    BY <2>1 DEF ReapplyCommands
  <2> QED BY <2>2, <2>3, <2>4, <2>5, <1>7
<1> QED BY <1>1, <1>2, <1>3, <1>5, <1>6, <1>7

LEMMA Single ==
  ASSUME Underway, NEW c \in todo, c.op \notin {"route", "unroute"}
  PROVE  ~Has(c.op, todo \ {c})
<1>1. ASSUME NEW d \in todo, d.op = c.op
      PROVE  d = c
  <2>1. c.op \in DOMAIN Rank
    BY Commands
  <2>2. CASE c.op \in {"del", "remove", "peer", "endpoint"}
    BY <2>2, <1>1, Commands
  <2>3. CASE c.op \in {"add", "key", "up", "address", "psk", "repeer", "readdress", "unaddress"}
    BY <2>3, <1>1, OfPlan
  <2> QED BY <2>1, <2>2, <2>3 DEF Rank
<1> QED BY <1>1 DEF Has

LEMMA HasKept ==
  ASSUME NEW c \in todo, NEW op, op # c.op
  PROVE  Has(op, todo \ {c}) <=> Has(op, todo)
BY DEF Has

LEMMA InOrder ==
  ASSUME Underway, NEW c \in todo, Turn(c), NEW op \in DOMAIN Rank, Has(op, todo)
  PROVE  Rank[c.op] <= Rank[op]
BY DEF Has, Turn

PeerSet(c) == [PeerAfter(c, kernel.peers[new.hub]) EXCEPT !.set = TRUE]

(* What a command leaves, part by part                                     *)
LEMMA Parts ==
  ASSUME Underway, Kernels, NEW c \in todo
  PROVE  /\ c.op \notin {"del", "add", "key", "up"} => After(c).link = kernel.link
         /\ c.op = "add" => After(c).link = "added"
         /\ c.op = "key" => After(c).link = "keyed"
         /\ c.op = "up" =>
              /\ After(c).link = "up"
              /\ After(c).routes = kernel.routes \cup UNION {OwnNet[a] : a \in kernel.addresses}
         /\ c.op = "del" => After(c) = NoKernel
         /\ c.op \notin {"del", "address", "readdress", "unaddress"} => After(c).addresses = kernel.addresses
         /\ c.op \in {"address", "readdress"} => After(c).addresses = kernel.addresses \cup {c.on}
         /\ c.op = "unaddress" => After(c).addresses = kernel.addresses \ {c.on}
         /\ c.op \notin {"del", "up", "route", "unroute"} => After(c).routes = kernel.routes
         /\ c.op = "route" => After(c).routes = kernel.routes \cup {Net[c.on]}
         /\ c.op = "unroute" => After(c).routes = kernel.routes \ {Net[c.on]}
         /\ c.op \notin PeerOps \cup {"del", "remove"} => After(c).peers = kernel.peers
         /\ c.op = "remove" => After(c).peers = [kernel.peers EXCEPT ![c.on] = NoPeer]
         /\ c.op \in PeerOps => After(c).peers = WithPeer(new.hub, PeerSet(c))
<1> USE DEF Kernels, KernelType
<1>1. c.op \in DOMAIN Rank
  BY Commands
<1>2. CASE c.op = "del"
  BY <1>2 DEF After, PeerOps
<1>3. CASE c.op \in {"add", "key"}
  BY <1>3 DEF After, PeerOps
<1>4. CASE c.op = "remove"
  BY <1>4 DEF After, PeerOps
<1>5. CASE c.op \in PeerOps
  <2>1. After(c) = [kernel EXCEPT !.peers =
                      WithPeer(new.hub, [PeerAfter(c, kernel.peers[new.hub]) EXCEPT !.set = TRUE])]
    BY <1>5 DEF After, PeerOps
  <2>2. After(c) = [kernel EXCEPT !.peers = WithPeer(new.hub, PeerSet(c))]
    BY <2>1 DEF PeerSet
  <2> QED BY <2>2, <1>5 DEF PeerOps
<1>6. CASE c.op \in {"address", "readdress", "unaddress"}
  BY <1>6 DEF After, PeerOps
<1>7. CASE c.op = "up"
  <2>1. After(c) = [kernel EXCEPT !.link = "up",
                                  !.routes = @ \cup UNION {OwnNet[a] : a \in kernel.addresses}]
    BY <1>7 DEF After, PeerOps
  <2> QED BY <2>1, <1>7 DEF PeerOps
<1>8. CASE c.op \in {"route", "unroute"}
  <2>1. /\ c.op = "route" => After(c) = [kernel EXCEPT !.routes = @ \cup {Net[c.on]}]
        /\ c.op = "unroute" => After(c) = [kernel EXCEPT !.routes = @ \ {Net[c.on]}]
    BY <1>8 DEF After, PeerOps
  <2> QED BY <2>1, <1>8 DEF PeerOps
<1> HIDE DEF Kernels, KernelType
<1> QED BY <1>1, <1>2, <1>3, <1>4, <1>5, <1>6, <1>7, <1>8 DEF Rank, PeerOps

LEMMA LaterStep ==
  ASSUME Underway, NEW c \in todo, Turn(c), Later(todo)
  PROVE  Later(todo \ {c})
BY DEF Later, Turn

LEMMA StillAhead ==
  ASSUME Underway, Later(todo), NEW c \in todo, NEW d \in PlanOf,
         d.op \in DOMAIN Rank, Rank[c.op] < Rank[d.op]
  PROVE  d \in todo /\ Has(d.op, todo)
<1>1. Rank[c.op] \in Int /\ Rank[d.op] \in Int
  BY Commands DEF Rank
<1> QED BY <1>1 DEF Later, Has

LEMMA LinkedStep ==
  ASSUME Underway, Kernels, Later(todo), NEW c \in todo, Turn(c), Linked(kernel, todo)
  PROVE  Linked(After(c), todo \ {c})
<1> DEFINE t == todo \ {c}
<1>1. c.op \in DOMAIN Rank
  BY Commands
<1>2. \A op \in DOMAIN Rank : Has(op, todo) => Rank[c.op] <= Rank[op]
  BY InOrder
<1>3. \A op \in {"del", "add", "key", "up"} :
        /\ op = c.op => Has(op, todo) /\ ~Has(op, t)
        /\ op # c.op => (Has(op, t) <=> Has(op, todo))
  BY HasKept, Single DEF Has
<1>4. CASE c.op = "del"
  <2>1. After(c).link = "none" /\ pc = "down_up"
    <3>1. After(c) = NoKernel
      BY <1>4, Parts
    <3>2. pc = "down_up"
      BY <1>4, Commands
    <3> QED BY <3>1, <3>2 DEF NoKernel
  <2>2. Cmd("add", None) \in PlanOf
    BY <2>1 DEF PlanOf, DownUpCommands, CreateCommands
  <2>3. Has("add", todo)
    BY <2>2, <1>4, StillAhead DEF Rank, Cmd
  <2> QED BY <2>1, <2>3, <1>3, <1>4 DEF Linked
<1>5. CASE c.op = "add"
  <2>1. After(c).link = "added" /\ pc \in {"create", "down_up"} /\ ~Has("del", todo)
    <3>1. After(c).link = "added"
      BY <1>5, Parts
    <3>2. pc \in {"create", "down_up"}
      BY <1>5, OfPlan
    <3> QED BY <3>1, <3>2, <1>2, <1>5 DEF Rank
  <2>2. Cmd("key", None) \in PlanOf
    BY <2>1 DEF PlanOf, DownUpCommands, CreateCommands
  <2>3. Has("key", todo)
    BY <2>2, <1>5, StillAhead DEF Rank, Cmd
  <2> QED BY <2>1, <2>3, <1>3, <1>5 DEF Linked
<1>6. CASE c.op = "key"
  <2>1. /\ After(c).link = "keyed" /\ pc \in {"create", "down_up"}
        /\ ~Has("del", todo) /\ ~Has("add", todo)
    <3>1. After(c).link = "keyed"
      BY <1>6, Parts
    <3>2. pc \in {"create", "down_up"}
      BY <1>6, OfPlan
    <3> QED BY <3>1, <3>2, <1>2, <1>6 DEF Rank
  <2>2. pc = "down_up" => Cmd("up", None) \in PlanOf
    BY DEF PlanOf, DownUpCommands, ApplyCommands
  <2>3. pc = "down_up" => Has("up", todo)
    BY <2>2, <1>6, StillAhead DEF Rank, Cmd
  <2> QED BY <2>1, <2>3, <1>3, <1>6 DEF Linked
<1>7. CASE c.op = "up"
  <2>1. /\ After(c).link = "up" /\ pc \in {"apply", "down_up"}
        /\ ~Has("del", todo) /\ ~Has("add", todo) /\ ~Has("key", todo)
    <3>1. After(c).link = "up"
      BY <1>7, Parts
    <3>2. pc \in {"apply", "down_up"}
      BY <1>7, OfPlan
    <3> QED BY <3>1, <3>2, <1>2, <1>7 DEF Rank
  <2> QED BY <2>1, <1>3, <1>7 DEF Linked
<1>8. CASE c.op \notin {"del", "add", "key", "up"}
  <2>1. After(c).link = kernel.link
    BY <1>8, Parts
  <2> QED BY <2>1, <1>3, <1>8 DEF Linked
<1> QED BY <1>4, <1>5, <1>6, <1>7, <1>8

LEMMA AddressedStep ==
  ASSUME Underway, Kernels, Later(todo), NEW c \in todo, Turn(c), Addressed(kernel, todo)
  PROVE  Addressed(After(c), todo \ {c})
<1> DEFINE t == todo \ {c}
<1>1. c.op \in DOMAIN Rank
  BY Commands
<1>2. \A op \in DOMAIN Rank : Has(op, todo) => Rank[c.op] <= Rank[op]
  BY InOrder
<1>3. \A op \in {"del", "address", "readdress", "unaddress"} :
        /\ op = c.op => Has(op, todo) /\ ~Has(op, t)
        /\ op # c.op => (Has(op, t) <=> Has(op, todo))
  BY HasKept, Single DEF Has
<1>4. CASE c.op = "del"
  <2>1. After(c).addresses = {} /\ pc = "down_up"
    <3>1. After(c) = NoKernel
      BY <1>4, Parts
    <3>2. pc = "down_up"
      BY <1>4, Commands
    <3> QED BY <3>1, <3>2 DEF NoKernel
  <2>2. Cmd("address", new.address) \in PlanOf
    BY <2>1 DEF PlanOf, DownUpCommands, ApplyCommands
  <2>3. Has("address", todo)
    BY <2>2, <1>4, StillAhead DEF Rank, Cmd
  <2> QED BY <2>1, <2>3, <1>3, <1>4 DEF Addressed
<1>5. CASE c.op = "address"
  <2>1. /\ After(c).addresses = kernel.addresses \cup {new.address}
        /\ pc \in {"apply", "down_up"} /\ ~Has("del", todo)
    <3>1. After(c).addresses = kernel.addresses \cup {c.on}
      BY <1>5, Parts
    <3>2. c = Cmd("address", new.address) /\ pc \in {"apply", "down_up"}
      BY <1>5, OfPlan
    <3> QED BY <3>1, <3>2, <1>2, <1>5 DEF Rank, Cmd
  <2> QED BY <2>1, <1>3, <1>5 DEF Addressed
<1>6. CASE c.op = "readdress"
  <2>1. /\ After(c).addresses = kernel.addresses \cup {new.address} /\ pc = "reapply"
    <3>1. After(c).addresses = kernel.addresses \cup {c.on}
      BY <1>6, Parts
    <3>2. c = Cmd("readdress", new.address) /\ pc = "reapply"
      BY <1>6, OfPlan
    <3> QED BY <3>1, <3>2 DEF Cmd
  <2> QED BY <2>1, <1>3, <1>6 DEF Addressed
<1>7. CASE c.op = "unaddress"
  <2>1. /\ After(c).addresses = kernel.addresses \ {applied.address}
        /\ pc = "reapply" /\ ~Has("readdress", todo) /\ applied.address # new.address
    <3>1. After(c).addresses = kernel.addresses \ {c.on}
      BY <1>7, Parts
    <3>2. c = Cmd("unaddress", applied.address) /\ pc = "reapply" /\ applied.address # new.address
      BY <1>7, OfPlan
    <3> QED BY <3>1, <3>2, <1>2, <1>7 DEF Rank, Cmd
  <2> QED BY <2>1, <1>3, <1>7 DEF Addressed
<1>8. CASE c.op \notin {"del", "address", "readdress", "unaddress"}
  <2>1. After(c).addresses = kernel.addresses
    BY <1>8, Parts
  <2> QED BY <2>1, <1>3, <1>8 DEF Addressed
<1> QED BY <1>4, <1>5, <1>6, <1>7, <1>8

LEMMA WaysStep ==
  ASSUME Underway, NEW c \in todo
  PROVE  /\ c.op \notin {"route", "unroute"} => Ways(todo \ {c}) = Ways(todo)
         /\ c.op = "route" => Ways(todo \ {c}) = Ways(todo) \cup {c.on}
         /\ c.op = "unroute" => /\ Ways(todo \ {c}) = Ways(todo) \ {c.on} /\ pc = "reapply"
                                /\ c.on \in Ways(todo) /\ Ways(todo) \subseteq Cidrs
<1>1. CASE c.op \notin {"route", "unroute"}
  BY <1>1 DEF Ways, Cmd
<1>2. CASE c.op = "route"
  <2>1. c = Cmd("route", c.on) /\ c.on \in new.allowed
    BY <1>2, OfPlan
  <2> QED BY <2>1, <1>2 DEF Ways, Cmd
<1>3. CASE c.op = "unroute"
  <2>1. c = Cmd("unroute", c.on) /\ pc = "reapply" /\ c.on \in applied.allowed \ new.allowed
    BY <1>3, OfPlan
  <2>2. applied \in Bundled /\ new \in Bundled
    BY <2>1 DEF Underway
  <2>3. Ways(todo) \subseteq Cidrs
    BY <2>2, Configs DEF Ways
  <2> QED BY <2>1, <2>3, <1>3 DEF Ways, Cmd
<1> QED BY <1>1, <1>2, <1>3

LEMMA RoutedStep ==
  ASSUME DistinctNets, Underway, Kernels, Later(todo), NEW c \in todo, Turn(c),
         Addressed(kernel, todo), Routed(kernel, todo)
  PROVE  Routed(After(c), todo \ {c})
<1> DEFINE t == todo \ {c}
<1>1. c.op \in DOMAIN Rank
  BY Commands
<1>2. \A op \in DOMAIN Rank : Has(op, todo) => Rank[c.op] <= Rank[op]
  BY InOrder
<1>3. \A op \in {"del", "up"} :
        /\ op = c.op => Has(op, todo) /\ ~Has(op, t)
        /\ op # c.op => (Has(op, t) <=> Has(op, todo))
  BY HasKept, Single DEF Has
<1>4. CASE c.op = "del"
  <2>1. After(c).routes = {} /\ pc = "down_up"
    <3>1. After(c) = NoKernel
      BY <1>4, Parts
    <3>2. pc = "down_up"
      BY <1>4, Commands
    <3> QED BY <3>1, <3>2 DEF NoKernel
  <2>2. Cmd("up", None) \in PlanOf /\ \A x \in new.allowed : Cmd("route", x) \in PlanOf
    BY <2>1 DEF PlanOf, DownUpCommands, ApplyCommands, OnRoutes
  <2>3. Has("up", todo) /\ \A x \in new.allowed : Cmd("route", x) \in todo
    <3>1. Has("up", todo)
      BY <2>2, <1>4, StillAhead DEF Rank, Cmd
    <3>2. ASSUME NEW x \in new.allowed
          PROVE  Cmd("route", x) \in todo
      BY <2>2, <1>4, StillAhead DEF Rank, Cmd
    <3> QED BY <3>1, <3>2
  <2>4. Ways(t) = {}
    BY <2>1, <2>3, <1>4 DEF Ways, Cmd
  <2>5. Nets(Ways(t)) = {}
    BY <2>4, NetsOf
  <2> QED BY <2>1, <2>3, <2>5, <1>3, <1>4 DEF Routed
<1>5. CASE c.op = "up"
  <2>1. /\ After(c).routes = kernel.routes \cup UNION {OwnNet[a] : a \in kernel.addresses}
        /\ pc \in {"apply", "down_up"} /\ ~Has("del", todo) /\ ~Has("address", todo)
    <3>1. After(c).routes = kernel.routes \cup UNION {OwnNet[a] : a \in kernel.addresses}
      BY <1>5, Parts
    <3>2. pc \in {"apply", "down_up"}
      BY <1>5, OfPlan
    <3> QED BY <3>1, <3>2, <1>2, <1>5 DEF Rank
  <2>2. kernel.addresses = {new.address}
    BY <2>1 DEF Addressed
  <2>3. UNION {OwnNet[a] : a \in kernel.addresses} = OwnNet[new.address]
    BY <2>2
  <2>4. Ways(t) = Ways(todo)
    BY <1>5, WaysStep
  <2> QED BY <2>1, <2>3, <2>4, <1>3, <1>5 DEF Routed
<1>6. CASE c.op = "route"
  <2>1. After(c).routes = kernel.routes \cup {Net[c.on]}
    BY <1>6, Parts
  <2>2. pc \in {"apply", "down_up", "reapply"} /\ ~Has("del", todo) /\ ~Has("up", todo)
    <3>1. pc \in {"apply", "down_up", "reapply"}
      BY <1>6, OfPlan
    <3> QED BY <3>1, <1>2, <1>6 DEF Rank
  <2>3. Ways(t) = Ways(todo) \cup {c.on}
    BY <1>6, WaysStep
  <2>4. Nets(Ways(t)) = Nets(Ways(todo)) \cup {Net[c.on]}
    <3>1. Nets(Ways(todo) \cup {c.on}) = Nets(Ways(todo)) \cup Nets({c.on})
      BY Zenon, NetsOf
    <3>2. Nets({c.on}) = {Net[c.on]}
      BY Zenon, NetsOf
    <3> QED BY <3>1, <3>2, <2>3, Zenon
  <2>5. ~Has("del", t) /\ ~Has("up", t)
    BY <2>2, <1>3, <1>6
  <2>6. CASE pc = "reapply"
    <3>1. kernel.routes = Nets(Ways(todo))
      BY <2>6 DEF Routed
    <3>2. After(c).routes = Nets(Ways(t))
      BY <3>1, <2>1, <2>4
    <3> QED BY <3>2, <2>6 DEF Routed
  <2>7. CASE pc \in {"apply", "down_up"}
    <3>1. kernel.routes = Nets(Ways(todo)) \cup OwnNet[new.address]
      BY <2>2, <2>7 DEF Routed
    <3>2. After(c).routes = Nets(Ways(t)) \cup OwnNet[new.address]
      BY <3>1, <2>1, <2>4
    <3> QED BY <3>2, <2>5, <2>7 DEF Routed
  <2> QED BY <2>2, <2>6, <2>7
<1>7. CASE c.op = "unroute"
  <2>1. After(c).routes = kernel.routes \ {Net[c.on]}
    BY <1>7, Parts
  <2>2. /\ pc = "reapply" /\ Ways(t) = Ways(todo) \ {c.on}
        /\ c.on \in Ways(todo) /\ Ways(todo) \subseteq Cidrs
    BY <1>7, WaysStep
  <2>3. Nets(Ways(t)) = Nets(Ways(todo)) \ {Net[c.on]}
    BY <2>2 DEF Nets, DistinctNets
  <2> QED BY <2>1, <2>2, <2>3 DEF Routed
<1>8. CASE c.op \notin {"del", "up", "route", "unroute"}
  <2>1. After(c).routes = kernel.routes
    BY <1>8, Parts
  <2>2. Ways(t) = Ways(todo)
    BY <1>8, WaysStep
  <2> QED BY <2>1, <2>2, <1>3, <1>8 DEF Routed
<1> QED BY <1>4, <1>5, <1>6, <1>7, <1>8

LEMMA PeerFields ==
  ASSUME NEW c, c.op \in PeerOps, kernel.peers[new.hub] \in PeerType
  PROVE  /\ PeerSet(c).set
         /\ c.op = "peer" =>
              /\ PeerSet(c).allowed = Nets(new.allowed)
              /\ PeerSet(c).psk <=> kernel.peers[new.hub].psk
         /\ c.op = "repeer" =>
              /\ PeerSet(c).allowed = IF applied.allowed # new.allowed THEN Nets(new.allowed)
                                      ELSE kernel.peers[new.hub].allowed
              /\ PeerSet(c).keepalive = IF applied.keepalive # new.keepalive THEN new.keepalive
                                        ELSE kernel.peers[new.hub].keepalive
              /\ PeerSet(c).endpoint = kernel.peers[new.hub].endpoint
              /\ PeerSet(c).psk <=> kernel.peers[new.hub].psk
         /\ c.op = "psk" => PeerSet(c).allowed = kernel.peers[new.hub].allowed /\ PeerSet(c).psk
         /\ c.op = "endpoint" =>
              /\ PeerSet(c).allowed = kernel.peers[new.hub].allowed
              /\ PeerSet(c).psk <=> kernel.peers[new.hub].psk
              /\ PeerSet(c).endpoint = c.on /\ PeerSet(c).keepalive = new.keepalive
<1> DEFINE old == kernel.peers[new.hub]
<1> USE DEF PeerType, PeerSet
<1>1. CASE c.op = "peer"
  <2>1. PeerAfter(c, old) = [old EXCEPT !.allowed = Nets(new.allowed)]
    BY <1>1 DEF PeerAfter
  <2> QED BY <2>1, <1>1
<1>2. CASE c.op = "repeer"
  <2>1. PeerAfter(c, old) = [old EXCEPT
          !.allowed = IF applied.allowed # new.allowed THEN Nets(new.allowed) ELSE @,
          !.keepalive = IF applied.keepalive # new.keepalive THEN new.keepalive ELSE @]
    BY <1>2 DEF PeerAfter
  <2> QED BY <2>1, <1>2
<1>3. CASE c.op = "psk"
  <2>1. PeerAfter(c, old) = [old EXCEPT !.psk = TRUE]
    BY <1>3 DEF PeerAfter
  <2> QED BY <2>1, <1>3
<1>4. CASE c.op = "endpoint"
  <2>1. PeerAfter(c, old) = [old EXCEPT !.endpoint = c.on, !.keepalive = new.keepalive]
    BY <1>4 DEF PeerAfter
  <2> QED BY <2>1, <1>4
<1> QED BY <1>1, <1>2, <1>3, <1>4 DEF PeerOps

LEMMA PeeredStep ==
  ASSUME Inv, Modes, Later(todo), NEW c \in todo, Turn(c), Peered(kernel, todo)
  PROVE  Peered(After(c), todo \ {c})
<1> DEFINE t == todo \ {c}
           k == After(c)
<1>1. Underway /\ Kernels /\ Where /\ Held /\ c.op \in DOMAIN Rank
  BY Commands DEF Inv
<1>2. \A op \in DOMAIN Rank : Has(op, todo) => Rank[c.op] <= Rank[op]
  BY <1>1, InOrder
<1>3. \A op \in DOMAIN Rank \ {"route", "unroute"} :
        /\ op = c.op => Has(op, todo) /\ ~Has(op, t)
        /\ op # c.op => (Has(op, t) <=> Has(op, todo))
  BY <1>1, HasKept, Single DEF Has
<1>4. CASE c.op = "del"
  <2>1. (\A h \in Hubs : k.peers[h] = NoPeer) /\ pc = "down_up" /\ applied.hub \in Hubs /\ new = applied
    <3>1. k = NoKernel
      BY <1>1, <1>4, Parts
    <3>2. pc = "down_up"
      BY <1>1, <1>4, Commands
    <3> QED BY <3>1, <3>2, <1>1, Configs DEF NoKernel, Underway
  <2>2. Has("peer", todo) /\ ~Has("remove", todo)
    <3>1. Cmd("peer", new.hub) \in PlanOf
      BY <2>1 DEF PlanOf, DownUpCommands, ApplyCommands
    <3>2. Has("peer", todo)
      BY <3>1, <1>1, <1>4, StillAhead DEF Rank, Cmd
    <3>3. \A d \in todo : d.op # "remove"
      BY <2>1, <1>1, Commands DEF Rekeyed
    <3> QED BY <3>2, <3>3 DEF Has
  <2>3. Rebuilds /\ ~Has("del", t) /\ ~Has("remove", t) /\ Has("peer", t)
    BY <2>1, <2>2, <1>3, <1>4 DEF Rank, Rebuilds
  <2> QED BY <2>1, <2>3 DEF Peered, NoneBut
<1>5. CASE c.op = "remove"
  <2>1. k.peers = [kernel.peers EXCEPT ![applied.hub] = NoPeer] /\ Rekeyed /\ Rebuilds
    <3>1. c = Cmd("remove", applied.hub) /\ Rekeyed
      BY <1>1, <1>5, Commands
    <3>2. k.peers = [kernel.peers EXCEPT ![c.on] = NoPeer]
      BY <1>1, <1>5, Parts
    <3> QED BY <3>1, <3>2 DEF Cmd, Rebuilds
  <2>2. \A h \in Hubs : k.peers[h] = NoPeer
    <3>1. NoneBut(kernel, applied.hub)
      BY <2>1, <1>3, <1>5 DEF Peered, Rank
    <3> QED BY <2>1, <3>1, <1>1 DEF NoneBut, Kernels, KernelType
  <2>3. Has("peer", todo) /\ ~Has("del", todo)
    <3>1. Cmd("peer", new.hub) \in PlanOf
      BY <2>1 DEF PlanOf, ReapplyCommands, Rekeyed
    <3>2. Has("peer", todo)
      BY <3>1, <1>1, <1>5, StillAhead DEF Rank, Cmd
    <3> QED BY <3>2, <1>2, <1>5 DEF Rank
  <2>4. ~Has("del", t) /\ ~Has("remove", t) /\ Has("peer", t) /\ new.hub \in Hubs
    BY <2>1, <2>3, <1>1, <1>3, <1>5, Configs DEF Rank, Rekeyed, Underway
  <2> QED BY <2>1, <2>2, <2>4 DEF Peered, NoneBut, Rekeyed
<1>6. CASE c.op \notin PeerOps \cup {"del", "remove"}
  <2>1. k.peers = kernel.peers
    BY <1>1, <1>6, Parts
  <2>2. \A op \in PeerOps \cup {"del", "remove"} : Has(op, t) <=> Has(op, todo)
    BY <1>6, HasKept
  <2> QED BY <2>1, <2>2 DEF Peered, NoneBut, Row, PeerOps
<1>7. CASE c.op \in PeerOps
  <2> DEFINE r == PeerSet(c)
             old == kernel.peers[new.hub]
  <2>1. new \in Bundled /\ new.hub \in Hubs /\ old \in PeerType
    <3>1. new \in Bundled
      BY <1>1, <1>7, Commands DEF PeerOps
    <3> QED BY <3>1, <1>1, Configs DEF Kernels, KernelType
  <2>2. k.peers[new.hub] = r /\ (NoneBut(kernel, new.hub) => NoneBut(k, new.hub))
    <3>1. k.peers = WithPeer(new.hub, r)
      BY <1>1, <1>7, Parts
    <3>2. ASSUME NEW h \in Hubs \ {new.hub}, kernel.peers[h] = NoPeer
          PROVE  k.peers[h] = NoPeer
      <4>1. k.peers[h] = [NoPeer EXCEPT !.allowed = @ \ r.allowed]
        BY <3>1, <3>2 DEF WithPeer
      <4> QED BY <4>1, NoPeerKept
    <3> QED BY <2>1, <3>1, <3>2 DEF WithPeer, NoneBut
  <2>3. r.set
    BY <2>1, <1>7, PeerFields
  <2>4. ~Has("del", todo) /\ ~Has("remove", todo) /\ ~Has("del", t) /\ ~Has("remove", t)
    <3>1. ~Has("del", todo) /\ ~Has("remove", todo)
      BY <1>2, <1>7 DEF PeerOps, Rank
    <3> QED BY <3>1 DEF Has
  <2>5. CASE c.op = "peer"
    <3>1. /\ Rebuilds /\ Has("peer", todo) /\ ~Has("peer", t)
          /\ (Has("psk", t) <=> Has("psk", todo))
      BY <1>1, <1>3, <2>5, Commands DEF Rank
    <3>2. NoneBut(kernel, new.hub) /\ old = NoPeer
      BY <2>4, <3>1 DEF Peered
    <3>3. r.allowed = Nets(new.allowed) /\ ~r.psk
      <4>1. ~old.psk
        BY <3>2 DEF NoPeer
      <4>2. r.allowed = Nets(new.allowed) /\ (r.psk <=> old.psk)
        BY <2>1, <2>5, <1>7, PeerFields
      <4> QED BY <4>1, <4>2
    <3>4. psk => Has("psk", t)
      <4>1. psk => pc \in {"apply", "down_up"}
        BY <3>1 DEF Modes, Rebuilds, Rekeyed
      <4>2. psk => Cmd("psk", new.hub) \in PlanOf
        BY <4>1 DEF PlanOf, ApplyCommands, DownUpCommands
      <4>3. psk => Has("psk", todo)
        BY <4>2, <1>1, <2>5, StillAhead DEF Rank, Cmd
      <4> QED BY <4>3, <3>1
    <3>5. Row(k, Nets(new.allowed), psk /\ ~Has("psk", t))
      BY <2>2, <2>3, <3>3, <3>4 DEF Row
    <3>6. pc \notin {"create", "set_endpoint"} /\ ~(pc = "reapply" /\ ~Rekeyed)
      BY <3>1 DEF Rebuilds, Rekeyed
    <3> QED BY <2>2, <2>4, <3>1, <3>2, <3>5, <3>6 DEF Peered
  <2>6. CASE c.op = "psk"
    <3>1. /\ pc \in {"apply", "down_up"} /\ psk /\ Has("psk", todo) /\ ~Has("psk", t)
          /\ ~Has("peer", todo) /\ ~Has("peer", t)
      BY <1>1, <1>2, <1>3, <2>6, OfPlan DEF Rank
    <3>2. NoneBut(kernel, new.hub) /\ old.allowed = Nets(new.allowed)
      BY <2>4, <3>1 DEF Peered, Row, Rebuilds
    <3>3. r.allowed = Nets(new.allowed) /\ r.psk
      BY <3>2, <2>1, <2>6, <1>7, PeerFields
    <3>4. Row(k, Nets(new.allowed), psk /\ ~Has("psk", t))
      BY <2>2, <2>3, <3>1, <3>3 DEF Row
    <3> QED BY <2>2, <2>4, <3>1, <3>2, <3>4 DEF Peered, Rekeyed
  <2>7. CASE c.op = "repeer"
    <3>1. pc = "reapply" /\ ~Rekeyed /\ ~Rebuilds /\ Has("repeer", todo) /\ ~Has("repeer", t)
      BY <1>1, <1>3, <2>7, OfPlan DEF Rank, Rebuilds
    <3>2. /\ NoneBut(kernel, new.hub) /\ old.allowed = Nets(applied.allowed)
          /\ (old.psk <=> psk)
          /\ endpoint_ok => /\ old.endpoint \in {applied.endpoint, new.endpoint}
                            /\ old.keepalive = applied.keepalive
      BY <3>1 DEF Peered, Row
    <3>3. r.allowed = Nets(new.allowed) /\ (r.psk <=> psk)
      BY <3>2, <2>1, <2>7, <1>7, PeerFields
    <3>4. r.endpoint = old.endpoint /\ (endpoint_ok => r.keepalive = new.keepalive)
      BY <3>2, <2>1, <2>7, <1>7, PeerFields
    <3>5. Row(k, Nets(new.allowed), psk)
      BY <2>2, <2>3, <3>3 DEF Row
    <3> QED BY <2>2, <3>1, <3>2, <3>4, <3>5 DEF Peered
  <2>8. CASE c.op = "endpoint"
    <3>1. todo = {c} /\ c.on = new.endpoint /\ pc # "create"
      BY <1>1, <2>8, EndpointIsLast, Commands DEF Cmd
    <3>2. \A op \in DOMAIN Rank \ {"endpoint"} : ~Has(op, todo) /\ ~Has(op, t)
      BY <3>1, <2>8 DEF Has
    <3>3. /\ r.allowed = old.allowed /\ (r.psk <=> old.psk)
          /\ r.endpoint = new.endpoint /\ r.keepalive = new.keepalive
      BY <3>1, <2>1, <2>8, <1>7, PeerFields
    <3>4. NoneBut(kernel, new.hub) /\ Row(kernel, Nets(new.allowed), psk)
      <4>1. CASE Rebuilds
        BY <4>1, <3>2 DEF Peered, Rank, Row
      <4>2. CASE ~Rebuilds
        BY <4>2, <3>1, <3>2, <1>1, <2>1 DEF Peered, Rank, Rebuilds, Underway
      <4> QED BY <4>1, <4>2
    <3>5. NoneBut(k, new.hub) /\ Row(k, Nets(new.allowed), psk)
      BY <2>2, <2>3, <3>3, <3>4 DEF Row
    <3>6. Row(k, Nets(new.allowed), psk /\ ~Has("psk", t))
      BY <3>2, <3>5 DEF Rank, Row
    <3>7. ~Has("peer", t) /\ ~Has("repeer", t)
      BY <3>2 DEF Rank
    <3> QED BY <2>2, <2>4, <3>1, <3>3, <3>5, <3>6, <3>7 DEF Peered
  <2> QED BY <1>7, <2>5, <2>6, <2>7, <2>8 DEF PeerOps
<1> QED BY <1>4, <1>5, <1>6, <1>7

LEMMA ProgressStep ==
  ASSUME DistinctNets, Inv, Modes, NEW c \in todo, Turn(c), Progress(kernel, todo)
  PROVE  Progress(After(c), todo \ {c})
<1>1. Underway /\ Kernels
  BY DEF Inv
<1> QED BY <1>1, LaterStep, LinkedStep, AddressedStep, RoutedStep, PeeredStep DEF Progress

LEMMA HasIt ==
  ASSUME NEW op, NEW on, NEW t, Cmd(op, on) \in t
  PROVE  Has(op, t)
BY DEF Has, Cmd

-----------------------------------------------------------------------------
(* A plan's start, from a kernel that rests                                *)
LEMMA Absence == NoConfig \notin Bundled /\ \A e \in Bundled : e.hub \in Hubs
BY Configs

LEMMA CreateProgress ==
  ASSUME Inv, Rests, Create
  PROVE  Progress(kernel, todo)'
<1>1. /\ pc' = "create" /\ todo' = CreateCommands /\ kernel' = NoKernel /\ UNCHANGED psk
  BY DEF Create, Start, Rests
<1>2. Later(todo)'
  BY <1>1 DEF Later, PlanOf
<1>3. ~Has("del", todo') /\ Has("add", todo')
  BY <1>1 DEF Has, CreateCommands, Cmd
<1>4. NoKernel.link = "none" /\ NoKernel.addresses = {} /\ NoKernel.routes = {}
      /\ \A h \in Hubs : NoKernel.peers[h] = NoPeer
  BY DEF NoKernel
<1>5. Linked(kernel, todo)'
  BY <1>1, <1>3, <1>4 DEF Linked, Has
<1>6. Addressed(kernel, todo)' /\ Routed(kernel, todo)'
  BY <1>1, <1>4 DEF Addressed, Routed
<1>7. Peered(kernel, todo)'
  BY <1>1, <1>4 DEF Peered, Rebuilds, Rekeyed
<1> QED BY <1>2, <1>5, <1>6, <1>7 DEF Progress

LEMMA ApplyProgress ==
  ASSUME Inv, Rests, Apply
  PROVE  Progress(kernel, todo)'
<1>1. PICK eff \in Bundled : Start("apply", eff, ApplyCommands(eff))
  BY DEF Apply, Bundled
<1>2. /\ pc' = "apply" /\ new' = eff /\ todo' = ApplyCommands(eff) /\ kernel' = kernel
      /\ psk' = psk /\ applied' = NoConfig
  BY <1>1 DEF Apply, Start
<1>3. /\ kernel.link = "keyed" /\ kernel.addresses = {} /\ kernel.routes = {}
      /\ (\A h \in Hubs : kernel.peers[h] = NoPeer) /\ eff.hub \in Hubs
  BY Absence DEF Rests, Apply
<1>4. Later(todo)'
  BY <1>2 DEF Later, PlanOf, ApplyCommands
<1>5. /\ \A op \in {"del", "add", "key", "remove"} : ~Has(op, todo')
      /\ \A op \in {"up", "address", "peer"} : Has(op, todo')
  <2>1. \A op \in {"del", "add", "key", "remove"} : ~Has(op, todo')
    BY <1>2 DEF Has, ApplyCommands, EndpointCommand, OnRoutes, Cmd
  <2>2. /\ Cmd("up", None) \in todo' /\ Cmd("address", eff.address) \in todo'
        /\ Cmd("peer", eff.hub) \in todo'
    BY <1>2 DEF ApplyCommands
  <2> QED BY <2>1, <2>2, HasIt
<1>6. Linked(kernel, todo)'
  BY <1>2, <1>3, <1>5 DEF Linked, Has
<1>7. Addressed(kernel, todo)'
  BY <1>2, <1>3, <1>5 DEF Addressed, Has
<1>8. Routed(kernel, todo)'
  <2>1. \A x \in eff.allowed : Cmd("route", x) \in todo'
    BY <1>2 DEF ApplyCommands, OnRoutes
  <2>2. Ways(todo)' = {}
    BY <2>1, <1>2 DEF Ways, Cmd
  <2>3. Nets(Ways(todo))' = {}
    BY <2>2 DEF Nets
  <2> QED BY <2>3, <1>2, <1>3, <1>5 DEF Routed, Has
<1>9. Peered(kernel, todo)'
  BY <1>2, <1>3, <1>5 DEF Peered, NoneBut, Has, Rekeyed
<1> QED BY <1>4, <1>6, <1>7, <1>8, <1>9 DEF Progress

LEMMA SetEndpointProgress ==
  ASSUME Inv, Rests, SetEndpoint
  PROVE  Progress(kernel, todo)'
<1>1. /\ pc' = "set_endpoint" /\ new' = applied /\ applied \in Bundled /\ applied' = applied
      /\ kernel' = kernel /\ psk' = psk
  BY DEF SetEndpoint, Start, Inv, Underway
<1>2. Settles(kernel, applied, endpoint_ok)
  BY <1>1 DEF Rests, SetEndpoint
<1>3. Later(todo)'
  BY <1>1 DEF Later, PlanOf
<1>4. Linked(kernel, todo)' /\ Addressed(kernel, todo)'
  BY <1>1, <1>2 DEF Linked, Addressed, Settles
<1>5. Routed(kernel, todo)'
  BY <1>1, <1>2 DEF Routed, Settles, Routes, Nets
<1>6. Peered(kernel, todo)'
  BY <1>1, <1>2 DEF Peered, Settles, Rebuilds, Rekeyed, NoneBut, Row, Nets
<1> QED BY <1>3, <1>4, <1>5, <1>6 DEF Progress

LEMMA DownUpProgress ==
  ASSUME Inv, Rests, DownUp
  PROVE  Progress(kernel, todo)'
<1>1. /\ pc' = "down_up" /\ new' = applied /\ applied \in Bundled /\ applied' = applied
      /\ kernel' = kernel /\ psk' = psk /\ todo' = DownUpCommands(applied)
  BY DEF DownUp, Start, Inv, Underway
<1>2. Settles(kernel, applied, endpoint_ok)
  BY <1>1 DEF Rests, DownUp
<1>3. Later(todo)'
  BY <1>1 DEF Later, PlanOf, DownUpCommands, ApplyCommands
<1>4. Has("del", todo')
  BY <1>1, HasIt DEF DownUpCommands
<1>5. Linked(kernel, todo)' /\ Addressed(kernel, todo)'
  BY <1>1, <1>2, <1>4 DEF Linked, Addressed, Settles, Has
<1>6. Routed(kernel, todo)'
  BY <1>1, <1>2, <1>4 DEF Routed, Settles, Routes, Nets, Has
<1>7. Peered(kernel, todo)'
  BY <1>1, <1>2, <1>4 DEF Peered, Settles, Rebuilds, Rekeyed, NoneBut, Has
<1> QED BY <1>3, <1>5, <1>6, <1>7 DEF Progress

(* A re-apply's two configurations are bundles' entries.                   *)
LEMMA BothEntries ==
  ASSUME Modes, applied \in Bundled, new \in Bundled, pc = "reapply"
  PROVE  /\ applied \in Entries /\ new \in Entries
         /\ OwnNet[applied.address] = {} /\ OwnNet[new.address] = {}
BY Wg0Assumption, Absence DEF Modes

LEMMA ReapplyProgress ==
  ASSUME Inv, Modes, Rests, Reapply
  PROVE  Progress(kernel, todo)'
<1>1. PICK eff \in Entries \ {applied} :
        Start("reapply", eff, ReapplyCommands(applied, eff, endpoint_ok))
  BY DEF Reapply
<1>2. /\ pc' = "reapply" /\ new' = eff /\ todo' = ReapplyCommands(applied, eff, endpoint_ok)
      /\ kernel' = kernel /\ psk' = psk /\ applied' = applied /\ applied \in Bundled
      /\ (endpoint_ok' <=> endpoint_ok)
  BY <1>1 DEF Reapply, Start, Inv, Underway
<1>3. Settles(kernel, applied, endpoint_ok)
  BY <1>2 DEF Rests, Reapply
<1>4. OwnNet[applied.address] = {} /\ eff.hub \in Hubs /\ applied.hub \in Hubs
  <2>1. applied \in Entries
    BY <1>2, Absence DEF Modes, Reapply
  <2>2. eff \in Bundled
    BY DEF Bundled
  <2> QED BY <1>2, <2>1, <2>2, Absence, Wg0Assumption
<1>5. Later(todo)'
  BY <1>2 DEF Later, PlanOf, ReapplyCommands
<1>6. Linked(kernel, todo)'
  BY <1>2, <1>3 DEF Linked, Settles
<1>7. Addressed(kernel, todo)'
  <2>1. CASE applied.address = eff.address
    <3>1. ~Has("readdress", todo')
      BY <2>1, <1>2 DEF Has, ReapplyCommands, EndpointCommand, OnRoutes, Cmd
    <3> QED BY <2>1, <3>1, <1>2, <1>3 DEF Addressed, Settles, Has
  <2>2. CASE applied.address # eff.address
    <3>1. Has("readdress", todo') /\ Has("unaddress", todo')
      <4>1. Cmd("readdress", eff.address) \in todo' /\ Cmd("unaddress", applied.address) \in todo'
        BY <2>2, <1>2 DEF ReapplyCommands
      <4> QED BY <4>1, HasIt
    <3> QED BY <2>2, <3>1, <1>2, <1>3 DEF Addressed, Settles, Has
  <2> QED BY <2>1, <2>2
<1>8. Routed(kernel, todo)'
  <2>1. \A x : /\ Cmd("route", x) \in todo' <=> x \in eff.allowed \ applied.allowed
               /\ Cmd("unroute", x) \in todo' <=> x \in applied.allowed \ eff.allowed
    BY <1>2 DEF ReapplyCommands, EndpointCommand, OnRoutes, Cmd
  <2>2. Ways(todo)' = applied.allowed
    BY <2>1, <1>2 DEF Ways, Cmd
  <2>3. Nets(Ways(todo))' = Nets(applied.allowed)
    BY <2>2 DEF Nets
  <2>4. kernel.routes = Nets(applied.allowed)
    BY <1>3, <1>4 DEF Settles, Routes
  <2> QED BY <2>3, <2>4, <1>2 DEF Routed
<1>9. Peered(kernel, todo)'
  <2>1. ~Has("del", todo')
    BY <1>2 DEF Has, ReapplyCommands, EndpointCommand, OnRoutes, Cmd
  <2>2. CASE applied.hub # eff.hub
    <3>1. Has("remove", todo')
      <4>1. Cmd("remove", applied.hub) \in todo'
        BY <2>2, <1>2 DEF ReapplyCommands
      <4> QED BY <4>1, HasIt
    <3> QED BY <2>2, <3>1, <1>2, <1>3 DEF Peered, Settles, NoneBut, Has, Rekeyed
  <2>3. CASE applied.hub = eff.hub
    <3>1. ~Has("repeer", todo') => applied.allowed = eff.allowed /\ applied.keepalive = eff.keepalive
      <4>1. applied.allowed # eff.allowed \/ applied.keepalive # eff.keepalive
              => Cmd("repeer", eff.hub) \in todo'
        BY <2>3, <1>2 DEF ReapplyCommands
      <4> QED BY <4>1, HasIt
    <3> DEFINE rest == IF Has("repeer", todo') THEN applied.allowed ELSE eff.allowed
    <3>2. rest = applied.allowed
      BY <3>1
    <3>3. /\ NoneBut(kernel, eff.hub) /\ kernel.peers[eff.hub].set
          /\ kernel.peers[eff.hub].allowed = Nets(rest) /\ (kernel.peers[eff.hub].psk <=> psk)
          /\ endpoint_ok =>
               /\ kernel.peers[eff.hub].endpoint = applied.endpoint
               /\ kernel.peers[eff.hub].keepalive
                    = IF Has("repeer", todo') THEN applied.keepalive ELSE eff.keepalive
      BY <2>3, <3>1, <3>2, <1>3 DEF Settles
    <3> HIDE DEF rest
    <3>4. ~Rebuilds' /\ ~Rekeyed' /\ (endpoint_ok' <=> endpoint_ok)
      BY <2>3, <1>2 DEF Rebuilds, Rekeyed
    <3>5. NoneBut(kernel, new.hub)'
      BY <3>3, <1>2 DEF NoneBut
    <3>6. Row(kernel, Nets(IF Has("repeer", todo) THEN applied.allowed ELSE new.allowed), psk)'
      BY <3>3, <1>2 DEF Row, rest, Has, Nets
    <3> QED BY <3>3, <3>4, <3>5, <3>6, <1>2 DEF Peered, Has
  <2> QED BY <2>2, <2>3
<1> QED BY <1>5, <1>6, <1>7, <1>8, <1>9 DEF Progress

-----------------------------------------------------------------------------
(* A plan's end: what is left to say is the endpoint and its keepalive.    *)
LEMMA AllButEndpoint ==
  ASSUME Inv, Modes, NEW k, NEW t, \A d \in t : d.op = "endpoint", Progress(k, t),
         pc \in {"apply", "reapply", "set_endpoint", "down_up"}
  PROVE  /\ Settles(k, new, FALSE)
         /\ pc = "reapply" /\ ~Rekeyed /\ endpoint_ok =>
              /\ k.peers[new.hub].endpoint \in {applied.endpoint, new.endpoint}
              /\ k.peers[new.hub].keepalive = new.keepalive
<1>1. /\ new \in Bundled
      /\ pc = "reapply" => applied \in Bundled
  BY DEF Inv, Underway
<1>2. \A op \in DOMAIN Rank \ {"endpoint"} : ~Has(op, t)
  BY DEF Has
<1>3. /\ ~Has("del", t) /\ ~Has("add", t) /\ ~Has("key", t) /\ ~Has("up", t)
      /\ ~Has("address", t) /\ ~Has("readdress", t) /\ ~Has("unaddress", t)
      /\ ~Has("remove", t) /\ ~Has("peer", t) /\ ~Has("repeer", t) /\ ~Has("psk", t)
  BY <1>2 DEF Rank
<1>4. k.link = "up"
  BY <1>3 DEF Progress, Linked
<1>5. k.addresses = {new.address}
  BY <1>3 DEF Progress, Addressed
<1>6. k.routes = Routes(new)
  <2>1. Ways(t) = new.allowed
    BY DEF Ways, Cmd
  <2>2. Nets(Ways(t)) = Nets(new.allowed)
    BY <2>1
  <2>3. CASE pc \in {"apply", "down_up"}
    BY <2>2, <2>3, <1>3 DEF Progress, Routed, Routes
  <2>4. CASE pc = "set_endpoint"
    BY <2>4 DEF Progress, Routed
  <2>5. CASE pc = "reapply"
    <3>1. OwnNet[new.address] = {}
      BY <2>5, <1>1, BothEntries
    <3>2. k.routes = Nets(new.allowed)
      BY <2>2, <2>5 DEF Progress, Routed
    <3> QED BY <3>1, <3>2 DEF Routes
  <2> QED BY <2>3, <2>4, <2>5
<1>7. NoneBut(k, new.hub) /\ Row(k, Nets(new.allowed), psk)
  <2>1. CASE Rebuilds
    BY <2>1, <1>3 DEF Progress, Peered, Row
  <2>2. CASE ~Rebuilds
    <3>1. pc = "set_endpoint" \/ (pc = "reapply" /\ ~Rekeyed)
      BY <2>2 DEF Rebuilds
    <3> QED BY <3>1, <1>3 DEF Progress, Peered
  <2> QED BY <2>1, <2>2
<1>8. pc = "reapply" /\ ~Rekeyed /\ endpoint_ok =>
        /\ k.peers[new.hub].endpoint \in {applied.endpoint, new.endpoint}
        /\ k.peers[new.hub].keepalive = new.keepalive
  BY <1>3 DEF Progress, Peered
<1> QED BY <1>4, <1>5, <1>6, <1>7, <1>8 DEF Settles, Row

LEMMA FinishRests ==
  ASSUME DistinctNets, Inv, Modes, Progress(kernel, todo), NEW ok \in BOOLEAN, Ends(ok),
         Finish(ok), todo' = {}, UNCHANGED <<fetched, psk, new, before>>
  PROVE  Rests' /\ Progress(kernel, todo)'
<1>1. PICK c \in todo :
        /\ Turn(c)
        /\ IF ok THEN todo = {c} /\ kernel' = After(c) ELSE c.op = "endpoint" /\ kernel' = kernel
  BY DEF Ends
<1>2. pc' = "idle" /\ applied' = new /\ endpoint_ok' = ok /\ psk' = psk /\ Underway /\ Kernels
  BY DEF Finish, Inv
<1>3. Progress(kernel, todo)'
  BY <1>2 DEF Progress, Later, Linked, Addressed, Routed, Peered, Rebuilds, Rekeyed
<1>4. ok => Progress(After(c), {})
  BY <1>1, ProgressStep
<1>5. CASE pc = "create"
  <2>1. ok
    <3>1. c.op \in {"add", "key"}
      BY <1>2, <1>5 DEF Underway, CreateCommands, Cmd
    <3> QED BY <3>1, <1>1
  <2>2. kernel' = After(c) /\ Progress(kernel', {}) /\ new = NoConfig
    BY <2>1, <1>1, <1>2, <1>4, <1>5 DEF Underway
  <2>3. /\ kernel'.link = "keyed" /\ kernel'.addresses = {} /\ kernel'.routes = {}
        /\ \A h \in Hubs : kernel'.peers[h] = NoPeer
    BY <2>2, <1>5 DEF Progress, Linked, Addressed, Routed, Peered, Has
  <2>4. Rests'
    BY <2>2, <2>3, <1>2, Absence DEF Rests
  <2> QED BY <2>4, <1>3
<1>6. CASE pc # "create"
  <2>1. pc \in {"apply", "reapply", "set_endpoint", "down_up"} /\ new \in Bundled /\ new.hub \in Hubs
    BY <1>1, <1>2, <1>6, Absence DEF Underway
  <2>2. CASE ~ok
    <3>1. todo = {c} /\ c.op = "endpoint" /\ kernel' = kernel
      BY <2>2, <1>1, <1>2, EndpointIsLast
    <3>2. Settles(kernel', new, FALSE)
      BY <3>1, <2>1, AllButEndpoint
    <3>3. Settles(kernel, applied, endpoint_ok)'
      BY <3>2, <2>2, <1>2 DEF Settles, NoneBut, Routes, Nets
    <3> QED BY <3>3, <1>2, <1>3, <2>1 DEF Rests
  <2>3. CASE ok
    <3> DEFINE k == After(c)
    <3>1. kernel' = k /\ todo = {c} /\ Progress(k, {})
      BY <2>3, <1>1, <1>4
    <3>0. /\ Settles(k, new, FALSE)
          /\ pc = "reapply" /\ ~Rekeyed /\ endpoint_ok =>
               /\ k.peers[new.hub].endpoint \in {applied.endpoint, new.endpoint}
               /\ k.peers[new.hub].keepalive = new.keepalive
      <4> HIDE DEF k
      <4> QED BY <3>1, <2>1, AllButEndpoint
    <3>2. /\ Settles(kernel', new, FALSE)
          /\ pc = "reapply" /\ ~Rekeyed /\ endpoint_ok =>
               /\ kernel'.peers[new.hub].endpoint \in {applied.endpoint, new.endpoint}
               /\ kernel'.peers[new.hub].keepalive = new.keepalive
      BY <3>0, <3>1
    <3>3. kernel'.peers[new.hub].endpoint = new.endpoint
          /\ kernel'.peers[new.hub].keepalive = new.keepalive
      <4>1. CASE Resolves
        <5>1. c = Cmd("endpoint", new.endpoint)
          BY <4>1, <3>1, <1>2 DEF Underway
        <5>2. c.op \in PeerOps /\ c.op = "endpoint" /\ c.on = new.endpoint
          BY <5>1 DEF Cmd, PeerOps
        <5>3. kernel.peers[new.hub] \in PeerType
          BY <1>2, <2>1 DEF Kernels, KernelType
        <5>4. kernel'.peers[new.hub] = PeerSet(c)
          <6>1. kernel'.peers = WithPeer(new.hub, PeerSet(c))
            BY <5>2, <3>1, <1>2, Parts
          <6> QED BY <6>1, <2>1 DEF WithPeer
        <5> QED BY <5>2, <5>3, <5>4, PeerFields
      <4>2. CASE ~Resolves
        <5>1. pc = "reapply" /\ ~Rekeyed /\ endpoint_ok /\ applied.endpoint = new.endpoint
          BY <4>2, <2>1 DEF Resolves
        <5> QED BY <5>1, <3>2
      <4> QED BY <4>1, <4>2
    <3>4. Settles(kernel, applied, endpoint_ok)'
      BY <3>2, <3>3, <1>2 DEF Settles, NoneBut, Routes, Nets
    <3> QED BY <3>4, <1>2, <1>3, <2>1 DEF Rests
  <2> QED BY <2>2, <2>3
<1> QED BY <1>5, <1>6

LEMMA ModesKept ==
  ASSUME Inv, Modes, [Next]_vars
  PROVE  Modes'
<1> USE DEF Modes, Start
<1>1. CASE Create
  BY <1>1 DEF Create, Inv, Underway
<1>2. CASE Apply
  BY <1>2 DEF Apply
<1>3. CASE Reapply
  BY <1>3 DEF Reapply
<1>4. CASE SetEndpoint
  BY <1>4 DEF SetEndpoint
<1>5. CASE DownUp
  BY <1>5 DEF DownUp
<1>6. CASE Run
  BY <1>6 DEF Run, Finish
<1>7. CASE EndpointFails
  BY <1>7 DEF EndpointFails, Finish
<1>8. CASE LocalFails
  BY <1>8 DEF LocalFails
<1>9. CASE UNCHANGED vars
  BY <1>9 DEF vars
<1> QED BY <1>1, <1>2, <1>3, <1>4, <1>5, <1>6, <1>7, <1>8, <1>9 DEF Next

(* Progress is of the kernel and of what is left, while the plan is one.   *)
LEMMA SameProgress ==
  ASSUME UNCHANGED <<psk, new, pc, applied, endpoint_ok>>, Progress(kernel', todo')
  PROVE  Progress(kernel, todo)'
<1>1. Later(todo)'
  <2>1. PlanOf' = PlanOf
    BY DEF PlanOf, ApplyCommands, DownUpCommands, ReapplyCommands, EndpointCommand
  <2> QED BY <2>1 DEF Progress, Later
<1>2. Linked(kernel, todo)' /\ Addressed(kernel, todo)'
  BY DEF Progress, Linked, Addressed, Has
<1>3. Routed(kernel, todo)'
  <2>1. Ways(todo)' = Ways(todo')
    BY DEF Ways
  <2>2. Nets(Ways(todo))' = Nets(Ways(todo')) /\ Routes(new)' = Routes(new)
    BY <2>1 DEF Nets, Routes
  <2> QED BY <2>2 DEF Progress, Routed, Has
<1>4. Peered(kernel, todo)'
  BY DEF Progress, Peered, Rebuilds, Rekeyed, NoneBut, Row, Nets, Has
<1> QED BY <1>1, <1>2, <1>3, <1>4 DEF Progress

LEMMA ProgressInvariant == DistinctNets /\ Spec => []FullInv
<1> SUFFICES ASSUME DistinctNets PROVE Spec => []FullInv
  OBVIOUS
<1>1. Init => FullInv
  <2> SUFFICES ASSUME Init PROVE FullInv
    OBVIOUS
  <2>1. Modes /\ Rests
    BY Absence DEF Init, Modes, Rests
  <2>2. Progress(kernel, todo)
    BY DEF Init, Progress, Later, Linked, Addressed, Routed, Peered, Rebuilds, Rekeyed
  <2> QED BY <2>1, <2>2, InitInv DEF FullInv
<1>2. FullInv /\ [Next]_vars => FullInv'
  <2> SUFFICES ASSUME FullInv, [Next]_vars PROVE FullInv'
    OBVIOUS
  <2>1. Inv' /\ Modes' /\ Inv /\ Modes /\ Rests /\ Progress(kernel, todo)
    BY NextInv, ModesKept DEF FullInv
  <2>2. CASE Starts
    <3>1. Progress(kernel, todo)'
      BY <2>1, <2>2, CreateProgress, ApplyProgress, ReapplyProgress, SetEndpointProgress, DownUpProgress
         DEF Starts
    <3>2. pc' \notin {"new", "idle"}
      BY <2>2 DEF Starts, Create, Apply, Reapply, SetEndpoint, DownUp, Start
    <3>3. Rests'
      BY <3>2 DEF Rests
    <3> QED BY <2>1, <3>1, <3>3 DEF FullInv
  <2>3. CASE Run
    <3>1. PICK c \in todo : Turn(c) /\ CanRun(c) /\ kernel' = After(c) /\ todo' = todo \ {c}
      BY <2>3 DEF Run
    <3>2. UNCHANGED <<fetched, psk, new, before>>
      BY <2>3 DEF Run
    <3>3. CASE todo' = {}
      <4>1. Finish(TRUE) /\ Ends(TRUE)
        BY <2>3, <3>1, <3>3 DEF Run, Ends
      <4>2. Rests' /\ Progress(kernel, todo)'
        BY <2>1, <3>2, <3>3, <4>1, FinishRests
      <4> QED BY <2>1, <4>2 DEF FullInv
    <3>4. CASE todo' # {}
      <4>1. UNCHANGED <<pc, applied, endpoint_ok>> /\ pc \notin {"new", "idle"}
        BY <2>1, <2>3, <3>1, <3>4 DEF Run, Inv, Underway
      <4>2. Progress(kernel', todo')
        BY <2>1, <3>1, ProgressStep
      <4>3. Progress(kernel, todo)'
        BY <4>1, <4>2, <3>2, SameProgress
      <4>4. Rests'
        BY <4>1 DEF Rests
      <4> QED BY <2>1, <4>3, <4>4 DEF FullInv
    <3> QED BY <3>3, <3>4
  <2>4. CASE EndpointFails
    <3>1. /\ Ends(FALSE) /\ Finish(FALSE) /\ todo' = {}
          /\ UNCHANGED <<fetched, psk, new, before>>
      BY <2>4 DEF EndpointFails, Ends
    <3>2. Rests' /\ Progress(kernel, todo)'
      BY <2>1, <3>1, FinishRests
    <3> QED BY <2>1, <3>2 DEF FullInv
  <2>5. CASE LocalFails
    <3>1. pc' = "broken" /\ todo' = {}
      BY <2>5 DEF LocalFails
    <3>2. Progress(kernel, todo)' /\ Rests'
      BY <3>1 DEF Progress, Later, Linked, Addressed, Routed, Peered, Rebuilds, Rekeyed, Rests
    <3> QED BY <2>1, <3>2 DEF FullInv
  <2>6. CASE UNCHANGED vars
    <3>1. UNCHANGED <<fetched, psk, kernel, applied, endpoint_ok, pc, new, todo, before>>
      BY <2>6 DEF vars
    <3>2. Progress(kernel, todo)'
      BY <2>1, <3>1, SameProgress
    <3>3. Rests'
      BY <2>1, <3>1 DEF Rests, Settles, NoneBut, Routes, Nets
    <3> QED BY <2>1, <3>2, <3>3 DEF FullInv
  <2> QED BY <2>2, <2>3, <2>4, <2>5, <2>6 DEF Next, Starts
<1> QED BY <1>1, <1>2, PTL DEF Spec

LEMMA RowFields ==
  ASSUME NEW r \in PeerType, NEW e, NEW n, NEW allowed, NEW key, NEW set,
         r.allowed = allowed, r.psk = key, r.set = set
  PROVE  [r EXCEPT !.endpoint = e, !.keepalive = n]
           = [allowed |-> allowed, endpoint |-> e, keepalive |-> n, psk |-> key, set |-> set]
<1> DEFINE fields == {"allowed", "endpoint", "keepalive", "psk", "set"}
           made == [f \in fields |-> IF f = "endpoint" THEN e ELSE IF f = "keepalive" THEN n ELSE r[f]]
<1>1. r = [f \in fields |-> r[f]]
  BY DEF PeerType
<1>2. [allowed |-> allowed, endpoint |-> e, keepalive |-> n, psk |-> key, set |-> set] = made
  OBVIOUS
<1>3. [r EXCEPT !.endpoint = e, !.keepalive = n] = made
  BY <1>1
<1> QED BY <1>2, <1>3

LEMMA RowShape ==
  ASSUME NEW r \in PeerType, NEW e, NEW n
  PROVE  [r EXCEPT !.endpoint = e, !.keepalive = n]
           = [allowed |-> r.allowed, endpoint |-> e, keepalive |-> n, psk |-> r.psk, set |-> r.set]
BY RowFields

LEMMA RowMade ==
  ASSUME NEW r \in PeerType, NEW eff, r.allowed = Nets(eff.allowed), r.psk = psk, r.set = TRUE
  PROVE  [r EXCEPT !.endpoint = eff.endpoint, !.keepalive = eff.keepalive] = Peer(eff)
<1>1. [r EXCEPT !.endpoint = eff.endpoint, !.keepalive = eff.keepalive]
        = [allowed |-> r.allowed, endpoint |-> eff.endpoint, keepalive |-> eff.keepalive,
           psk |-> r.psk, set |-> r.set]
  BY RowShape, Zenon
<1> QED BY <1>1, Zenon DEF Peer

(* Whatever sequence of applies, re-applies and repairs led here: between  *)
(* two of them the kernel is what a first apply of the configuration would *)
(* make, but for an endpoint that did not resolve (wireguard.rs 250-294).  *)
THEOREM KernelIsConfig == DistinctNets /\ Spec => []ConfigInKernel
<1> SUFFICES ASSUME DistinctNets PROVE Spec => []ConfigInKernel
  OBVIOUS
<1>1. FullInv => ConfigInKernel
  <2> DEFINE hub == applied.hub
             row == kernel.peers[hub]
             k == [kernel EXCEPT !.peers[hub].endpoint = applied.endpoint,
                                 !.peers[hub].keepalive = applied.keepalive]
  <2> SUFFICES ASSUME FullInv, Settled
               PROVE  Target(applied) = IF endpoint_ok THEN kernel ELSE k
    BY DEF ConfigInKernel
  <2>1. /\ applied \in Bundled /\ hub \in Hubs /\ kernel \in KernelType
        /\ Settles(kernel, applied, endpoint_ok)
    BY Absence DEF FullInv, Inv, Underway, Kernels, Settled, Rests
  <2>2. row \in PeerType
    BY <2>1 DEF KernelType
  <2> DEFINE wanted == [h \in Hubs |-> IF h = hub THEN Peer(applied) ELSE NoPeer]
  <2>3. CASE endpoint_ok
    <3>1. row = Peer(applied)
      <4>1. /\ row.allowed = Nets(applied.allowed) /\ row.endpoint = applied.endpoint
            /\ row.keepalive = applied.keepalive /\ row.psk = psk /\ row.set = TRUE
        BY <2>1, <2>2, <2>3 DEF Settles, PeerType, FullInv, Inv, Underway
      <4> QED BY <4>1, <2>2 DEF Peer, PeerType
    <3>2. kernel.peers = wanted
      BY <3>1, <2>1 DEF Settles, NoneBut, KernelType
    <3>3. Target(applied) = kernel
      BY <3>2, <2>1 DEF Target, Settles, KernelType
    <3> QED BY <3>3, <2>3
  <2>4. CASE ~endpoint_ok
    <3> DEFINE new_row == [row EXCEPT !.endpoint = applied.endpoint, !.keepalive = applied.keepalive]
    <3>1. new_row = Peer(applied)
      <4>1. row.allowed = Nets(applied.allowed) /\ row.psk = psk /\ row.set = TRUE
        BY <2>1, <2>2 DEF Settles, PeerType, FullInv, Inv, Underway
      <4> HIDE DEF row
      <4> QED BY <4>1, <2>2, RowMade
    <3>2. [kernel.peers EXCEPT ![hub] = new_row] = wanted
      BY <3>1, <2>1 DEF Settles, NoneBut, KernelType
    <3>3. k = [kernel EXCEPT !.peers = [kernel.peers EXCEPT ![hub] = new_row]]
      BY <2>1, <2>2 DEF KernelType, PeerType
    <3>4. k = [link |-> kernel.link, peers |-> wanted, addresses |-> kernel.addresses,
               routes |-> kernel.routes]
      <4> HIDE DEF wanted, new_row, k
      <4> QED BY <3>2, <3>3, <2>1 DEF KernelType
    <3>5. kernel.link = "up" /\ kernel.addresses = {applied.address} /\ kernel.routes = Routes(applied)
      BY <2>1 DEF Settles
    <3>6. Target(applied) = k
      BY <3>4, <3>5, Zenon DEF Target
    <3> QED BY <3>6, <2>4
  <2> QED BY <2>3, <2>4
<1> QED BY <1>1, ProgressInvariant, PTL

(* No command of a plan fails for what an earlier plan, or an earlier      *)
(* command of its own, left in the kernel (wireguard.rs 219-320).          *)
THEOREM CommandsRun == DistinctNets /\ Spec => []NoStaleCommand
<1> SUFFICES ASSUME DistinctNets PROVE Spec => []NoStaleCommand
  OBVIOUS
<1>1. FullInv => NoStaleCommand
  <2> SUFFICES ASSUME FullInv, NEW c \in todo, Turn(c) PROVE CanRun(c)
    BY DEF NoStaleCommand
  <2>1. Underway /\ Progress(kernel, todo) /\ c.op \in DOMAIN Rank
    BY Commands DEF FullInv, Inv
  <2>2. \A op \in DOMAIN Rank : Has(op, todo) => Rank[c.op] <= Rank[op]
    BY <2>1, InOrder
  <2>3. Has(c.op, todo)
    BY DEF Has
  <2>4. pc \in {"create", "apply", "reapply", "set_endpoint", "down_up"}
    BY <2>1 DEF Underway
  <2>5. c.op = "add" => kernel.link = "none"
    <3> SUFFICES ASSUME c.op = "add" PROVE kernel.link = "none"
      OBVIOUS
    <3>1. pc \in {"create", "down_up"}
      BY <2>1, OfPlan
    <3>2. ~Has("del", todo)
      BY <2>2 DEF Rank
    <3> QED BY <3>1, <3>2, <2>1, <2>3 DEF Progress, Linked
  <2>6. c.op \notin {"add", "del"} => kernel.link # "none"
    <3> SUFFICES ASSUME c.op \notin {"add", "del"} PROVE kernel.link # "none"
      OBVIOUS
    <3>1. ~Has("del", todo) /\ ~Has("add", todo)
      BY <2>1, <2>2 DEF Rank
    <3> QED BY <3>1, <2>1, <2>4 DEF Progress, Linked
  <2>7. c.op = "address" => c.on \notin kernel.addresses
    <3> SUFFICES ASSUME c.op = "address" PROVE c.on \notin kernel.addresses
      OBVIOUS
    <3>1. pc \in {"apply", "down_up"}
      BY <2>1, OfPlan
    <3>2. ~Has("del", todo)
      BY <2>2 DEF Rank
    <3> QED BY <3>1, <3>2, <2>1, <2>3 DEF Progress, Addressed
  <2>8. c.op = "unaddress" => c.on \in kernel.addresses
    <3> SUFFICES ASSUME c.op = "unaddress" PROVE c.on \in kernel.addresses
      OBVIOUS
    <3>1. c = Cmd("unaddress", applied.address) /\ pc = "reapply"
      BY <2>1, OfPlan
    <3> QED BY <3>1, <2>1, <2>3 DEF Progress, Addressed, Cmd
  <2>9. c.op = "route" => kernel.link = "up"
    <3> SUFFICES ASSUME c.op = "route" PROVE kernel.link = "up"
      OBVIOUS
    <3>1. pc \in {"apply", "down_up", "reapply"}
      BY <2>1, OfPlan
    <3>2. ~Has("del", todo) /\ ~Has("add", todo) /\ ~Has("key", todo) /\ ~Has("up", todo)
      BY <2>2 DEF Rank
    <3> QED BY <3>1, <3>2, <2>1 DEF Progress, Linked
  <2>10. c.op = "unroute" => Net[c.on] \in kernel.routes
    <3> SUFFICES ASSUME c.op = "unroute" PROVE Net[c.on] \in kernel.routes
      OBVIOUS
    <3>1. pc = "reapply" /\ c.on \in Ways(todo)
      BY <2>1, WaysStep
    <3>2. kernel.routes = Nets(Ways(todo))
      BY <3>1, <2>1 DEF Progress, Routed
    <3> QED BY <3>1, <3>2 DEF Nets
  <2> QED BY <2>5, <2>6, <2>7, <2>8, <2>9, <2>10 DEF CanRun
<1> QED BY <1>1, ProgressInvariant, PTL

(* At each command of a re-apply what both configurations have is there,   *)
(* and an unchanged hub keeps its endpoint (README.md 95-97).              *)
THEOREM InPlace == DistinctNets /\ Spec => []ReapplyInPlace
<1> SUFFICES ASSUME DistinctNets PROVE Spec => []ReapplyInPlace
  OBVIOUS
<1>1. FullInv => ReapplyInPlace
  <2> SUFFICES ASSUME FullInv, pc = "reapply"
               PROVE  /\ kernel.link = "up" /\ kernel.addresses # {}
                      /\ Routes(applied) \cap Routes(new) \subseteq kernel.routes
                      /\ applied.hub = new.hub =>
                           /\ Nets(applied.allowed \cap new.allowed)
                                 \subseteq kernel.peers[new.hub].allowed
                           /\ endpoint_ok => kernel.peers[new.hub].endpoint
                                               \in {applied.endpoint, new.endpoint}
    BY DEF ReapplyInPlace
  <2>1. /\ Underway /\ Progress(kernel, todo) /\ applied \in Bundled /\ new \in Bundled
        /\ todo \subseteq ReapplyCommands(applied, new, endpoint_ok)
    BY DEF FullInv, Inv, Underway
  <2>2. kernel.link = "up"
    BY <2>1 DEF Progress, Linked
  <2>3. kernel.addresses # {}
    <3>1. ~Has("unaddress", todo) /\ applied.address # new.address => ~Has("readdress", todo)
      <4> SUFFICES ASSUME ~Has("unaddress", todo), applied.address # new.address, Has("readdress", todo)
                   PROVE  FALSE
        OBVIOUS
      <4>1. Cmd("unaddress", applied.address) \in PlanOf \ todo
        <5>1. Cmd("unaddress", applied.address) \in PlanOf
          BY DEF PlanOf, ReapplyCommands
        <5> QED BY <5>1, HasIt
      <4>2. PICK c \in todo : c.op = "readdress"
        BY DEF Has
      <4>3. Rank["unaddress"] <= Rank["readdress"]
        BY <4>1, <4>2, <2>1 DEF Progress, Later, Cmd
      <4> QED BY <4>3 DEF Rank
    <3> QED BY <3>1, <2>1 DEF Progress, Addressed
  <2>4. Routes(applied) \cap Routes(new) \subseteq kernel.routes
    <3>1. Routes(applied) = Nets(applied.allowed) /\ Routes(new) = Nets(new.allowed)
      BY <2>1, BothEntries DEF FullInv, Routes
    <3>2. kernel.routes = Nets(Ways(todo))
      BY <2>1 DEF Progress, Routed
    <3>3. applied.allowed \cap new.allowed \subseteq Ways(todo)
      <4>1. \A x \in applied.allowed : Cmd("route", x) \notin todo
        BY <2>1 DEF ReapplyCommands, EndpointCommand, OnRoutes, Cmd
      <4> QED BY <4>1 DEF Ways
    <3>4. applied.allowed \subseteq Cidrs /\ new.allowed \subseteq Cidrs
      BY <2>1, Configs
    <3> QED BY <3>1, <3>2, <3>3, <3>4 DEF Nets, DistinctNets
  <2>5. ASSUME applied.hub = new.hub
        PROVE  /\ Nets(applied.allowed \cap new.allowed) \subseteq kernel.peers[new.hub].allowed
               /\ endpoint_ok => kernel.peers[new.hub].endpoint \in {applied.endpoint, new.endpoint}
    <3>1. ~Rekeyed
      BY <2>5 DEF Rekeyed
    <3>2. /\ Row(kernel, Nets(IF Has("repeer", todo) THEN applied.allowed ELSE new.allowed), psk)
          /\ endpoint_ok => kernel.peers[new.hub].endpoint \in {applied.endpoint, new.endpoint}
      BY <3>1, <2>1 DEF Progress, Peered
    <3>3. kernel.peers[new.hub].allowed
            = Nets(IF Has("repeer", todo) THEN applied.allowed ELSE new.allowed)
      BY <3>2 DEF Row
    <3> QED BY <3>2, <3>3 DEF Nets
  <2> QED BY <2>2, <2>3, <2>4, <2>5
<1> QED BY <1>1, ProgressInvariant, PTL
=============================================================================
