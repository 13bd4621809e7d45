-------------------------------- MODULE Wg0 ---------------------------------
(***************************************************************************)
(* The interface wg0 as the commands of src/wireguard.rs make it: the      *)
(* planner (apply_commands, reapply_commands, endpoint_command), the       *)
(* Interface that runs a plan one command at a time and stops at the first *)
(* that fails, and the kernel those commands change.                       *)
(*                                                                         *)
(* A plan is a set of commands; Order says which of two runs first, and    *)
(* the routes, all of one rank, run in any order.  A command names what it *)
(* is about in `on`; the rest of its arguments are those of `new`, the     *)
(* configuration being applied.  Between plans the supervisor or the boot  *)
(* decides which comes next, which is Tunnel.tla's subject: here any may.  *)
(*                                                                         *)
(* `before` is history: the kernel when the plan under way was started.    *)
(***************************************************************************)
EXTENDS Integers

CONSTANTS
  Entries,     \* the configurations a bundle may hold for this spoke
  EnvEntries,  \* the configurations of environment mode
  Net,         \* the network each CIDR, a text, denotes
  OwnNet       \* the networks an address brings with it when the link is up

None == "None"
Bundled == Entries \cup EnvEntries
Hubs == {e.hub : e \in Bundled}
Cidrs == UNION {e.allowed : e \in Bundled}
Addresses == {e.address : e \in Bundled}
Keepalives == {e.keepalive : e \in Bundled}
Nets(allowed) == {Net[c] : c \in allowed}

(* A bundle's address is a /32 and brings no network.                      *)
ASSUME Wg0Assumption ==
  /\ \A e \in Bundled : e.hub # None /\ e.endpoint # None
  /\ \A e \in Entries : OwnNet[e.address] = {}

(* One network has one spelling, for the planner compares the texts.       *)
DistinctNets == \A x, y \in Cidrs : Net[x] = Net[y] => x = y

VARIABLES
  fetched,      \* the mode
  psk,          \* environment mode has a preshared key
  kernel,       \* wg0
  applied,      \* Plan.applied
  endpoint_ok,
  pc,           \* "new", "idle", the plan being run, or "broken"
  new,          \* its configuration
  todo,         \* its commands not yet run
  before        \* history

vars == <<fetched, psk, kernel, applied, endpoint_ok, pc, new, todo, before>>

NoPeer == [allowed |-> {}, endpoint |-> None, keepalive |-> 0, psk |-> FALSE, set |-> FALSE]
NoConfig == [address |-> None, hub |-> None, endpoint |-> None, allowed |-> {}, keepalive |-> 0]
NoKernel == [link |-> "none", peers |-> [h \in Hubs |-> NoPeer], addresses |-> {}, routes |-> {}]

(* What a configuration asks of the kernel.                                *)
Peer(eff) == [allowed |-> Nets(eff.allowed), endpoint |-> eff.endpoint,
              keepalive |-> eff.keepalive, psk |-> psk, set |-> TRUE]
Routes(eff) == Nets(eff.allowed) \cup OwnNet[eff.address]
Target(eff) == [link |-> "up", peers |-> [h \in Hubs |-> IF h = eff.hub THEN Peer(eff) ELSE NoPeer],
                addresses |-> {eff.address}, routes |-> Routes(eff)]

-----------------------------------------------------------------------------
(* The planner.                                                            *)
Cmd(op, on) == [op |-> op, on |-> on]
OnRoutes(op, cidrs) == {Cmd(op, c) : c \in cidrs}

EndpointCommand(eff) == {Cmd("endpoint", eff.endpoint)}

ApplyCommands(eff) ==
  {Cmd("peer", eff.hub), Cmd("address", eff.address), Cmd("up", None)}
  \cup {c \in {Cmd("psk", eff.hub)} : psk}
  \cup OnRoutes("route", eff.allowed)
  \cup EndpointCommand(eff)

(* MUTANT of ReapplyCommands: a replaced hub's peer stays.                 *)
ReapplyCommandsKeepPeer(old, eff, ok) ==
  LET key_changed == old.hub # eff.hub
      readdressed == old.address # eff.address
  IN  {c \in {Cmd("peer", eff.hub)} : key_changed}
      \cup {c \in {Cmd("repeer", eff.hub)} :
              ~key_changed /\ (old.allowed # eff.allowed \/ old.keepalive # eff.keepalive)}
      \cup {c \in {Cmd("readdress", eff.address), Cmd("unaddress", old.address)} : readdressed}
      \cup OnRoutes("route", eff.allowed \ old.allowed)
      \cup OnRoutes("unroute", old.allowed \ eff.allowed)
      \cup {c \in EndpointCommand(eff) : key_changed \/ old.endpoint # eff.endpoint \/ ~ok}

(* MUTANT of ReapplyCommands: a failed resolution is not retried.          *)
ReapplyCommandsOnChange(old, eff, ok) ==
  LET key_changed == old.hub # eff.hub
      readdressed == old.address # eff.address
  IN  {c \in {Cmd("remove", old.hub), Cmd("peer", eff.hub)} : key_changed}
      \cup {c \in {Cmd("repeer", eff.hub)} :
              ~key_changed /\ (old.allowed # eff.allowed \/ old.keepalive # eff.keepalive)}
      \cup {c \in {Cmd("readdress", eff.address), Cmd("unaddress", old.address)} : readdressed}
      \cup OnRoutes("route", eff.allowed \ old.allowed)
      \cup OnRoutes("unroute", old.allowed \ eff.allowed)
      \cup {c \in EndpointCommand(eff) : key_changed \/ old.endpoint # eff.endpoint}

(* One row per field that changed.                                         *)
ReapplyCommands(old, eff, ok) ==
  LET key_changed == old.hub # eff.hub
      readdressed == old.address # eff.address
  IN  {c \in {Cmd("remove", old.hub), Cmd("peer", eff.hub)} : key_changed}
      \cup {c \in {Cmd("repeer", eff.hub)} :
              ~key_changed /\ (old.allowed # eff.allowed \/ old.keepalive # eff.keepalive)}
      \cup {c \in {Cmd("readdress", eff.address), Cmd("unaddress", old.address)} : readdressed}
      \cup OnRoutes("route", eff.allowed \ old.allowed)
      \cup OnRoutes("unroute", old.allowed \ eff.allowed)
      \cup {c \in EndpointCommand(eff) : key_changed \/ old.endpoint # eff.endpoint \/ ~ok}

CreateCommands == {Cmd("add", None), Cmd("key", None)}
(* MUTANT of DownUpCommands: wg0 is not deleted first.                     *)
DownUpCommandsUp(eff) == CreateCommands \cup ApplyCommands(eff)

DownUpCommands(eff) == {Cmd("del", None)} \cup CreateCommands \cup ApplyCommands(eff)

(* MUTANT of Rank: the old address is given up before there is a new one.  *)
RankUnaddressFirst ==
  [del |-> 0, add |-> 1, key |-> 2, remove |-> 3, peer |-> 4, repeer |-> 4, psk |-> 5,
   address |-> 6, readdress |-> 8, unaddress |-> 7, up |-> 8, route |-> 9, unroute |-> 10,
   endpoint |-> 11]

(* The order of the vectors the planner builds                             *)
Rank ==
  [del |-> 0, add |-> 1, key |-> 2, remove |-> 3, peer |-> 4, repeer |-> 4, psk |-> 5,
   address |-> 6, readdress |-> 6, unaddress |-> 7, up |-> 8, route |-> 9, unroute |-> 10,
   endpoint |-> 11]

Turn(c) == c \in todo /\ \A other \in todo : Rank[c.op] <= Rank[other.op]

-----------------------------------------------------------------------------
(* The kernel: when a command has what it needs, and what it leaves.       *)
CanRun(c) ==
  /\ c.op = "add" => kernel.link = "none"
  /\ c.op \notin {"add", "del"} => kernel.link # "none"
  /\ c.op = "address" => c.on \notin kernel.addresses
  /\ c.op = "unaddress" => c.on \in kernel.addresses
  /\ c.op = "route" => kernel.link = "up"
  /\ c.op = "unroute" => Net[c.on] \in kernel.routes

(* An allowed IP belongs to one peer: the latest to be given it.           *)
WithPeer(hub, peer) ==
  [h \in Hubs |-> IF h = hub THEN peer
                  ELSE [kernel.peers[h] EXCEPT !.allowed = @ \ peer.allowed]]

(* What `wg set wg0 peer` makes of the peer: a row it lacks it adds.       *)
PeerAfter(c, peer) ==
  CASE c.op = "peer" -> [peer EXCEPT !.allowed = Nets(new.allowed)]
    [] c.op = "repeer" ->
         [peer EXCEPT !.allowed = IF applied.allowed # new.allowed THEN Nets(new.allowed) ELSE @,
                      !.keepalive = IF applied.keepalive # new.keepalive THEN new.keepalive ELSE @]
    [] c.op = "psk" -> [peer EXCEPT !.psk = TRUE]
    [] c.op = "endpoint" -> [peer EXCEPT !.endpoint = c.on, !.keepalive = new.keepalive]

PeerOps == {"peer", "repeer", "psk", "endpoint"}

After(c) ==
  CASE c.op = "del" -> NoKernel
    [] c.op = "add" -> [kernel EXCEPT !.link = "added"]
    [] c.op = "key" -> [kernel EXCEPT !.link = "keyed"]
    [] c.op = "remove" -> [kernel EXCEPT !.peers[c.on] = NoPeer]
    [] c.op \in PeerOps ->
         [kernel EXCEPT !.peers =
            WithPeer(new.hub, [PeerAfter(c, kernel.peers[new.hub]) EXCEPT !.set = TRUE])]
    [] c.op \in {"address", "readdress"} -> [kernel EXCEPT !.addresses = @ \cup {c.on}]
    [] c.op = "unaddress" -> [kernel EXCEPT !.addresses = @ \ {c.on}]
    [] c.op = "up" -> [kernel EXCEPT !.link = "up",
                                     !.routes = @ \cup UNION {OwnNet[a] : a \in kernel.addresses}]
    [] c.op = "route" -> [kernel EXCEPT !.routes = @ \cup {Net[c.on]}]
    [] c.op = "unroute" -> [kernel EXCEPT !.routes = @ \ {Net[c.on]}]

-----------------------------------------------------------------------------
Init ==
  /\ fetched \in BOOLEAN
  /\ psk \in IF fetched THEN {FALSE} ELSE BOOLEAN
  /\ kernel = NoKernel
  /\ applied = NoConfig /\ endpoint_ok = TRUE
  /\ pc = "new" /\ new = NoConfig /\ todo = {}
  /\ before = NoKernel

Start(plan, eff, commands) ==
  /\ pc' = plan /\ new' = eff /\ todo' = commands
  /\ before' = kernel
  /\ UNCHANGED <<fetched, psk, kernel, applied, endpoint_ok>>

(* Interface::create                                                       *)
Create == pc = "new" /\ Start("create", NoConfig, CreateCommands)

(* Interface::apply, of the boot, or of the first bundle obtained.         *)
Apply ==
  /\ pc = "idle" /\ applied = NoConfig
  /\ \E eff \in IF fetched THEN Entries ELSE EnvEntries :
       Start("apply", eff, ApplyCommands(eff))

(* Interface::reapply, of a bundle that changed this spoke's entry         *)
Reapply ==
  /\ pc = "idle" /\ applied # NoConfig /\ fetched
  /\ \E eff \in Entries \ {applied} :
       Start("reapply", eff, ReapplyCommands(applied, eff, endpoint_ok))

(* The two repairs: Interface::set_endpoint and Interface::down_up         *)
SetEndpoint ==
  /\ pc = "idle" /\ applied # NoConfig
  /\ Start("set_endpoint", applied, EndpointCommand(applied))

DownUp ==
  /\ pc = "idle" /\ applied # NoConfig
  /\ Start("down_up", applied, DownUpCommands(applied))

(* The end of a plan, as the supervisor's classify and the boot record it. *)
Finish(ok) ==
  /\ pc' = "idle"
  /\ applied' = new
  /\ endpoint_ok' = ok

(* Interface::exec of a command that succeeds                              *)
Run ==
  /\ \E c \in todo :
       /\ Turn(c) /\ CanRun(c)
       /\ kernel' = After(c)
       /\ todo' = todo \ {c}
  /\ IF todo' = {} THEN Finish(TRUE) ELSE UNCHANGED <<pc, applied, endpoint_ok>>
  /\ UNCHANGED <<fetched, psk, new, before>>

(* ApplyError::Endpoint: the name does not resolve, and wg sets nothing.   *)
EndpointFails ==
  /\ \E c \in todo : Turn(c) /\ c.op = "endpoint"
  /\ todo' = {}
  /\ Finish(FALSE)
  /\ UNCHANGED <<fetched, psk, kernel, new, before>>

(* ApplyError::Local, or a failure of create: Broken, and wg0 taken down.  *)
LocalFails ==
  /\ \E c \in todo : Turn(c) /\ c.op # "endpoint"
  /\ todo' = {} /\ pc' = "broken"
  /\ kernel' = NoKernel
  /\ UNCHANGED <<fetched, psk, applied, endpoint_ok, new, before>>

Next ==
  \/ Create
  \/ Apply
  \/ Reapply
  \/ SetEndpoint
  \/ DownUp
  \/ Run
  \/ EndpointFails
  \/ LocalFails

Spec == Init /\ [][Next]_vars

-----------------------------------------------------------------------------
PeerType ==
  [allowed : SUBSET {Net[c] : c \in Cidrs}, endpoint : {e.endpoint : e \in Bundled} \cup {None},
   keepalive : Keepalives \cup {0}, psk : BOOLEAN, set : BOOLEAN]

TypeOK ==
  /\ fetched \in BOOLEAN /\ psk \in BOOLEAN
  /\ kernel \in [link : {"none", "added", "keyed", "up"}, peers : [Hubs -> PeerType],
                 addresses : SUBSET Addresses,
                 routes : SUBSET UNION ({{Net[c] : c \in Cidrs}} \cup {OwnNet[a] : a \in Addresses})]
  /\ applied \in Bundled \cup {NoConfig} /\ new \in Bundled \cup {NoConfig}
  /\ endpoint_ok \in BOOLEAN
  /\ pc \in {"new", "create", "idle", "apply", "reapply", "set_endpoint", "down_up", "broken"}
  /\ \A c \in todo : c.op \in DOMAIN Rank

Settled == pc = "idle" /\ applied # NoConfig

(* Whatever sequence of applies, re-applies and repairs led here, and      *)
(* whichever of their endpoints failed to resolve: the kernel is what a    *)
(* first apply of the configuration would make, with no peer, address or   *)
(* route left of an earlier one (wireguard.rs 250-294, the rows of the     *)
(* re-apply).  A resolution that failed costs the endpoint and its         *)
(* keepalive alone: the endpoint is the last command of every plan.        *)
ConfigInKernel ==
  Settled =>
    Target(applied) =
      IF endpoint_ok THEN kernel
      ELSE [kernel EXCEPT !.peers[applied.hub].endpoint = applied.endpoint,
                          !.peers[applied.hub].keepalive = applied.keepalive]

(* No local command fails for what an earlier plan or an earlier command   *)
(* of its own left in the kernel; a local failure is Broken, the end of    *)
(* the run.                                                                *)
NoStaleCommand == \A c \in todo : Turn(c) => CanRun(c)

(* A re-apply is in place: at each of its commands what both               *)
(* configurations have is there, and an unchanged hub keeps its endpoint   *)
(* (README.md 95-97).                                                      *)
ReapplyInPlace ==
  pc = "reapply" =>
    /\ kernel.link = "up" /\ kernel.addresses # {}
    /\ Routes(applied) \cap Routes(new) \subseteq kernel.routes
    /\ applied.hub = new.hub =>
         /\ Nets(applied.allowed \cap new.allowed) \subseteq kernel.peers[new.hub].allowed
         /\ endpoint_ok => kernel.peers[new.hub].endpoint \in {applied.endpoint, new.endpoint}

(* The peer as the callers see it; while a plan runs, as it was before.    *)
Seen(k) ==
  LET present == {h \in Hubs : k.peers[h].set}
  IN  IF present = {} THEN [hub |-> None, endpoint |-> None]
      ELSE LET hub == CHOOSE h \in present : TRUE
           IN  [hub |-> hub, endpoint |-> k.peers[hub].endpoint]

View == INSTANCE WgView WITH
  Configs <- Bundled,
  wg <- Seen(IF todo = {} THEN kernel ELSE before)

(* A plan of commands is to its callers one step, whichever command it     *)
(* stopped at: Tunnel.tla's and Boot.tla's wg0 (wireguard.rs `endpoint_ok  *)
(* false re-sets the endpoint even when it did not change`).               *)
OneStepToCallers == View!Spec
=============================================================================
