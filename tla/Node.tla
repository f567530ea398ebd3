-------------------------------- MODULE Node ---------------------------------
(***************************************************************************)
(* What one node does to its own machine: the daemon of engine/src/daemon.rs *)
(* (start, tick, membership events, exit), the WireGuard device it drives    *)
(* (wg/src/kernel.rs, wg-userspace/src/lib.rs), the routes it installs       *)
(* (route_manager.rs over platform/src/linux.rs), the files it leaves        *)
(* (members.rs, atomic.rs), and `hextet up` and `hextet down` run  *)
(* beside it.                                                               *)
(*                                                                          *)
(* The state machine of a peer is PunchFsm's; here a tick may find a peer    *)
(* connected only if the device knows it, and may answer with any of its     *)
(* actions.  A tick visits one peer per step, so that a command, a kill or a *)
(* user's own `ip route` falls between two peers; what a kill in the middle   *)
(* of a sync leaves behind is what a failed operation and a kill leave.       *)
(***************************************************************************)
EXTENDS Slips, Integers, Sequences, FiniteSets, Functions

CONSTANTS Config,        \* the peers of the configuration, in its order
          Gossiped,      \* the nodes gossip may admit
          RoutesOf(_),   \* what a configured peer announces, in the order of the file
          Foreign,       \* routes a user may add to the interface by hand
          Platforms      \* subset of {"kernel", "userspace"}

VARIABLES
  platform,   \* which WgBackend the build uses
  link,       \* the interface: none, bare (no address, not up) or set
  device,     \* the peers of the WireGuard device -> their AllowedIPs
  table,      \* the routes of the interface
  proc,       \* where the daemon is; turn: the peers this tick has still to visit
  peers,      \* its runtime table: peer -> [routes, connected]
  members,    \* its gossip-admitted members
  installed,  \* RouteManager: peer -> the routes it believes to have installed
  disk,       \* members.json
  heard,      \* the revocations this process has acted on
  hand        \* history: the routes a user added and still has
os == <<link, device, table, hand>>
memory == <<peers, members, installed, heard>>
vars == <<platform, os, proc, memory, disk, slips, changes>>

Site(p) == p      \* a site is named for its node
Keys == Range(Config) \cup Gossiped
ASSUME KeysAssumption == IsFiniteSet(Keys)
AllRoutes == Foreign \cup UNION {Range(RoutesOf(p)) : p \in Range(Config)}
\* What Config::load refuses: a route announced by two peers.
ASSUME RoutesAssumption ==
  /\ \A p \in Range(Config) : RoutesOf(p) \in Seq(AllRoutes)
  /\ \A p, q \in Range(Config) : p # q => Range(RoutesOf(p)) \cap Range(RoutesOf(q)) = {}
allowed_ips_for(p, routes) == {Site(p)} \cup Range(routes)

Kernel == platform = "kernel"
Nobody == [p \in {} |-> {}]
Off == [pc |-> "off", turn |-> <<>>]
Init ==
  /\ platform \in Platforms
  /\ link = "none" /\ device = Nobody /\ table = {} /\ hand = {}
  /\ proc = Off /\ peers = Nobody /\ members = {} /\ heard = {}
  /\ installed = [p \in Keys |-> <<>>]
  /\ disk = {} /\ slips = {} /\ changes = 0

(* WgBackend.  A kernel update creates the device when it is not there, and  *)
(* the peer as well; the userspace backend refuses what it does not know.    *)
Created == IF link = "none" THEN "bare" ELSE link
build_device_spec == [p \in Range(Config) |-> allowed_ips_for(p, RoutesOf(p))]
With(f, p, x) == [q \in DOMAIN f \cup {p} |-> IF q = p THEN x ELSE f[q]]
Without(f, p) == [q \in DOMAIN f \ {p} |-> f[q]]
kernel_set_peer_endpoint(d, p) == IF p \in DOMAIN d THEN d ELSE With(d, p, {})
userspace_set_peer_endpoint(d, p) == d
set_peer_endpoint(d, p) == IF Kernel THEN kernel_set_peer_endpoint(d, p) ELSE userspace_set_peer_endpoint(d, p)
kernel_add_peer(d, p, ips) == With(d, p, ips \cup (IF p \in DOMAIN d THEN d[p] ELSE {}))
userspace_add_peer(d, p, ips) == With(d, p, ips)
add_peer(d, p, ips) == IF Kernel THEN kernel_add_peer(d, p, ips) ELSE userspace_add_peer(d, p, ips)
kernel_remove_peer(d, p) == Without(d, p)
userspace_remove_peer(d, p) == IF p \in DOMAIN d THEN Without(d, p) ELSE d
remove_peer(d, p) == IF Kernel THEN kernel_remove_peer(d, p) ELSE userspace_remove_peer(d, p)

(* RouteManager.sync: removals, then additions; the first error ends it, and *)
(* the tracked routes change only when there was none.  Operation k fails.   *)
Ops(current, desired) ==
  LET Old(r) == [op |-> IF r \in Range(desired) THEN "keep" ELSE "del", route |-> r]
      New(r) == [op |-> IF r \in Range(current) THEN "keep" ELSE "add", route |-> r]
  IN  [i \in 1..Len(current) |-> Old(current[i])] \o [i \in 1..Len(desired) |-> New(desired[i])]
\* EEXIST and ESRCH; no such interface, or one that is down.
add_route_fails(r) == link # "set" \/ r \in table
remove_route_fails(r) == link # "set" \/ r \notin table
Refused(o) == \/ o.op = "add" /\ add_route_fails(o.route)
              \/ o.op = "del" /\ remove_route_fails(o.route)
Fails(ops, k, i) == i = k \/ Refused(ops[i])
Routes(ops, done, op) == {ops[i].route : i \in {j \in done : ops[j].op = op}}
After(ops, done) == (table \ Routes(ops, done, "del")) \cup Routes(ops, done, "add")
\* Mutant: an error is logged and the next route tried.
sync_all(p, desired, k) ==
  LET ops == Ops(installed[p], desired)
  IN  /\ table' = After(ops, {i \in 1..Len(ops) : ~Refused(ops[i])})
      /\ installed' = [installed EXCEPT ![p] = desired]
sync(p, desired, k) ==
  LET ops == Ops(installed[p], desired)
  IN  /\ k # 0 => k \in 1..Len(ops) /\ ops[k].op # "keep"
      /\ \E n \in 0..Len(ops) :
           /\ \A i \in 1..n : ~Fails(ops, k, i)
           /\ n < Len(ops) => Fails(ops, k, n + 1)
           /\ table' = After(ops, 1..n)
           /\ installed' = IF n = Len(ops) THEN [installed EXCEPT ![p] = desired] ELSE installed

(* The end of the process: what it holds in memory is gone, and with the     *)
(* userspace backend the device and its routes are too.                      *)
Forget ==
  /\ proc' = Off /\ peers' = Nobody /\ members' = {} /\ heard' = {}
  /\ installed' = [p \in Keys |-> <<>>]
Release(rest) ==
  /\ Forget
  /\ IF Kernel THEN table' = rest /\ UNCHANGED <<link, device, hand>>
     ELSE link' = "none" /\ device' = Nobody /\ table' = {} /\ hand' = {}

(* run_async: the device, the interface, the tables; then the loop.          *)
kernel_apply == device' = build_device_spec /\ link' = Created
userspace_apply == device' = build_device_spec /\ link' = "bare"
Apply == IF Kernel THEN kernel_apply ELSE userspace_apply
Start ==
  /\ proc = Off /\ Spend /\ Apply
  /\ proc' = [Off EXCEPT !.pc = "setup"]
  /\ UNCHANGED <<platform, table, hand, memory, disk, slips>>
\* setup_interface looks the interface up by its name.
SetupInterface ==
  /\ proc.pc = "setup" /\ NoSlip /\ UNCHANGED <<platform, disk>>
  /\ IF link = "none" THEN Release({})
     ELSE link' = "set" /\ proc' = [proc EXCEPT !.pc = "serve"] /\ UNCHANGED <<device, table, hand, memory>>
Idle(routes) == [routes |-> routes, connected |-> FALSE]
Serve ==
  /\ proc.pc = "serve"
  /\ members' = disk
  /\ peers' = [p \in Range(Config) \cup disk |-> Idle(IF p \in Range(Config) THEN RoutesOf(p) ELSE <<>>)]
  /\ proc' = [proc EXCEPT !.pc = "on"]
  /\ NoSlip /\ UNCHANGED <<platform, os, installed, heard, disk>>

(* tick_once.  Without a device to read it does nothing.                     *)
\* The configured peers in the order of the file, then members as they were admitted.
Orders ==
  {s \in Injection(1..Cardinality(DOMAIN peers), DOMAIN peers) :
     \A i, j \in DOMAIN s : i < j /\ s[j] \in Range(Config) =>
       \E k, l \in DOMAIN Config : k < l /\ Config[k] = s[i] /\ Config[l] = s[j]}
Tick ==
  /\ proc.pc = "on" /\ link # "none" /\ DOMAIN peers # {}
  /\ \E order \in Orders : proc' = [pc |-> "tick", turn |-> order, seen |-> DOMAIN device]
  /\ NoSlip /\ UNCHANGED <<platform, os, memory, disk>>
\* Mutant: the peer comes back with its site alone.
apply_actions_site(p, act) ==
  /\ device' = IF act = "Rehandshake" THEN add_peer(remove_peer(device, p), p, {Site(p)}) ELSE device
  /\ link' = link
\* apply_actions: Rehandshake is a removal and an addition, each of which only warns.
apply_actions(p, act) ==
  LET ips == allowed_ips_for(p, peers[p].routes)
  IN  /\ device' = CASE act = "none" -> device
                     [] act = "SetEndpoint" -> set_peer_endpoint(device, p)
                     [] act = "Rehandshake" -> add_peer(remove_peer(device, p), p, ips)
                     [] act = "half" -> remove_peer(device, p)
      /\ link' = IF act = "none" THEN link ELSE Created
\* Only a configured peer has a relay to leave, and leaving it ends the connection.
MayAct(p, act, connected) ==
  act \in {"Rehandshake", "half"} => p \in Range(Config) /\ peers[p].connected /\ ~connected
\* Mutant: the routes stay while the peer is being looked for.
sync_peer_routes_always(p, connected, k) == sync(p, peers[p].routes, k)
\* Mutant: a connected peer is left alone.
sync_peer_routes_removes(p, connected, k) == IF connected THEN UNCHANGED <<table, installed>> ELSE sync(p, <<>>, k)
sync_peer_routes(p, connected, k) == sync(p, IF connected THEN peers[p].routes ELSE <<>>, k)
Visit ==
  /\ proc.pc = "tick" /\ proc.turn # <<>>
  /\ LET p == Head(proc.turn)
     IN  \E connected \in {c \in BOOLEAN : c => p \in proc.seen},
            act \in {"none", "SetEndpoint", "Rehandshake", "half"}, k \in 0 .. 2 * Len(peers[p].routes) :
           /\ MayAct(p, act, connected)
           /\ apply_actions(p, act)
           /\ sync_peer_routes(p, connected, k)
           /\ peers' = [peers EXCEPT ![p].connected = connected]
           /\ act = "half" => k = 0
           /\ IF k > 0 THEN Slip("route") ELSE IF act = "half" THEN Slip("backend") ELSE NoSlip
  /\ proc' = IF Len(proc.turn) = 1 THEN [Off EXCEPT !.pc = "on"] ELSE [proc EXCEPT !.turn = Tail(@)]
  /\ UNCHANGED <<platform, members, heard, hand, disk>>

(* on_membership_event: a node that is in the table already is ignored.      *)
(* The device may refuse, the file may not be written; both are only logged. *)
MemberAdmitted(p) ==
  /\ proc.pc = "on" /\ p \in Gossiped \ (DOMAIN peers \cup heard)
  /\ peers' = With(peers, p, Idle(<<>>))
  /\ members' = members \cup {p}
  /\ link' = Created
  /\ \/ device' = add_peer(device, p, {Site(p)}) /\ disk' = members' /\ Spend /\ UNCHANGED slips
     \/ device' = device /\ disk' = members' /\ Slip("backend")
     \/ device' = add_peer(device, p, {Site(p)}) /\ disk' = disk /\ Slip("save")
  /\ UNCHANGED <<platform, table, hand, proc, installed, heard>>
\* Mutant: the node leaves the tables, and stays in the device.
Revoked_in_device(p) ==
  /\ proc.pc = "on" /\ p \notin heard /\ Spend
  /\ heard' = heard \cup {p} /\ members' = members \ {p} /\ disk' = members'
  /\ peers' = Without(peers, p)
  /\ UNCHANGED <<platform, os, proc, installed, slips>>
\* Mutant: the file keeps the member.
Revoked_not_saved(p) ==
  /\ proc.pc = "on" /\ p \notin heard /\ Spend
  /\ heard' = heard \cup {p} /\ members' = members \ {p} /\ disk' = disk
  /\ peers' = Without(peers, p)
  /\ link' = Created /\ device' = remove_peer(device, p)
  /\ UNCHANGED <<platform, table, hand, proc, installed, slips>>
Revoked(p) ==
  /\ proc.pc = "on" /\ p \notin heard
  /\ heard' = heard \cup {p}
  /\ peers' = Without(peers, p)
  /\ members' = members \ {p}
  /\ link' = Created
  /\ \/ device' = remove_peer(device, p) /\ disk' = (IF p \in members THEN members' ELSE disk) /\ Spend /\ UNCHANGED slips
     \/ device' = device /\ disk' = (IF p \in members THEN members' ELSE disk) /\ Slip("backend")
     \/ p \in members /\ device' = remove_peer(device, p) /\ disk' = disk /\ Slip("save")
  /\ UNCHANGED <<platform, table, hand, proc, installed>>

(* An orderly exit takes back every route, peer by peer in an order of the    *)
(* hash map's, until one cannot be taken back; a kill takes back nothing.     *)
Tracked == {p \in Keys : installed[p] # <<>>}
RoutesHeld(ps) == UNION {Range(installed[p]) : p \in ps}
remove_all(rest, fault) ==
  \/ /\ ~fault /\ \A r \in RoutesHeld(Tracked) : ~remove_route_fails(r)
     /\ rest = table \ RoutesHeld(Tracked)
  \/ \E p \in Tracked : \E before \in SUBSET (Tracked \ {p}), n \in 1..Len(installed[p]) :
       LET gone == RoutesHeld(before) \cup {installed[p][i] : i \in 1 .. n - 1}
       IN  /\ \A r \in gone : ~remove_route_fails(r)
           /\ fault \/ remove_route_fails(installed[p][n])
           /\ rest = table \ gone
Shutdown ==
  /\ proc.pc = "on"
  /\ \E rest \in SUBSET table, fault \in BOOLEAN :
       /\ remove_all(rest, fault)
       /\ Release(rest)
       /\ IF fault THEN Slip("route") ELSE NoSlip
  /\ UNCHANGED <<platform, disk>>
Kill ==
  /\ proc # Off /\ Slip("kill") /\ Release(table)
  /\ UNCHANGED <<platform, disk>>

(* The commands, and the user.  A userspace device dies with `up`, and is out *)
(* of the reach of `down`.                                                    *)
up ==
  /\ Kernel /\ Slip("up")
  /\ device' = build_device_spec /\ link' = "set"
  /\ UNCHANGED <<platform, table, hand, proc, memory, disk>>
down ==
  /\ Kernel /\ link # "none" /\ Slip("down")
  /\ link' = "none" /\ device' = Nobody /\ table' = {} /\ hand' = {}
  /\ UNCHANGED <<platform, proc, memory, disk>>
ByHand(r) ==
  /\ link = "set" /\ r \notin table /\ Slip("hand")
  /\ table' = table \cup {r} /\ hand' = hand \cup {r}
  /\ UNCHANGED <<platform, link, device, proc, memory, disk>>

Next ==
  \/ Start \/ SetupInterface \/ Serve
  \/ Tick \/ Visit
  \/ \E p \in Keys : MemberAdmitted(p) \/ Revoked(p)
  \/ Shutdown \/ Kill \/ up \/ down
  \/ \E r \in Foreign : ByHand(r)
Spec == Init /\ [][Next]_vars
FairSpec == Spec /\ WF_vars(Tick \/ Visit)
-----------------------------------------------------------------------------
\* Every variable has its type, at every point of the daemon's life.
NodeTypeOK ==
  /\ platform \in Platforms /\ link \in {"none", "bare", "set"}
  /\ DOMAIN device \subseteq Keys /\ \A p \in DOMAIN device : device[p] \subseteq {Site(p)} \cup AllRoutes
  /\ table \subseteq AllRoutes /\ hand \subseteq AllRoutes
  /\ proc.pc \in {"off", "setup", "serve", "on", "tick"} /\ Range(proc.turn) \subseteq DOMAIN peers
  /\ DOMAIN peers \subseteq Keys /\ \A p \in DOMAIN peers : peers[p].connected \in BOOLEAN
  /\ members \subseteq DOMAIN peers /\ disk \subseteq Gossiped /\ heard \subseteq Keys
  /\ \A p \in Keys : Range(installed[p]) \subseteq Range(RoutesOf(p))
  /\ slips \subseteq {"route", "backend", "save", "kill", "hand", "up", "down"}

\* No route operation failed, no daemon was killed, no route of the user's was in the way,
\* and nobody deleted the interface.
Undisturbed == slips \cap {"route", "kill", "hand", "down"} = {}
Connected(p) == p \in DOMAIN peers /\ peers[p].connected
\* Between two ticks no route leads to a peer that is not connected (sync_peer_routes:
\* "avoid a black hole"), as long as it was undisturbed, and but for the routes of a peer that was revoked since the daemon started.
NoBlackHole ==
  proc.pc = "on" /\ Undisturbed =>
    \A p \in Range(Config) : Range(RoutesOf(p)) \cap table # {} => Connected(p) \/ p \in heard

\* The daemon removes only what it installed (RouteManager: "this structure only touches
\* the routes it installed itself"): a route the user added stays, even one a peer announces,
\* whatever was killed or run beside the daemon.  It has exceptions, in which `installed` names
\* routes that are gone already: a removal that failed half-way, and an interface deleted
\* under the daemon.
UsersRoutesStay == slips \cap {"route", "down"} = {} => hand \subseteq table

\* A daemon that exits in good order leaves no route behind (remove_all), those of revoked
\* peers included, if it was undisturbed.
CleanExit == proc = Off /\ Undisturbed => table = {}

\* A connected peer of the configuration has all its AllowedIPs, its site and the routes it
\* announces, after every re-handshake (apply_actions: "allowed_ips must be derived in full"),
\* unless the device failed the daemon or was deleted under it.
ConfiguredCarried ==
  proc.pc = "on" /\ slips \cap {"backend", "down"} = {} =>
    \A p \in Range(Config) : Connected(p) => device[p] = allowed_ips_for(p, RoutesOf(p))

\* A revoked node stays out of the device (on_membership_event: "removed from the data plane
\* at once"), whatever the ticks do later, unless the device failed or `up` reset it.
RevokedOut ==
  proc.pc \in {"on", "tick"} /\ slips \cap {"backend", "up"} = {} => heard \cap DOMAIN device = {}

\* Between events the three tables agree: members.json is the table of members, and the runtime
\* table holds the configured peers that are not revoked and the members, across restarts and
\* kills, unless the file could not be written.
TablesAgree ==
  proc.pc = "on" /\ "save" \notin slips =>
    disk = members /\ DOMAIN peers = (Range(Config) \ heard) \cup members

\* A peer that stays connected gets its routes, when nothing fails and no route of the user's
\* is in the way (sync_peer_routes on every tick).
RoutesFollow ==
  \A p \in Range(Config) :
    <>[](Connected(p) /\ slips = {}) => <>[](Range(RoutesOf(p)) \subseteq table)

\* What on_membership_event and docs/dev/state-files.md promise of members.json: after a restart
\* the daemon serves the members it had admitted, with their /64 in the device.
MembersServed ==
  proc.pc = "on" /\ slips = {} =>
    \A p \in members : p \in DOMAIN device /\ Site(p) \in device[p]

\* The routes in the system's table lead to peers that are connected, and none is left
\* when the daemon is gone (sync_peer_routes, remove_all).
RoutesSound == NoBlackHole /\ CleanExit

\* The daemon's tables are well formed and agree with the file of members.
TablesSound == NodeTypeOK /\ TablesAgree
=============================================================================
