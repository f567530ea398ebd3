------------------------------ MODULE NodeProofs ------------------------------
(***************************************************************************)
(* Device, routes, revocation and the tables of a node, for every             *)
(* configuration, every set of nodes that gossip may admit and any number of  *)
(* faults, commands, kills and restarts.                                      *)
(***************************************************************************)
EXTENDS Node, FiniteSetTheorems, TLAPS

Serving == proc.pc \in {"on", "tick"}

\* The peers a tick has still to visit are in the runtime table.
Turn == /\ DOMAIN peers \subseteq Keys
        /\ proc.turn \in Seq(DOMAIN peers)
        /\ proc.pc # "tick" => proc.turn = <<>>
        /\ "pc" \in DOMAIN proc /\ "turn" \in DOMAIN proc
\* Who was revoked is in no table; nothing is heard before the daemon serves.
Heard == heard \cap DOMAIN peers = {} /\ (~Serving => heard = {})
\* Who was revoked is not in the device.
Out == slips \cap {"backend", "up"} = {} => heard \cap DOMAIN device = {}
\* TablesAgree, in the middle of a tick as well.
Agree == Serving /\ "save" \notin slips =>
           disk = members /\ DOMAIN peers = (Range(Config) \ heard) \cup members
\* The file holds nodes that gossip admitted, and no member is revoked.
Known == disk \subseteq Gossiped /\ members \subseteq Gossiped
IInv == Turn /\ Heard /\ Out /\ Agree /\ Known

\* An order of a finite table is a sequence of its peers.
LEMMA OrderOfPeers ==
  ASSUME Turn, NEW s \in Orders
  PROVE  s \in Seq(DOMAIN peers)
<1>1. IsFiniteSet(DOMAIN peers)
  BY KeysAssumption, FS_Subset, Zenon DEF Turn
<1>2. Cardinality(DOMAIN peers) \in Nat
  BY <1>1, FS_CardinalityType, Zenon
<1>3. s \in [1..Cardinality(DOMAIN peers) -> DOMAIN peers]
  BY Zenon DEF Orders, Injection
<1> QED
  BY <1>2, <1>3

\* What the operations of a WgBackend do to the set of peers of the device.
LEMMA DevicePeers ==
  ASSUME NEW d, NEW p, NEW ips
  PROVE  /\ DOMAIN set_peer_endpoint(d, p) \subseteq DOMAIN d \cup {p}
         /\ DOMAIN add_peer(d, p, ips) \subseteq DOMAIN d \cup {p}
         /\ DOMAIN remove_peer(d, p) = DOMAIN d \ {p}
<1>1. ASSUME NEW x, NEW f PROVE DOMAIN With(f, p, x) = DOMAIN f \cup {p}
  BY Zenon DEF With
<1>2. DOMAIN Without(d, p) = DOMAIN d \ {p}
  BY Zenon DEF Without
<1>3. DOMAIN set_peer_endpoint(d, p) \subseteq DOMAIN d \cup {p}
  BY <1>1, Zenon DEF set_peer_endpoint, kernel_set_peer_endpoint, userspace_set_peer_endpoint
<1>4. DOMAIN add_peer(d, p, ips) \subseteq DOMAIN d \cup {p}
  BY <1>1, Zenon DEF add_peer, kernel_add_peer, userspace_add_peer
<1>5. DOMAIN remove_peer(d, p) = DOMAIN d \ {p}
  BY <1>2, Zenon DEF remove_peer, kernel_remove_peer, userspace_remove_peer
<1> QED
  BY <1>3, <1>4, <1>5, Zenon

\* A process that is gone remembers nothing.
LEMMA ForgetKeeps ==
  ASSUME IInv, Forget, disk' = disk
  PROVE  IInv'
<1>1. /\ peers' = Nobody /\ members' = {} /\ heard' = {}
      /\ proc'.pc = "off" /\ proc'.turn = <<>> /\ "pc" \in DOMAIN proc' /\ "turn" \in DOMAIN proc'
  BY Zenon DEF Forget, Off
<1>2. DOMAIN peers' = {}
  BY <1>1, Zenon DEF Nobody
<1> QED
  BY <1>1, <1>2 DEF IInv, Turn, Heard, Out, Agree, Known, Serving

\* A tick: the peer visited is in the table, so the device gets no other.
LEMMA VisitKeeps ==
  ASSUME IInv, Visit
  PROVE  IInv'
<1> DEFINE p == Head(proc.turn)
<1>1. p \in DOMAIN peers /\ Tail(proc.turn) \in Seq(DOMAIN peers)
  BY DEF Visit, IInv, Turn
<1>2. /\ proc.pc = "tick" /\ UNCHANGED <<members, heard, disk>>
      /\ slips \subseteq slips'
  BY Zenon DEF Visit, Slip, NoSlip
<1>3. DOMAIN peers' = DOMAIN peers
  BY Zenon DEF Visit
<1>4. proc' = [Off EXCEPT !.pc = "on"] \/ proc' = [proc EXCEPT !.turn = Tail(@)]
  BY Zenon DEF Visit
<1>5. /\ proc'.turn \in Seq(DOMAIN peers) /\ "pc" \in DOMAIN proc' /\ "turn" \in DOMAIN proc'
      /\ proc'.pc \in {"on", "tick"} /\ (proc'.pc # "tick" => proc'.turn = <<>>)
  <2>1. CASE proc' = [Off EXCEPT !.pc = "on"]
    <3>1. proc'.pc = "on" /\ proc'.turn = <<>> /\ "pc" \in DOMAIN proc' /\ "turn" \in DOMAIN proc'
      BY <2>1, Zenon DEF Off
    <3> QED
      BY <3>1
  <2>2. CASE proc' = [proc EXCEPT !.turn = Tail(@)]
    <3>1. /\ proc'.pc = "tick" /\ proc'.turn = Tail(proc.turn)
          /\ "pc" \in DOMAIN proc' /\ "turn" \in DOMAIN proc'
      BY <1>2, <2>2, Zenon DEF IInv, Turn
    <3> QED
      BY <1>1, <3>1, Zenon
  <2> QED
    BY <1>4, <2>1, <2>2, Zenon
<1>6. DOMAIN device' \subseteq DOMAIN device \cup {p}
  <2>1. PICK act \in {"none", "SetEndpoint", "Rehandshake", "half"} : apply_actions(p, act)
    BY Zenon DEF Visit
  <2> DEFINE ips == allowed_ips_for(p, peers[p].routes)
  <2>2. device' \in {device, set_peer_endpoint(device, p), add_peer(remove_peer(device, p), p, ips),
                     remove_peer(device, p)}
    BY <2>1, Zenon DEF apply_actions
  <2>4. DOMAIN set_peer_endpoint(device, p) \subseteq DOMAIN device \cup {p}
    BY DevicePeers, Zenon
  <2>5. DOMAIN remove_peer(device, p) = DOMAIN device \ {p}
    BY DevicePeers, Zenon
  <2> HIDE DEF ips
  <2>3. DOMAIN add_peer(remove_peer(device, p), p, ips) \subseteq DOMAIN remove_peer(device, p) \cup {p}
    <3> DEFINE d == remove_peer(device, p)
    <3> HIDE DEF d
    <3>1. DOMAIN add_peer(d, p, ips) \subseteq DOMAIN d \cup {p}
      BY DevicePeers, Zenon
    <3> QED
      BY <3>1, Zenon DEF d
  <2> QED
    BY <2>2, <2>3, <2>4, <2>5, Zenon
<1> HIDE DEF p
<1>7. Turn' /\ Heard' /\ Known'
  BY <1>2, <1>3, <1>5, Zenon DEF IInv, Turn, Heard, Known, Serving
<1>8. Out'
  BY <1>1, <1>2, <1>6, Zenon DEF IInv, Heard, Out
<1>9. Agree'
  BY <1>2, <1>3, Zenon DEF IInv, Agree, Serving
<1> QED
  BY <1>7, <1>8, <1>9, Zenon DEF IInv

\* on_membership_event, MemberAdmitted: nobody who was revoked.
LEMMA AdmissionKeeps ==
  ASSUME IInv, NEW p \in Keys, MemberAdmitted(p)
  PROVE  IInv'
<1>1. /\ proc.pc = "on" /\ proc' = proc /\ p \notin heard /\ heard' = heard
      /\ p \in Gossiped /\ members' = members \cup {p} /\ slips \subseteq slips'
      /\ disk' = members' \/ (disk' = disk /\ "save" \in slips')
      /\ device' = device \/ device' = add_peer(device, p, {Site(p)})
      /\ peers' = With(peers, p, Idle(<<>>))
  BY Zenon DEF MemberAdmitted, Slip, Spend
<1>2. DOMAIN peers' = DOMAIN peers \cup {p}
  BY <1>1, Zenon DEF With
<1>3. DOMAIN device' \subseteq DOMAIN device \cup {p}
  BY <1>1, DevicePeers, Zenon
<1>4. Turn'
  <2>1. proc'.turn = <<>>
    BY <1>1, Zenon DEF IInv, Turn
  <2> QED
    BY <1>1, <1>2, <2>1 DEF IInv, Turn
<1>5. Heard' /\ Out' /\ Known'
  BY <1>1, <1>2, <1>3, Zenon DEF IInv, Heard, Out, Known, Serving
<1>6. Agree'
  BY <1>1, <1>2, Zenon DEF IInv, Agree, Serving
<1> QED
  BY <1>4, <1>5, <1>6, Zenon DEF IInv

\* on_membership_event, Revoked: out of the device, the table and the file.
LEMMA RevocationKeeps ==
  ASSUME IInv, NEW p \in Keys, Revoked(p)
  PROVE  IInv'
<1>1. /\ proc.pc = "on" /\ proc' = proc /\ heard' = heard \cup {p}
      /\ members' = members \ {p} /\ slips \subseteq slips'
      /\ \/ disk' = IF p \in members THEN members' ELSE disk
         \/ disk' = disk /\ "save" \in slips'
      /\ device' = remove_peer(device, p) \/ (device' = device /\ "backend" \in slips')
      /\ peers' = Without(peers, p)
  BY Zenon DEF Revoked, Slip, Spend
<1>2. DOMAIN peers' = DOMAIN peers \ {p}
  BY <1>1, Zenon DEF Without
<1>3. DOMAIN device' = DOMAIN device \ {p} \/ "backend" \in slips'
  BY <1>1, DevicePeers, Zenon
<1>4. Turn'
  <2>1. proc'.turn = <<>>
    BY <1>1, Zenon DEF IInv, Turn
  <2> QED
    BY <1>1, <1>2, <2>1 DEF IInv, Turn
<1>5. Heard' /\ Known'
  BY <1>1, <1>2, Zenon DEF IInv, Heard, Known, Serving
<1>6. Out'
  BY <1>1, <1>3, Zenon DEF IInv, Out
<1>7. Agree'
  BY <1>1, <1>2, Zenon DEF IInv, Agree, Serving
<1> QED
  BY <1>4, <1>5, <1>6, <1>7, Zenon DEF IInv

\* The start of the daemon, the commands and the user.
LEMMA OthersKeep ==
  ASSUME IInv, \/ Start \/ SetupInterface \/ Serve \/ Tick \/ Shutdown \/ Kill \/ up \/ down
               \/ (\E r \in Foreign : ByHand(r)) \/ UNCHANGED vars
  PROVE  IInv'
<1>1. CASE Start
  <2>1. /\ proc.pc = "off" /\ proc'.pc = "setup" /\ proc'.turn = <<>>
        /\ "pc" \in DOMAIN proc' /\ "turn" \in DOMAIN proc'
        /\ UNCHANGED <<memory, disk, slips>>
    BY <1>1, Zenon DEF Start, Off
  <2>2. heard = {} /\ UNCHANGED <<peers, members, heard>>
    BY <2>1, Zenon DEF IInv, Heard, Serving, memory
  <2> QED
    BY <2>1, <2>2, Zenon DEF IInv, Turn, Heard, Out, Agree, Known, Serving
<1>2. CASE SetupInterface
  <2>1. CASE link = "none"
    BY <1>2, <2>1, ForgetKeeps, Zenon DEF SetupInterface, Release
  <2>2. CASE link # "none"
    <3>1. /\ proc.pc = "setup" /\ proc' = [proc EXCEPT !.pc = "serve"]
          /\ UNCHANGED <<device, memory, disk, slips>>
      BY <1>2, <2>2, Zenon DEF SetupInterface, NoSlip
    <3>2. /\ proc'.pc = "serve" /\ proc'.turn = proc.turn
          /\ "pc" \in DOMAIN proc' /\ "turn" \in DOMAIN proc'
      BY <3>1, Zenon DEF IInv, Turn
    <3>3. UNCHANGED <<peers, members, heard>>
      BY <3>1, Zenon DEF memory
    <3> QED
      BY <3>1, <3>2, <3>3, Zenon DEF IInv, Turn, Heard, Out, Agree, Known, Serving
  <2> QED
    BY <2>1, <2>2, Zenon
<1>3. CASE Serve
  <2>1. /\ proc.pc = "serve" /\ members' = disk /\ UNCHANGED <<os, heard, disk, slips>>
        /\ proc' = [proc EXCEPT !.pc = "on"]
        /\ DOMAIN peers' = Range(Config) \cup disk
    BY <1>3, Zenon DEF Serve, NoSlip
  <2>2. /\ proc'.pc = "on" /\ proc'.turn = proc.turn /\ proc.turn = <<>>
        /\ "pc" \in DOMAIN proc' /\ "turn" \in DOMAIN proc'
    BY <2>1, Zenon DEF IInv, Turn
  <2>3. heard = {} /\ device' = device
    BY <2>1, Zenon DEF IInv, Heard, Serving, os
  <2>4. Turn'
    <3>1. DOMAIN peers' \subseteq Keys
      BY <2>1, Zenon DEF IInv, Known, Keys
    <3>2. proc'.turn = <<>>
      BY <2>2, Zenon
    <3> QED
      BY <2>2, <3>1, <3>2 DEF Turn
  <2> QED
    BY <2>1, <2>2, <2>3, <2>4, Zenon DEF IInv, Heard, Out, Agree, Known, Serving
<1>4. CASE Tick
  <2>1. PICK order \in Orders : proc' = [pc |-> "tick", turn |-> order, seen |-> DOMAIN device]
    BY <1>4, Zenon DEF Tick
  <2>2. order \in Seq(DOMAIN peers)
    BY OrderOfPeers, Zenon DEF IInv
  <2>3. /\ proc'.pc = "tick" /\ proc'.turn = order /\ "pc" \in DOMAIN proc' /\ "turn" \in DOMAIN proc'
    BY <2>1, Zenon
  <2>4. proc.pc = "on" /\ UNCHANGED <<device, peers, members, heard, disk, slips>>
    BY <1>4, Zenon DEF Tick, NoSlip, os, memory
  <2> QED
    BY <2>2, <2>3, <2>4, Zenon DEF IInv, Turn, Heard, Out, Agree, Known, Serving
<1>5. CASE Shutdown \/ Kill
  BY <1>5, ForgetKeeps, Zenon DEF Shutdown, Kill, Release
<1>6. ASSUME UNCHANGED <<proc, peers, members, heard, disk>>, slips \subseteq slips',
             device' = device \/ DOMAIN device' = {} \/ "up" \in slips'
      PROVE  IInv'
  BY <1>6, Zenon DEF IInv, Turn, Heard, Out, Agree, Known, Serving
<1>7. CASE up \/ down \/ (\E r \in Foreign : ByHand(r)) \/ UNCHANGED vars
  <2>1. UNCHANGED <<proc, peers, members, heard, disk>>
    BY <1>7, Zenon DEF up, down, ByHand, vars, memory
  <2>2. slips \subseteq slips'
    BY <1>7, Zenon DEF up, down, ByHand, Slip, vars
  <2>3. device' = device \/ DOMAIN device' = {} \/ "up" \in slips'
    BY <1>7, Zenon DEF up, down, ByHand, Slip, Nobody, vars, os
  <2> QED
    BY <1>6, <2>1, <2>2, <2>3, Zenon
<1> QED
  BY <1>1, <1>2, <1>3, <1>4, <1>5, <1>7, Zenon

\* IInv holds in every state.
LEMMA Inductive == Spec => []IInv
<1>1. Init => IInv
  <2> SUFFICES ASSUME Init PROVE IInv
    BY Zenon
  <2>1. /\ proc.pc = "off" /\ proc.turn = <<>> /\ "pc" \in DOMAIN proc /\ "turn" \in DOMAIN proc
        /\ DOMAIN peers = {} /\ heard = {} /\ members = {} /\ disk = {}
    BY Zenon DEF Init, Off, Nobody
  <2> QED
    BY <2>1 DEF IInv, Turn, Heard, Out, Agree, Known, Serving
<1>2. IInv /\ [Next]_vars => IInv'
  <2> SUFFICES ASSUME IInv, [Next]_vars PROVE IInv'
    BY Zenon
  <2> QED
    BY VisitKeeps, AdmissionKeeps, RevocationKeeps, OthersKeep, Zenon DEF Next
<1> QED
  BY <1>1, <1>2, PTL DEF Spec

\* A revoked node stays out of the device (on_membership_event), whatever ticks,
\* re-handshakes, admissions and `hextet down` do later, unless the device
\* refused the removal or `hextet up` reset it.
THEOREM RevokedNodesOut == Spec => []RevokedOut
<1>1. IInv => RevokedOut
  BY Zenon DEF IInv, Out, RevokedOut
<1> QED
  BY <1>1, Inductive, PTL

\* members.json, the table of members and the runtime table agree between events,
\* across restarts and kills (MembersStore, on_membership_event, run_async), unless
\* the file could not be written.
THEOREM TablesAlwaysAgree == Spec => []TablesAgree
<1>1. IInv => TablesAgree
  BY Zenon DEF IInv, Agree, TablesAgree, Serving
<1> QED
  BY <1>1, Inductive, PTL
-----------------------------------------------------------------------------
(* What the daemon holds in memory.                                        *)

\* A configured peer keeps its routes from the file; the route manager has all
\* routes of a peer or none, and none before the daemon serves.
Own(p) == IF p \in Range(Config) THEN RoutesOf(p) ELSE <<>>
PeersSound == \A p \in DOMAIN peers : /\ DOMAIN peers[p] = {"routes", "connected"}
                                      /\ peers[p].routes = Own(p) /\ peers[p].connected \in BOOLEAN
InstalledSound == /\ DOMAIN installed = Keys /\ \A p \in Keys : installed[p] \in {<<>>, Own(p)}
                  /\ ~Serving => \A p \in Keys : installed[p] = <<>>
Memory ==
  /\ proc.pc \in {"off", "setup", "serve", "on", "tick"} /\ (proc.pc = "off" => proc = Off)
  /\ PeersSound /\ InstalledSound
  /\ Serving => Range(Config) \ heard \subseteq DOMAIN peers
  /\ members \subseteq DOMAIN peers /\ heard \subseteq Keys
  /\ slips \subseteq {"route", "backend", "save", "kill", "hand", "up", "down"}

\* A visit is a sync of one peer's routes to all or none of them.
LEMMA VisitDoes ==
  ASSUME IInv, Memory, Visit
  PROVE  \E p \in DOMAIN peers : \E desired \in {<<>>, Own(p)},
           act \in {"none", "SetEndpoint", "Rehandshake", "half"}, k \in Nat :
           /\ desired # <<>> => peers'[p].connected
           /\ apply_actions(p, act) /\ sync(p, desired, k)
           /\ DOMAIN peers' = DOMAIN peers
           /\ \A q \in DOMAIN peers : q # p => peers'[q] = peers[q]
           /\ peers'[p].connected \in BOOLEAN /\ peers'[p].routes = peers[p].routes
           /\ DOMAIN peers'[p] = DOMAIN peers[p]
           /\ slips \subseteq slips' /\ slips' \subseteq slips \cup {"route", "backend"}
           /\ k > 0 => "route" \in slips'
           /\ act = "half" => "backend" \in slips'
           /\ act \in {"Rehandshake", "half"} => p \in Range(Config)
<1> DEFINE p == Head(proc.turn)
<1>1. p \in DOMAIN peers
  BY DEF Visit, IInv, Turn
<1>2. Len(peers[p].routes) \in Nat
  BY <1>1, RoutesAssumption DEF Memory, PeersSound, Own
<1>3. PICK connected \in BOOLEAN, act \in {"none", "SetEndpoint", "Rehandshake", "half"},
           k \in 0 .. 2 * Len(peers[p].routes) :
        /\ MayAct(p, act, connected)
        /\ apply_actions(p, act)
        /\ sync_peer_routes(p, connected, k)
        /\ peers' = [peers EXCEPT ![p].connected = connected]
        /\ IF k > 0 THEN Slip("route") ELSE IF act = "half" THEN Slip("backend") ELSE NoSlip
        /\ act = "half" => k = 0
  BY Zenon DEF Visit
<1> HIDE DEF p
<1> DEFINE desired == IF connected THEN peers[p].routes ELSE <<>>
<1>4. sync(p, desired, k) /\ desired \in {<<>>, Own(p)} /\ (desired # <<>> => connected)
  BY <1>1, <1>3, Zenon DEF sync_peer_routes, Memory, PeersSound
<1>5. /\ DOMAIN peers' = DOMAIN peers
      /\ \A q \in DOMAIN peers : q # p => peers'[q] = peers[q]
      /\ peers'[p] = [peers[p] EXCEPT !.connected = connected]
  BY <1>1, <1>3, Zenon
<1>6. DOMAIN peers[p] = {"routes", "connected"}
  BY <1>1, Zenon DEF Memory, PeersSound
<1>7. peers'[p].connected = connected /\ peers'[p].routes = peers[p].routes /\ DOMAIN peers'[p] = DOMAIN peers[p]
  BY <1>5, <1>6, Zenon
<1>8. k \in Nat /\ (k > 0 => "route" \in slips') /\ slips \subseteq slips' /\ slips' \subseteq slips \cup {"route", "backend"}
  BY <1>2, <1>3 DEF Slip, NoSlip
<1>9. act = "half" => "backend" \in slips'
  BY <1>2, <1>3 DEF Slip, NoSlip
<1>10. act \in {"Rehandshake", "half"} => p \in Range(Config)
  BY <1>3, Zenon DEF MayAct
<1> HIDE DEF desired
<1> QED
  BY <1>1, <1>3, <1>4, <1>5, <1>7, <1>8, <1>9, <1>10

\* What sync does to the manager's own record.
LEMMA SyncInstalls ==
  ASSUME NEW p \in Keys, NEW desired, NEW k, DOMAIN installed = Keys, sync(p, desired, k)
  PROVE  /\ DOMAIN installed' = Keys /\ installed'[p] \in {installed[p], desired}
         /\ \A q \in Keys : q # p => installed'[q] = installed[q]
BY Zenon DEF sync

\* A process that is gone holds nothing.
LEMMA ForgetMemory ==
  ASSUME Memory, Forget, slips' \subseteq slips \cup {"route", "kill"}
  PROVE  Memory'
<1>1. /\ peers' = Nobody /\ members' = {} /\ heard' = {} /\ installed' = [p \in Keys |-> <<>>]
      /\ proc' = Off /\ proc'.pc = "off"
  BY Zenon DEF Forget, Off
<1>2. DOMAIN peers' = {}
  BY <1>1, Zenon DEF Nobody
<1>3. ~Serving'
  BY <1>1, Zenon DEF Serving
<1> QED
  BY <1>1, <1>2, <1>3, Zenon DEF Memory, PeersSound, InstalledSound

\* Every step keeps what the daemon holds in memory in this form.
LEMMA MemoryInductive == Spec => []Memory
<1>1. Init => Memory
  <2> SUFFICES ASSUME Init PROVE Memory
    BY Zenon
  <2>1. /\ proc = Off /\ proc.pc = "off" /\ DOMAIN peers = {} /\ heard = {} /\ members = {} /\ slips = {}
        /\ installed = [p \in Keys |-> <<>>]
    BY Zenon DEF Init, Off, Nobody
  <2> QED
    BY <2>1, Zenon DEF Memory, PeersSound, InstalledSound, Serving
<1>2. IInv /\ Memory /\ [Next]_vars => Memory'
  <2> SUFFICES ASSUME IInv, Memory, [Next]_vars PROVE Memory'
    BY Zenon
  <2>1. CASE Start
    <3>1. proc'.pc = "setup" /\ proc.pc = "off" /\ UNCHANGED <<memory, slips>>
      BY <2>1, Zenon DEF Start, Off
    <3> QED
      BY <3>1, Zenon DEF Memory, PeersSound, InstalledSound, Serving, memory
  <2>2. CASE SetupInterface
    <3>1. CASE link = "none"
      BY <2>2, <3>1, ForgetMemory, Zenon DEF SetupInterface, Release, NoSlip
    <3>2. CASE link # "none"
      <4>1. proc' = [proc EXCEPT !.pc = "serve"] /\ proc.pc = "setup" /\ UNCHANGED <<memory, slips>>
        BY <2>2, <3>2, Zenon DEF SetupInterface, NoSlip
      <4>2. proc'.pc = "serve"
        BY <4>1, Zenon DEF IInv, Turn
      <4> QED
        BY <4>1, <4>2, Zenon DEF Memory, PeersSound, InstalledSound, Serving, memory
    <3> QED
      BY <3>1, <3>2, Zenon
  <2>3. CASE Serve
    <3>1. /\ proc' = [proc EXCEPT !.pc = "on"] /\ proc.pc = "serve" /\ UNCHANGED <<installed, heard, slips>>
          /\ members' = disk
          /\ peers' = [p \in Range(Config) \cup disk |-> Idle(IF p \in Range(Config) THEN RoutesOf(p) ELSE <<>>)]
      BY <2>3, Zenon DEF Serve, NoSlip
    <3>2. proc'.pc = "on"
      BY <3>1, Zenon DEF IInv, Turn
    <3>3. PeersSound'
      BY <3>1, Zenon DEF PeersSound, Own, Idle
    <3>4. InstalledSound'
      BY <3>1, <3>2, Zenon DEF Memory, InstalledSound, Serving
    <3>5. DOMAIN peers' = Range(Config) \cup disk
      BY <3>1, Zenon
    <3> QED
      BY <3>1, <3>2, <3>3, <3>4, <3>5, Zenon DEF Memory
  <2>4. CASE Tick
    <3>1. proc'.pc = "tick" /\ proc.pc = "on" /\ UNCHANGED <<memory, slips>>
      BY <2>4 DEF Tick, NoSlip
    <3> QED
      BY <3>1, Zenon DEF Memory, PeersSound, InstalledSound, Serving, memory
  <2>5. CASE Visit
    <3>1. PICK p \in DOMAIN peers : \E desired \in {<<>>, Own(p)}, k \in Nat :
           /\ sync(p, desired, k)
           /\ DOMAIN peers' = DOMAIN peers
           /\ \A q \in DOMAIN peers : q # p => peers'[q] = peers[q]
           /\ peers'[p].connected \in BOOLEAN /\ peers'[p].routes = peers[p].routes
           /\ DOMAIN peers'[p] = DOMAIN peers[p]
           /\ slips' \subseteq slips \cup {"route", "backend"}
      BY <2>5, VisitDoes, Zenon
    <3>2. p \in Keys
      BY Zenon DEF IInv, Turn
    <3>3. /\ DOMAIN installed' = Keys /\ installed'[p] \in {installed[p], <<>>, Own(p)}
          /\ \A q \in Keys : q # p => installed'[q] = installed[q]
      BY <3>1, <3>2, SyncInstalls DEF Memory, InstalledSound
    <3>4. proc.pc = "tick" /\ UNCHANGED <<members, heard>>
      BY <2>5, Zenon DEF Visit
    <3>5. proc'.pc \in {"on", "tick"}
      BY <2>5, VisitKeeps, <3>4, Zenon DEF Visit, IInv, Turn, Off
    <3>6. InstalledSound'
      BY <3>1, <3>2, <3>3, <3>5, Zenon DEF Memory, InstalledSound, Serving
    <3>7. PeersSound'
      BY <3>1, Zenon DEF Memory, PeersSound
    <3> QED
      BY <3>1, <3>4, <3>5, <3>6, <3>7, Zenon DEF Memory, Serving
  <2>6. ASSUME NEW p \in Keys, MemberAdmitted(p) PROVE Memory'
    <3>1. /\ p \in Gossiped \ (DOMAIN peers \cup heard) /\ peers' = With(peers, p, Idle(<<>>))
          /\ members' = members \cup {p} /\ UNCHANGED <<proc, installed, heard>> /\ proc.pc = "on"
          /\ slips' \subseteq slips \cup {"backend", "save"}
      BY <2>6, Zenon DEF MemberAdmitted, Slip, Spend
    <3>2. p \notin Range(Config)
      BY <3>1, Zenon DEF Memory, Serving
    <3>3. /\ DOMAIN peers' = DOMAIN peers \cup {p} /\ peers'[p] = Idle(<<>>)
          /\ \A q \in DOMAIN peers : peers'[q] = peers[q]
      BY <3>1, Zenon DEF With
    <3>5. /\ DOMAIN Idle(<<>>) = {"routes", "connected"} /\ Idle(<<>>).routes = <<>>
          /\ Idle(<<>>).connected \in BOOLEAN
      BY Zenon DEF Idle
    <3>4. PeersSound'
      BY <3>2, <3>3, <3>5, Zenon DEF Memory, PeersSound, Own
    <3> QED
      BY <3>1, <3>3, <3>4, Zenon DEF Memory, InstalledSound, Serving
  <2>7. ASSUME NEW p \in Keys, Revoked(p) PROVE Memory'
    <3>1. /\ peers' = Without(peers, p) /\ heard' = heard \cup {p}
          /\ members' = members \ {p} /\ UNCHANGED <<proc, installed>>
          /\ slips' \subseteq slips \cup {"backend", "save"}
      BY <2>7, Zenon DEF Revoked, Slip, Spend
    <3>2. /\ DOMAIN peers' = DOMAIN peers \ {p} /\ \A q \in DOMAIN peers' : peers'[q] = peers[q]
      BY <3>1, Zenon DEF Without
    <3> QED
      BY <3>1, <3>2, Zenon DEF Memory, PeersSound, InstalledSound, Serving
  <2>8. CASE Shutdown
    BY <2>8, ForgetMemory, Zenon DEF Shutdown, Release, Slip, NoSlip
  <2>9. CASE Kill
    BY <2>9, ForgetMemory, Zenon DEF Kill, Release, Slip
  <2>10. CASE up \/ down \/ (\E r \in Foreign : ByHand(r)) \/ UNCHANGED vars
    <3>1. UNCHANGED <<proc, memory>> /\ slips' \subseteq slips \cup {"up", "down", "hand"}
      BY <2>10, Zenon DEF up, down, ByHand, Slip, vars, memory
    <3> QED
      BY <3>1, Zenon DEF Memory, PeersSound, InstalledSound, Serving, memory
  <2> QED
    BY <2>1, <2>2, <2>3, <2>4, <2>5, <2>6, <2>7, <2>8, <2>9, <2>10, Zenon DEF Next
<1> QED
  BY <1>1, <1>2, Inductive, PTL DEF Spec

-----------------------------------------------------------------------------
(* The device.                                                             *)

\* The device knows nodes of the network, each with its site and announced routes.
DeviceOK(d) == DOMAIN d \subseteq Keys /\ \A p \in DOMAIN d : d[p] \subseteq {Site(p)} \cup AllRoutes
\* From the start of the daemon on, the peers of the configuration are in it in full.
Carries(d) == \A p \in Range(Config) \ heard : p \in DOMAIN d /\ d[p] = allowed_ips_for(p, RoutesOf(p))
DeviceInv ==
  /\ platform \in Platforms /\ link \in {"none", "bare", "set"}
  /\ DeviceOK(device)
  /\ proc.pc # "off" /\ slips \cap {"backend", "down"} = {} => Carries(device)

\* The AllowedIPs of a peer are its site and routes that some peer announces.
LEMMA AllowedAnnounced ==
  ASSUME NEW p
  PROVE  allowed_ips_for(p, Own(p)) \subseteq {Site(p)} \cup AllRoutes
BY DEF allowed_ips_for, Own, AllRoutes, Range

\* What the device specification of the configuration carries.
LEMMA SpecCarries == DeviceOK(build_device_spec) /\ Carries(build_device_spec)
BY AllowedAnnounced, Zenon DEF DeviceOK, Carries, build_device_spec, Own, Keys

\* Each operation of a WgBackend keeps a device in form and leaves other peers alone.
SetSound(d, p) ==
  /\ DeviceOK(set_peer_endpoint(d, p))
  /\ \A q \in DOMAIN d : q \in DOMAIN set_peer_endpoint(d, p) /\ set_peer_endpoint(d, p)[q] = d[q]
AddSound(d, p, ips) ==
  /\ DeviceOK(add_peer(d, p, ips))
  /\ \A q \in DOMAIN d \ {p} : q \in DOMAIN add_peer(d, p, ips) /\ add_peer(d, p, ips)[q] = d[q]
  /\ p \notin DOMAIN d => p \in DOMAIN add_peer(d, p, ips) /\ add_peer(d, p, ips)[p] = ips
RemoveSound(d, p) ==
  /\ DeviceOK(remove_peer(d, p)) /\ p \notin DOMAIN remove_peer(d, p)
  /\ \A q \in DOMAIN d \ {p} : q \in DOMAIN remove_peer(d, p) /\ remove_peer(d, p)[q] = d[q]
LEMMA BackendSound ==
  ASSUME NEW d, NEW p \in Keys, NEW ips, DeviceOK(d), ips \subseteq {Site(p)} \cup AllRoutes
  PROVE  SetSound(d, p) /\ AddSound(d, p, ips) /\ RemoveSound(d, p)
<1> DEFINE more == ips \cup (IF p \in DOMAIN d THEN d[p] ELSE {})
<1>0. more \subseteq {Site(p)} \cup AllRoutes /\ (p \notin DOMAIN d => more = ips)
  BY Zenon DEF DeviceOK
<1> HIDE DEF more
<1>1. ASSUME NEW x, x \subseteq {Site(p)} \cup AllRoutes
      PROVE  /\ DeviceOK(With(d, p, x)) /\ p \in DOMAIN With(d, p, x) /\ With(d, p, x)[p] = x
             /\ \A q \in DOMAIN d \ {p} : q \in DOMAIN With(d, p, x) /\ With(d, p, x)[q] = d[q]
  <2> DEFINE w == With(d, p, x)
  <2>1. DOMAIN w = DOMAIN d \cup {p} /\ w[p] = x /\ \A q \in DOMAIN d : q # p => w[q] = d[q]
    BY Zenon DEF With
  <2> HIDE DEF w
  <2>2. DeviceOK(w)
    BY <1>1, <2>1, Zenon DEF DeviceOK
  <2> QED
    BY <2>1, <2>2, Zenon DEF w
<1>2. /\ DeviceOK(Without(d, p)) /\ p \notin DOMAIN Without(d, p)
      /\ \A q \in DOMAIN d \ {p} : q \in DOMAIN Without(d, p) /\ Without(d, p)[q] = d[q]
  <2> DEFINE w == Without(d, p)
  <2>1. DOMAIN w = DOMAIN d \ {p} /\ \A q \in DOMAIN d : q # p => w[q] = d[q]
    BY Zenon DEF Without
  <2> HIDE DEF w
  <2>2. DeviceOK(w)
    BY <2>1, Zenon DEF DeviceOK
  <2> QED
    BY <2>1, <2>2, Zenon DEF w
<1>3. set_peer_endpoint(d, p) = d \/ (p \notin DOMAIN d /\ set_peer_endpoint(d, p) = With(d, p, {}))
  BY Zenon DEF set_peer_endpoint, kernel_set_peer_endpoint, userspace_set_peer_endpoint
<1>4. remove_peer(d, p) = Without(d, p) \/ (p \notin DOMAIN d /\ remove_peer(d, p) = d)
  BY Zenon DEF remove_peer, kernel_remove_peer, userspace_remove_peer
<1>5. add_peer(d, p, ips) = With(d, p, more) \/ add_peer(d, p, ips) = With(d, p, ips)
  BY Zenon DEF add_peer, kernel_add_peer, userspace_add_peer, more
<1>6. {} \subseteq {Site(p)} \cup AllRoutes
  BY Zenon
<1>7. SetSound(d, p)
  <2>1. CASE set_peer_endpoint(d, p) = d
    BY <2>1, Zenon DEF SetSound
  <2>2. CASE p \notin DOMAIN d /\ set_peer_endpoint(d, p) = With(d, p, {})
    BY <1>1, <1>6, <2>2 DEF SetSound
  <2> QED
    BY <1>3, <2>1, <2>2, Zenon
<1>8. RemoveSound(d, p)
  BY <1>2, <1>4, Zenon DEF RemoveSound
<1>9. AddSound(d, p, ips)
  <2>1. CASE add_peer(d, p, ips) = With(d, p, more)
    BY <1>0, <1>1, <2>1 DEF AddSound
  <2>2. CASE add_peer(d, p, ips) = With(d, p, ips)
    BY <1>1, <2>2 DEF AddSound
  <2> QED
    BY <1>5, <2>1, <2>2, Zenon
<1> QED
  BY <1>7, <1>8, <1>9, Zenon

\* A visit: a re-handshake that succeeds brings the peer back with all its AllowedIPs.
LEMMA VisitDevice ==
  ASSUME IInv, Memory, DeviceInv, Visit
  PROVE  DeviceInv'
<1>1. PICK p \in DOMAIN peers : \E act \in {"none", "SetEndpoint", "Rehandshake", "half"} :
        /\ apply_actions(p, act) /\ slips \subseteq slips'
        /\ act = "half" => "backend" \in slips'
        /\ act \in {"Rehandshake", "half"} => p \in Range(Config)
  BY VisitDoes, Zenon
<1>2. PICK act \in {"none", "SetEndpoint", "Rehandshake", "half"} :
        /\ apply_actions(p, act) /\ slips \subseteq slips'
        /\ act = "half" => "backend" \in slips'
        /\ act \in {"Rehandshake", "half"} => p \in Range(Config)
  BY <1>1, Zenon
<1> DEFINE ips == allowed_ips_for(p, peers[p].routes)
           less == remove_peer(device, p)
<1>3. p \in Keys /\ peers[p].routes = Own(p)
  BY Zenon DEF IInv, Turn, Memory, PeersSound
<1>4. ips \subseteq {Site(p)} \cup AllRoutes
  BY <1>3, AllowedAnnounced, Zenon
<1>5. DeviceOK(less) /\ p \notin DOMAIN less /\ \A q \in DOMAIN device \ {p} : q \in DOMAIN less /\ less[q] = device[q]
  BY <1>3, <1>4, BackendSound, Zenon DEF DeviceInv, SetSound, RemoveSound
<1>6. /\ device' = CASE act = "none" -> device
                     [] act = "SetEndpoint" -> set_peer_endpoint(device, p)
                     [] act = "Rehandshake" -> add_peer(less, p, ips)
                     [] act = "half" -> less
      /\ link' \in {link, Created}
  BY <1>2, Zenon DEF apply_actions
<1>7. UNCHANGED <<platform, heard>> /\ proc.pc = "tick"
  BY Zenon DEF Visit
<1>8. p \in Range(Config) => ips = allowed_ips_for(p, RoutesOf(p))
  BY <1>3, Zenon DEF Own
<1> HIDE DEF ips, less
<1>9. AddSound(less, p, ips)
  BY <1>3, <1>4, <1>5, BackendSound, Zenon
<1>10. /\ DeviceOK(set_peer_endpoint(device, p))
       /\ \A q \in DOMAIN device : /\ q \in DOMAIN set_peer_endpoint(device, p)
                                   /\ set_peer_endpoint(device, p)[q] = device[q]
  BY <1>3, <1>4, BackendSound, Zenon DEF DeviceInv, SetSound, RemoveSound
<1>11. DeviceOK(device')
  BY <1>2, <1>5, <1>6, <1>9, <1>10, Zenon DEF DeviceInv, AddSound
<1>12. platform' \in Platforms /\ link' \in {"none", "bare", "set"}
  BY <1>6, <1>7, Zenon DEF DeviceInv, Created
<1>13. ASSUME slips' \cap {"backend", "down"} = {} PROVE Carries(device)'
  <2>1. Carries(device) /\ act # "half"
    BY <1>2, <1>7, <1>13, Zenon DEF DeviceInv
  <2> SUFFICES ASSUME NEW q \in Range(Config) \ heard
               PROVE  q \in DOMAIN device' /\ device'[q] = allowed_ips_for(q, RoutesOf(q))
    BY <1>7, Zenon DEF Carries
  <2>2. q \in DOMAIN device /\ device[q] = allowed_ips_for(q, RoutesOf(q))
    BY <2>1, Zenon DEF Carries
  <2>3. CASE act \in {"none", "SetEndpoint"}
    BY <1>6, <1>10, <2>2, <2>3, Zenon
  <2>4. CASE act = "Rehandshake" /\ q = p
    BY <1>5, <1>6, <1>8, <1>9, <2>4, Zenon DEF AddSound
  <2>5. CASE act = "Rehandshake" /\ q # p
    BY <1>5, <1>6, <1>9, <2>2, <2>5, Zenon DEF AddSound
  <2> QED
    BY <1>2, <2>1, <2>3, <2>4, <2>5, Zenon
<1> QED
  BY <1>11, <1>12, <1>13, Zenon DEF DeviceInv, DeviceOK

\* Every step keeps the device in form and the configured peers in it.
LEMMA DeviceInductive == Spec => []DeviceInv
<1>1. Init => DeviceInv
  BY DEF Init, DeviceInv, DeviceOK, Nobody, Off
<1>2. IInv /\ Memory /\ DeviceInv /\ [Next]_vars => DeviceInv'
  <2> SUFFICES ASSUME IInv, Memory, DeviceInv, [Next]_vars PROVE DeviceInv'
    BY Zenon
  <2> USE DEF DeviceInv
  <2>1. CASE Start
    <3>1. device' = build_device_spec /\ link' \in {"bare", "set"} /\ UNCHANGED <<platform, heard>>
      BY <2>1, Zenon DEF Start, Apply, kernel_apply, userspace_apply, Created, memory
    <3> QED
      BY <3>1, SpecCarries, Zenon DEF DeviceOK, Carries
  <2>2. ASSUME Release({}) \/ Release(table) \/ (\E rest : Release(rest)), platform' = platform
        PROVE  DeviceInv'
    <3>1. proc'.pc = "off" /\ device' \in {device, Nobody} /\ link' \in {link, "none"}
      BY <2>2 DEF Release, Forget, Off
    <3> QED
      BY <2>2, <3>1, Zenon DEF DeviceOK, Nobody
  <2>3. CASE SetupInterface
    <3>1. CASE link = "none"
      BY <2>2, <2>3, <3>1, Zenon DEF SetupInterface
    <3>2. CASE link # "none"
      <4>1. link' = "set" /\ UNCHANGED <<platform, device, heard, slips>> /\ proc.pc = "setup"
        BY <2>3, <3>2, Zenon DEF SetupInterface, memory, NoSlip
      <4> QED
        BY <4>1, Zenon DEF DeviceOK, Carries
    <3> QED
      BY <3>1, <3>2, Zenon
  <2>4. CASE Serve \/ Tick \/ (\E r \in Foreign : ByHand(r)) \/ UNCHANGED vars
    <3>1. UNCHANGED <<platform, device, link, heard>> /\ slips \subseteq slips'
      BY <2>4, Zenon DEF Serve, Tick, ByHand, vars, os, memory, NoSlip, Slip
    <3>2. proc.pc = "off" => proc'.pc = "off"
      BY <2>4, Zenon DEF Serve, Tick, ByHand, vars
    <3> QED
      BY <3>1, <3>2, Zenon DEF DeviceOK, Carries
  <2>5. CASE Visit
    BY <2>5, VisitDevice, Zenon
  <2>6. ASSUME NEW p \in Keys, MemberAdmitted(p) PROVE DeviceInv'
    <3>1. /\ p \in Gossiped \ (DOMAIN peers \cup heard) /\ UNCHANGED <<platform, proc, heard>> /\ proc.pc = "on"
          /\ device' \in {device, add_peer(device, p, {Site(p)})} /\ link' = Created
          /\ slips \subseteq slips'
      BY <2>6, Zenon DEF MemberAdmitted, Slip, Spend
    <3>2. p \notin Range(Config)
      BY <3>1, Zenon DEF Memory, Serving
    <3>3. /\ DeviceOK(add_peer(device, p, {Site(p)}))
          /\ \A q \in DOMAIN device \ {p} : /\ q \in DOMAIN add_peer(device, p, {Site(p)})
                                            /\ add_peer(device, p, {Site(p)})[q] = device[q]
      BY BackendSound DEF AddSound, RemoveSound
    <3> QED
      BY <3>1, <3>2, <3>3, Zenon DEF DeviceOK, Carries, Created
  <2>7. ASSUME NEW p \in Keys, Revoked(p) PROVE DeviceInv'
    <3>1. /\ heard' = heard \cup {p} /\ UNCHANGED <<platform, proc>>
          /\ device' \in {device, remove_peer(device, p)} /\ link' = Created
          /\ slips \subseteq slips'
      BY <2>7, Zenon DEF Revoked, Slip, Spend
    <3>3. /\ DeviceOK(remove_peer(device, p))
          /\ \A q \in DOMAIN device \ {p} : q \in DOMAIN remove_peer(device, p) /\ remove_peer(device, p)[q] = device[q]
      BY BackendSound, Zenon DEF AddSound, RemoveSound
    <3> QED
      BY <3>1, <3>3, Zenon DEF DeviceOK, Carries, Created
  <2>8. CASE Shutdown \/ Kill
    BY <2>2, <2>8, Zenon DEF Shutdown, Kill
  <2>9. CASE up
    <3>1. device' = build_device_spec /\ link' = "set" /\ UNCHANGED <<platform, proc, heard>>
      BY <2>9, Zenon DEF up, memory
    <3> QED
      BY <3>1, SpecCarries, Zenon DEF DeviceOK, Carries
  <2>10. CASE down
    <3>1. device' = Nobody /\ link' = "none" /\ platform' = platform /\ "down" \in slips'
      BY <2>10, Zenon DEF down, Slip
    <3> QED
      BY <3>1, Zenon DEF DeviceOK, Nobody
  <2> QED
    BY <2>1, <2>3, <2>4, <2>5, <2>6, <2>7, <2>8, <2>9, <2>10, Zenon DEF Next
<1> QED
  BY <1>1, <1>2, Inductive, MemoryInductive, PTL DEF Spec

\* A connected peer of the configuration has its site and all the routes it announces
\* as AllowedIPs, whatever re-handshakes, events, restarts and `hextet up` came before
\* (apply_actions, build_device_spec), unless the device failed or was deleted.
THEOREM ConfiguredAlwaysCarried == Spec => []ConfiguredCarried
<1>1. IInv /\ DeviceInv => ConfiguredCarried
  BY Zenon DEF IInv, Heard, DeviceInv, Carries, ConfiguredCarried, Connected
<1> QED
  BY <1>1, Inductive, DeviceInductive, PTL

-----------------------------------------------------------------------------
(* The routes.                                                             *)

\* The operations of a sync, one for each route it looks at.
OpsSound(c, d) ==
  /\ Len(Ops(c, d)) = Len(c) + Len(d)
  /\ \A i \in 1..Len(c) : /\ Ops(c, d)[i].op = IF c[i] \in Range(d) THEN "keep" ELSE "del"
                          /\ Ops(c, d)[i].route = c[i]
  /\ \A i \in 1..Len(d) : /\ Ops(c, d)[Len(c) + i].op = IF d[i] \in Range(c) THEN "keep" ELSE "add"
                          /\ Ops(c, d)[Len(c) + i].route = d[i]
LEMMA OpsAre ==
  ASSUME NEW c \in Seq(AllRoutes), NEW d \in Seq(AllRoutes)
  PROVE  OpsSound(c, d)
<1> DEFINE Old(r) == [op |-> IF r \in Range(d) THEN "keep" ELSE "del", route |-> r]
           New(r) == [op |-> IF r \in Range(c) THEN "keep" ELSE "add", route |-> r]
           a == [i \in 1..Len(c) |-> Old(c[i])]
           b == [i \in 1..Len(d) |-> New(d[i])]
           T == [op : {"keep", "del", "add"}, route : AllRoutes]
<1>1. a \in Seq(T) /\ b \in Seq(T) /\ Len(a) = Len(c) /\ Len(b) = Len(d)
  OBVIOUS
<1>2. Ops(c, d) = a \o b
  BY Zenon DEF Ops
<1>3. /\ \A i \in 1..Len(c) : a[i].op = (IF c[i] \in Range(d) THEN "keep" ELSE "del") /\ a[i].route = c[i]
      /\ \A i \in 1..Len(d) : b[i].op = (IF d[i] \in Range(c) THEN "keep" ELSE "add") /\ b[i].route = d[i]
  BY Zenon
<1> HIDE DEF a, b, T
<1>4. /\ Len(a \o b) = Len(c) + Len(d)
      /\ \A i \in 1..Len(c) : (a \o b)[i] = a[i]
      /\ \A i \in 1..Len(d) : (a \o b)[Len(c) + i] = b[i]
  <2>1. Len(a \o b) = Len(c) + Len(d) /\ \A i \in 1..Len(c) : (a \o b)[i] = a[i]
    BY <1>1
  <2>2. ASSUME NEW i \in 1..Len(d) PROVE (a \o b)[Len(c) + i] = b[i]
    <3>1. Len(c) + i \in 1 .. Len(a) + Len(b) /\ ~(Len(c) + i <= Len(a)) /\ Len(c) + i - Len(a) = i
      BY <1>1
    <3> QED
      BY <1>1, <3>1
  <2> QED
    BY <2>1, <2>2, Zenon
<1> DEFINE o == Ops(c, d)
<1>5. /\ Len(o) = Len(c) + Len(d)
      /\ \A i \in 1..Len(c) : o[i] = a[i]
      /\ \A i \in 1..Len(d) : o[Len(c) + i] = b[i]
  BY <1>2, <1>4, Zenon
<1> HIDE DEF o
<1>6. /\ \A i \in 1..Len(c) : o[i].op = (IF c[i] \in Range(d) THEN "keep" ELSE "del") /\ o[i].route = c[i]
      /\ \A i \in 1..Len(d) : /\ o[Len(c) + i].op = (IF d[i] \in Range(c) THEN "keep" ELSE "add")
                              /\ o[Len(c) + i].route = d[i]
  BY <1>3, <1>5, Zenon
<1> QED
  BY <1>5, <1>6, Zenon DEF o, OpsSound

\* The elements of a sequence, by their indices.
LEMMA RangeOf ==
  ASSUME NEW S, NEW s \in Seq(S)
  PROVE  /\ Range(s) = {s[i] : i \in 1..Len(s)} /\ Range(s) \subseteq S
         /\ \A i \in 1..Len(s) : s[i] \in Range(s)
         /\ Range(<<>>) = {}
BY DEF Range

\* sync, from all or none of a peer's routes to all or none.  It removes nothing but
\* what it tracks; and if no operation fails by itself and what it tracks is there, it
\* gets where it wants to be, or meets a route that is in the way and removes nothing.
Reaches(p, desired) ==
  \/ /\ installed' = [installed EXCEPT ![p] = desired]
     /\ table' = (table \ Range(installed[p])) \cup Range(desired)
     /\ Range(desired) \cap table \subseteq Range(installed[p])
  \/ /\ installed' = installed /\ table \subseteq table'
     /\ installed[p] = <<>> /\ Range(Own(p)) \cap table # {}
LEMMA SyncRoutes ==
  ASSUME NEW p \in Keys, NEW desired \in {<<>>, Own(p)}, NEW k \in Nat,
         DOMAIN installed = Keys, installed[p] \in {<<>>, Own(p)}, sync(p, desired, k)
  PROVE  /\ table' \subseteq table \cup Range(Own(p))
         /\ k = 0 /\ link = "set" /\ Range(installed[p]) \subseteq table => Reaches(p, desired)
<1> DEFINE R == Own(p)
           ops == Ops(installed[p], desired)
<1>1. R \in Seq(AllRoutes) /\ <<>> \in Seq(AllRoutes)
  BY RoutesAssumption DEF Own
<1>2. PICK n \in 0..Len(ops) :
        /\ \A i \in 1..n : ~Fails(ops, k, i)
        /\ n < Len(ops) => Fails(ops, k, n + 1)
        /\ table' = After(ops, 1..n)
        /\ installed' = IF n = Len(ops) THEN [installed EXCEPT ![p] = desired] ELSE installed
  BY Zenon DEF sync
<1>3. k # 0 => k \in 1..Len(ops) /\ ops[k].op # "keep"
  BY Zenon DEF sync
<1>4. Range(R) = {R[i] : i \in 1..Len(R)} /\ Range(<<>>) = {} /\ Len(R) \in Nat
  BY <1>1, RangeOf
<1> HIDE DEF R
<1>5. CASE installed[p] = desired
  <2>1. \A i \in 1..Len(ops) : ops[i].op = "keep"
    <3>1. ASSUME NEW s \in Seq(AllRoutes), NEW i \in 1..Len(Ops(s, s)) PROVE Ops(s, s)[i].op = "keep"
      <4>1. /\ Len(Ops(s, s)) = Len(s) + Len(s)
            /\ \A j \in 1..Len(s) : Ops(s, s)[j].op = IF s[j] \in Range(s) THEN "keep" ELSE "del"
            /\ \A j \in 1..Len(s) : Ops(s, s)[Len(s) + j].op = IF s[j] \in Range(s) THEN "keep" ELSE "add"
        BY OpsAre DEF OpsSound
      <4>2. \A j \in 1..Len(s) : s[j] \in Range(s)
        BY RangeOf, Zenon
      <4>3. Len(s) \in Nat /\ (i \in 1..Len(s) \/ (i - Len(s) \in 1..Len(s) /\ i = Len(s) + (i - Len(s))))
        BY <4>1
      <4>4. CASE i \in 1..Len(s)
        BY <4>1, <4>2, <4>4, Zenon
      <4>5. CASE i - Len(s) \in 1..Len(s)
        <5> DEFINE j == i - Len(s)
        <5>1. i = Len(s) + j /\ j \in 1..Len(s)
          BY <4>3, <4>5
        <5> HIDE DEF j
        <5>2. Ops(s, s)[Len(s) + j].op = IF s[j] \in Range(s) THEN "keep" ELSE "add"
          BY <4>1, <5>1, Zenon
        <5> QED
          BY <4>2, <5>1, <5>2, Zenon
      <4> QED
        BY <4>3, <4>4, <4>5, Zenon
    <3> QED
      BY <1>1, <1>5, <3>1, Zenon DEF R
  <2>2. Len(ops) \in Nat
    BY <1>1, <1>5, OpsAre DEF OpsSound, R
  <2> HIDE DEF ops
  <2>3. k = 0
    BY <1>3, <2>1, Zenon
  <2>4. \A i \in 1..Len(ops) : ~Fails(ops, k, i)
    BY <2>1, <2>3 DEF Fails, Refused
  <2>5. n = Len(ops)
    BY <1>2, <2>2, <2>4
  <2>6. After(ops, 1..n) = table
    BY <2>1, <2>5, Zenon DEF After, Routes
  <2> QED
    BY <1>2, <1>5, <2>5, <2>6, Zenon DEF Reaches
<1>6. CASE installed[p] = <<>> /\ desired = R
  <2>1. Len(ops) = Len(R) /\ \A i \in 1..Len(R) : ops[i].op = "add" /\ ops[i].route = R[i]
    <3>1. OpsSound(<<>>, R)
      BY <1>1, OpsAre, Zenon
    <3> QED
      BY <1>4, <1>6, <3>1 DEF OpsSound
  <2> HIDE DEF ops
  <2>2. After(ops, 1..n) = table \cup {R[i] : i \in 1..n}
    BY <1>2, <2>1 DEF After, Routes
  <2>3. table \subseteq table' /\ table' \subseteq table \cup Range(R)
    BY <1>2, <1>4, <2>1, <2>2
  <2>4. ASSUME k = 0, link = "set" PROVE Reaches(p, desired)
    <3>1. CASE n = Len(R)
      <4>1. \A i \in 1..Len(R) : R[i] \notin table
        BY <1>2, <2>1, <2>4, <3>1, Zenon DEF Fails, Refused, add_route_fails
      <4> QED
        BY <1>2, <1>4, <1>6, <2>1, <2>2, <3>1, <4>1, Zenon DEF Reaches
    <3>2. CASE n # Len(R)
      <4>1. n + 1 \in 1..Len(R) /\ R[n + 1] \in table
        BY <1>2, <1>4, <2>1, <2>4, <3>2 DEF Fails, Refused, add_route_fails
      <4> QED
        BY <1>2, <1>4, <1>6, <2>1, <2>3, <3>2, <4>1, Zenon DEF Reaches, R
    <3> QED
      BY <3>1, <3>2, Zenon
  <2> QED
    BY <2>3, <2>4, Zenon DEF R
<1>7. CASE installed[p] = R /\ desired = <<>>
  <2>1. Len(ops) = Len(R) /\ \A i \in 1..Len(R) : ops[i].op = "del" /\ ops[i].route = R[i]
    <3>1. OpsSound(R, <<>>)
      BY <1>1, OpsAre, Zenon
    <3> QED
      BY <1>4, <1>7, <3>1 DEF OpsSound
  <2> HIDE DEF ops
  <2>2. After(ops, 1..n) = table \ {R[i] : i \in 1..n}
    BY <1>2, <2>1 DEF After, Routes
  <2>3. ASSUME k = 0, link = "set", Range(installed[p]) \subseteq table PROVE Reaches(p, desired)
    <3>1. \A i \in 1..Len(R) : ~Fails(ops, k, i)
      BY <1>4, <1>7, <2>1, <2>3 DEF Fails, Refused, remove_route_fails
    <3>2. n = Len(R)
      BY <1>2, <1>4, <2>1, <3>1
    <3> QED
      BY <1>2, <1>4, <1>7, <2>1, <2>2, <3>2, Zenon DEF Reaches
  <2> QED
    BY <1>2, <2>2, <2>3, Zenon
<1> QED
  BY <1>5, <1>6, <1>7, Zenon DEF R

\* What the manager tracks is there and is not the user's, and the interface is up
\* while the daemon serves.
Kept ==
  /\ hand \subseteq table
  /\ \A p \in Keys : Range(installed[p]) \subseteq table \ hand
  /\ proc.pc = "setup" => link # "none"
  /\ proc.pc \in {"serve", "on", "tick"} => link = "set"
\* What is there is what the manager tracks, for peers that are connected or revoked.
Exact ==
  /\ table = RoutesHeld(Keys)
  /\ \A p \in Keys : installed[p] # <<>> => Connected(p) \/ p \in heard
RouteInv ==
  /\ table \subseteq AllRoutes /\ hand \subseteq AllRoutes
  /\ slips \cap {"route", "down"} = {} => Kept
  /\ Undisturbed => Exact

\* Two peers announce different routes (Config::load).
LEMMA RoutesApart ==
  ASSUME NEW p \in Keys, NEW q \in Keys, p # q
  PROVE  /\ Range(Own(p)) \cap Range(Own(q)) = {} /\ Range(Own(p)) \subseteq AllRoutes
         /\ Range(<<>>) = {}
<1>1. Range(<<>>) = {}
  BY DEF Range
<1> QED
  BY <1>1, RoutesAssumption, Zenon DEF Own, AllRoutes

\* A visit: routes come with the connection and go with it.
LEMMA VisitRoutes ==
  ASSUME IInv, Memory, RouteInv, Visit
  PROVE  RouteInv'
<1>1. PICK p \in DOMAIN peers : \E desired \in {<<>>, Own(p)},
           act \in {"none", "SetEndpoint", "Rehandshake", "half"}, k \in Nat :
           /\ desired # <<>> => peers'[p].connected
           /\ apply_actions(p, act) /\ sync(p, desired, k)
           /\ DOMAIN peers' = DOMAIN peers
           /\ \A q \in DOMAIN peers : q # p => peers'[q] = peers[q]
           /\ slips \subseteq slips' /\ (k > 0 => "route" \in slips')
  BY VisitDoes, Zenon
<1>2. PICK desired \in {<<>>, Own(p)}, act \in {"none", "SetEndpoint", "Rehandshake", "half"}, k \in Nat :
           /\ desired # <<>> => peers'[p].connected
           /\ apply_actions(p, act) /\ sync(p, desired, k)
           /\ slips \subseteq slips' /\ (k > 0 => "route" \in slips')
  BY <1>1, Zenon
<1>3. p \in Keys /\ proc.pc = "tick" /\ proc'.pc \in {"on", "tick"} /\ UNCHANGED <<hand, heard>>
  BY VisitKeeps, Zenon DEF Visit, IInv, Turn, Off
<1>4. DOMAIN installed = Keys /\ \A q \in Keys : installed[q] \in {<<>>, Own(q)}
  BY Zenon DEF Memory, InstalledSound
<1>5. /\ table' \subseteq table \cup Range(Own(p))
      /\ k = 0 /\ link = "set" /\ Range(installed[p]) \subseteq table => Reaches(p, desired)
  BY <1>2, <1>3, <1>4, SyncRoutes, Zenon
<1>6. link = "set" => link' = "set"
  BY <1>2, Zenon DEF apply_actions, Created
<1>7. /\ \A q \in Keys : q # p => Range(Own(p)) \cap Range(Own(q)) = {}
      /\ Range(Own(p)) \subseteq AllRoutes /\ Range(<<>>) = {}
  <2>1. Range(Own(p)) \subseteq AllRoutes
    BY RoutesAssumption DEF Own, AllRoutes, Range
  <2> QED
    BY <1>3, <2>1, RoutesApart DEF Range
<1>8. \A q \in Keys : q # p => Range(installed[p]) \cap Range(installed[q]) = {} /\ Range(desired) \cap Range(installed[q]) = {}
  BY <1>2, <1>3, <1>4, <1>7, Zenon
<1>9. ASSUME slips' \cap {"route", "down"} = {} PROVE Kept' /\ Reaches(p, desired)
  <2>1. Kept /\ k = 0
    BY <1>2, <1>9 DEF RouteInv
  <2>2. Reaches(p, desired)
    BY <1>3, <1>5, <2>1, Zenon DEF Kept
  <2>3. link' = "set" /\ proc'.pc # "setup"
    <3>1. link = "set"
      BY <1>3, <2>1, Zenon DEF Kept
    <3> QED
      BY <1>3, <1>6, <3>1, Zenon
  <2>4. CASE installed' = installed /\ table \subseteq table'
    <3>1. hand' \subseteq table' /\ \A q \in Keys : Range(installed'[q]) \subseteq table' \ hand'
      BY <1>3, <2>1, <2>4, Zenon DEF Kept
    <3> QED
      BY <2>2, <2>3, <3>1, Zenon DEF Kept
  <2>5. CASE /\ installed' = [installed EXCEPT ![p] = desired]
             /\ table' = (table \ Range(installed[p])) \cup Range(desired)
             /\ Range(desired) \cap table \subseteq Range(installed[p])
    <3>1. hand' \subseteq table'
      BY <1>3, <2>1, <2>5, Zenon DEF Kept
    <3>2. ASSUME NEW q \in Keys PROVE Range(installed'[q]) \subseteq table' \ hand'
      <4>1. CASE q = p
        <5>1. installed'[q] = desired
          BY <1>4, <2>5, <4>1, Zenon
        <5> QED
          BY <1>3, <2>1, <2>5, <5>1, Zenon DEF Kept
      <4>2. CASE q # p
        <5>1. installed'[q] = installed[q]
          BY <1>4, <2>5, <4>2, Zenon
        <5> QED
          BY <1>3, <1>8, <2>1, <2>5, <4>2, <5>1, Zenon DEF Kept
      <4> QED
        BY <4>1, <4>2, Zenon
    <3> QED
      BY <2>2, <2>3, <3>1, <3>2, Zenon DEF Kept
  <2> QED
    BY <2>2, <2>4, <2>5, Zenon DEF Reaches
<1>10. ASSUME Undisturbed' PROVE Exact'
  <2>1. Exact /\ Reaches(p, desired)
    BY <1>2, <1>9, <1>10, Zenon DEF RouteInv, Undisturbed
  <2>2. /\ installed' = [installed EXCEPT ![p] = desired]
        /\ table' = (table \ Range(installed[p])) \cup Range(desired)
    <3>1. ASSUME installed[p] = <<>>, NEW r \in Range(Own(p)), r \in table PROVE FALSE
      <4>1. PICK q \in Keys : r \in Range(installed[q])
        BY <2>1, <3>1, Zenon DEF Exact, RoutesHeld
      <4> QED
        BY <1>3, <1>4, <1>7, <3>1, <4>1, Zenon
    <3> QED
      BY <2>1, <3>1, Zenon DEF Reaches
  <2>3. installed'[p] = desired /\ \A q \in Keys : q # p => installed'[q] = installed[q]
    BY <1>3, <1>4, <2>2, Zenon
  <2>4. table' = RoutesHeld(Keys)'
    BY <1>3, <1>8, <2>1, <2>2, <2>3 DEF Exact, RoutesHeld
  <2>5. \A q \in Keys : installed'[q] # <<>> => Connected(q)' \/ q \in heard'
    BY <1>1, <1>2, <1>3, <2>1, <2>3, Zenon DEF Exact, Connected
  <2> QED
    BY <2>4, <2>5, Zenon DEF Exact
<1>11. table' \subseteq AllRoutes /\ hand' \subseteq AllRoutes
  BY <1>3, <1>5, <1>7, Zenon DEF RouteInv
<1> QED
  BY <1>9, <1>10, <1>11, Zenon DEF RouteInv

\* remove_all takes back what is tracked, all of it if nothing fails.
LEMMA RemovesTracked ==
  ASSUME NEW rest, NEW fault \in BOOLEAN, remove_all(rest, fault), Memory
  PROVE  /\ rest \subseteq table /\ table \ RoutesHeld(Keys) \subseteq rest
         /\ ~fault /\ link = "set" /\ RoutesHeld(Keys) \subseteq table => rest = table \ RoutesHeld(Keys)
<1>1. RoutesHeld(Tracked) = RoutesHeld(Keys)
  BY DEF RoutesHeld, Tracked, Range
<1>2. CASE /\ \A r \in RoutesHeld(Tracked) : ~remove_route_fails(r)
           /\ rest = table \ RoutesHeld(Tracked)
  BY <1>1, <1>2, Zenon
<1>3. CASE \E p \in Tracked : \E before \in SUBSET (Tracked \ {p}), n \in 1..Len(installed[p]) :
       LET gone == RoutesHeld(before) \cup {installed[p][i] : i \in 1 .. n - 1}
       IN  /\ \A r \in gone : ~remove_route_fails(r)
           /\ fault \/ remove_route_fails(installed[p][n])
           /\ rest = table \ gone
  <2>1. PICK p \in Tracked : \E before \in SUBSET (Tracked \ {p}), n \in 1..Len(installed[p]) :
          /\ rest = table \ (RoutesHeld(before) \cup {installed[p][i] : i \in 1 .. n - 1})
          /\ fault \/ remove_route_fails(installed[p][n])
    BY <1>3, Zenon
  <2>2. PICK before \in SUBSET (Tracked \ {p}), n \in 1..Len(installed[p]) :
          /\ rest = table \ (RoutesHeld(before) \cup {installed[p][i] : i \in 1 .. n - 1})
          /\ fault \/ remove_route_fails(installed[p][n])
    BY <2>1, Zenon
  <2>3. p \in Keys /\ installed[p] \in Seq(AllRoutes)
    BY RoutesAssumption DEF Tracked, Memory, InstalledSound, Own
  <2>4. \A i \in 1..n : installed[p][i] \in RoutesHeld(Keys)
    BY <2>3 DEF RoutesHeld, Range
  <2>5. RoutesHeld(before) \subseteq RoutesHeld(Keys)
    BY Zenon DEF RoutesHeld, Tracked
  <2> QED
    BY <2>2, <2>4, <2>5 DEF remove_route_fails
<1> QED
  BY <1>2, <1>3, Zenon DEF remove_all

\* Every step of the daemon, the commands and the user keeps the routes in order.
LEMMA RoutesInductive == Spec => []RouteInv
<1>1. Init => RouteInv
  <2> SUFFICES ASSUME Init PROVE RouteInv
    BY Zenon
  <2>1. /\ proc.pc = "off" /\ hand = {} /\ table = {}
        /\ \A p \in Keys : installed[p] = <<>>
    BY Zenon DEF Init, Off
  <2>2. Range(<<>>) = {}
    BY DEF Range
  <2>3. RoutesHeld(Keys) = {}
    BY <2>1, <2>2, Zenon DEF RoutesHeld
  <2> QED
    BY <2>1, <2>2, <2>3, Zenon DEF RouteInv, Kept, Exact
<1>2. IInv /\ Memory /\ DeviceInv /\ RouteInv /\ [Next]_vars => RouteInv'
  <2> SUFFICES ASSUME IInv, Memory, DeviceInv, RouteInv, [Next]_vars PROVE RouteInv'
    BY Zenon
  <2>0. Range(<<>>) = {}
    BY DEF Range
  <2>1. CASE Start
    <3>1. /\ proc.pc = "off" /\ proc'.pc = "setup" /\ link' # "none"
          /\ UNCHANGED <<table, hand, peers, installed, heard, slips>>
      BY <2>1, Zenon DEF Start, Off, Apply, kernel_apply, userspace_apply, Created, memory
    <3> QED
      BY <3>1, Zenon DEF RouteInv, Kept, Exact, Undisturbed, RoutesHeld, Connected
  <2>2. ASSUME NEW rest, Release(rest), rest \subseteq table, slips \subseteq slips',
               slips' \cap {"route", "down"} = {} => hand \subseteq rest,
               Undisturbed' => rest = {}
        PROVE  RouteInv'
    <3>1. proc'.pc = "off" /\ \A p \in Keys : installed'[p] = <<>>
      BY <2>2, Zenon DEF Release, Forget, Off
    <3>2. (table' = rest /\ hand' = hand) \/ (table' = {} /\ hand' = {})
      BY <2>2, Zenon DEF Release
    <3>3. RoutesHeld(Keys)' = {}
      BY <2>0, <3>1, Zenon DEF RoutesHeld
    <3>4. Undisturbed' => table' = {}
      BY <2>2, <3>2, Zenon
    <3> QED
      BY <2>0, <2>2, <3>1, <3>2, <3>3, <3>4, Zenon DEF RouteInv, Kept, Exact
  <2>3. CASE SetupInterface
    <3>1. CASE link = "none"
      <4>1. Release({}) /\ slips' = slips /\ "none" = link /\ proc.pc = "setup"
        BY <2>3, <3>1, Zenon DEF SetupInterface, NoSlip
      <4>2. ~(slips \cap {"route", "down"} = {})
        BY <4>1, Zenon DEF RouteInv, Kept
      <4> QED
        BY <2>2, <4>1, <4>2, Zenon DEF Undisturbed
    <3>2. CASE link # "none"
      <4>1. /\ link' = "set" /\ proc' = [proc EXCEPT !.pc = "serve"]
            /\ UNCHANGED <<table, hand, peers, installed, heard, slips>>
        BY <2>3, <3>2, Zenon DEF SetupInterface, memory, NoSlip
      <4>2. proc'.pc = "serve"
        BY <4>1, Zenon DEF IInv, Turn
      <4> QED
        BY <4>1, <4>2, Zenon DEF RouteInv, Kept, Exact, Undisturbed, RoutesHeld, Connected
    <3> QED
      BY <3>1, <3>2, Zenon
  <2>4. CASE Serve
    <3>1. /\ proc.pc = "serve" /\ proc' = [proc EXCEPT !.pc = "on"]
          /\ UNCHANGED <<link, table, hand, installed, heard, slips>>
      BY <2>4, Zenon DEF Serve, os, NoSlip
    <3>2. proc'.pc = "on" /\ \A p \in Keys : installed[p] = <<>>
      BY <3>1, Zenon DEF IInv, Turn, Memory, InstalledSound, Serving
    <3> QED
      BY <3>1, <3>2, Zenon DEF RouteInv, Kept, Exact, Undisturbed, RoutesHeld
  <2>5. CASE Tick
    <3>1. /\ proc.pc = "on" /\ proc'.pc = "tick"
          /\ UNCHANGED <<link, table, hand, peers, installed, heard, slips>>
      BY <2>5 DEF Tick, os, memory, NoSlip
    <3> QED
      BY <3>1, Zenon DEF RouteInv, Kept, Exact, Undisturbed, RoutesHeld, Connected
  <2>6. CASE Visit
    BY <2>6, VisitRoutes, Zenon
  <2>7. ASSUME NEW p \in Keys, MemberAdmitted(p) \/ Revoked(p) PROVE RouteInv'
    <3>1. /\ UNCHANGED <<table, hand, proc, installed>> /\ slips \subseteq slips'
          /\ link' = Created /\ proc.pc = "on"
      BY <2>7, Zenon DEF MemberAdmitted, Revoked, Slip, Spend
    <3>2. \A q \in Keys : Connected(q) \/ q \in heard => Connected(q)' \/ q \in heard'
      <4>1. CASE MemberAdmitted(p)
        <5>1. peers' = With(peers, p, Idle(<<>>)) /\ heard' = heard /\ p \notin DOMAIN peers
          BY <4>1, Zenon DEF MemberAdmitted
        <5> QED
          BY <5>1, Zenon DEF With, Connected
      <4>2. CASE Revoked(p)
        <5>1. peers' = Without(peers, p) /\ heard' = heard \cup {p}
          BY <4>2, Zenon DEF Revoked
        <5> QED
          BY <5>1, Zenon DEF Without, Connected
      <4> QED
        BY <2>7, <4>1, <4>2, Zenon
    <3>3. Kept => Kept'
      BY <3>1, Zenon DEF Kept, Created
    <3>4. Exact => Exact'
      BY <3>1, <3>2, Zenon DEF Exact, RoutesHeld
    <3> QED
      BY <3>1, <3>3, <3>4, Zenon DEF RouteInv, Undisturbed
  <2>8. CASE Shutdown
    <3>1. PICK rest \in SUBSET table, fault \in BOOLEAN :
            remove_all(rest, fault) /\ Release(rest) /\ (IF fault THEN Slip("route") ELSE NoSlip)
      BY <2>8, Zenon DEF Shutdown
    <3>2. slips \subseteq slips' /\ (fault => "route" \in slips') /\ proc.pc = "on"
      BY <2>8, <3>1, Zenon DEF Slip, NoSlip, Shutdown
    <3>3. /\ table \ RoutesHeld(Keys) \subseteq rest
          /\ ~fault /\ link = "set" /\ RoutesHeld(Keys) \subseteq table => rest = table \ RoutesHeld(Keys)
      BY <3>1, RemovesTracked, Zenon
    <3>4. ASSUME slips' \cap {"route", "down"} = {} PROVE hand \subseteq rest
      <4>1. Kept
        BY <3>2, <3>4, Zenon DEF RouteInv
      <4> QED
        BY <3>3, <4>1 DEF Kept, RoutesHeld
    <3>5. ASSUME Undisturbed' PROVE rest = {}
      <4>1. Kept /\ Exact /\ ~fault
        BY <3>2, <3>5, Zenon DEF RouteInv, Undisturbed
      <4> QED
        BY <3>2, <3>3, <4>1, Zenon DEF Kept, Exact
    <3> QED
      BY <2>2, <3>1, <3>2, <3>4, <3>5, Zenon
  <2>9. CASE Kill
    <3>1. Release(table) /\ slips' = slips \cup {"kill"}
      BY <2>9, Zenon DEF Kill, Slip
    <3>2. slips' \cap {"route", "down"} = {} => hand \subseteq table
      BY <3>1, Zenon DEF RouteInv, Kept
    <3> QED
      BY <2>2, <3>1, <3>2, Zenon DEF Undisturbed
  <2>10. CASE up
    <3>1. /\ UNCHANGED <<table, hand, proc, peers, installed, heard>> /\ link' = "set"
          /\ slips \subseteq slips'
      BY <2>10, Zenon DEF up, memory, Slip
    <3> QED
      BY <3>1, Zenon DEF RouteInv, Kept, Exact, Undisturbed, RoutesHeld, Connected
  <2>11. CASE down
    <3>1. table' = {} /\ hand' = {} /\ "down" \in slips'
      BY <2>11, Zenon DEF down, Slip
    <3> QED
      BY <3>1, Zenon DEF RouteInv, Undisturbed
  <2>12. ASSUME NEW r \in Foreign, ByHand(r) PROVE RouteInv'
    <3>1. /\ r \notin table /\ table' = table \cup {r} /\ hand' = hand \cup {r}
          /\ UNCHANGED <<link, proc, installed>> /\ slips \subseteq slips' /\ "hand" \in slips'
      BY <2>12, Zenon DEF ByHand, memory, Slip
    <3> QED
      BY <3>1, Zenon DEF RouteInv, Kept, Undisturbed, AllRoutes
  <2>13. CASE UNCHANGED vars
    BY <2>13, Zenon DEF vars, os, memory, RouteInv, Kept, Exact, Undisturbed, RoutesHeld, Connected
  <2> QED
    BY <2>1, <2>3, <2>4, <2>5, <2>6, <2>7, <2>8, <2>9, <2>10, <2>11, <2>12, <2>13, Zenon DEF Next
<1> QED
  BY <1>1, <1>2, Inductive, MemoryInductive, DeviceInductive, PTL DEF Spec

\* Between two ticks no route leads to a configured peer that is neither connected nor
\* revoked, and a daemon that exits in good order leaves none (sync_peer_routes,
\* RouteManager::sync and remove_all), as long as no operation failed, nobody was killed,
\* and nobody else touched routes or interface.
THEOREM RoutesAlwaysSound == Spec => []RoutesSound
<1>1. Memory /\ RouteInv => RoutesSound
  <2> SUFFICES ASSUME Memory, RouteInv PROVE RoutesSound
    BY Zenon
  <2>0. Range(<<>>) = {}
    BY DEF Range
  <2>1. ASSUME Undisturbed, NEW p \in Range(Config), Range(RoutesOf(p)) \cap table # {}
        PROVE  Connected(p) \/ p \in heard
    <3>0. PICK r \in Range(RoutesOf(p)) : r \in table
      BY <2>1, Zenon
    <3>1. PICK q \in Keys : r \in Range(installed[q])
      BY <2>1, <3>0, Zenon DEF RouteInv, Exact, RoutesHeld
    <3>2. q \in Range(Config) /\ installed[q] = RoutesOf(q)
      BY <2>0, <3>1, Zenon DEF Memory, InstalledSound, Own
    <3>3. q = p
      BY <3>1, <3>2, RoutesAssumption, Zenon
    <3> QED
      BY <2>0, <2>1, <3>1, <3>3, Zenon DEF RouteInv, Exact
  <2>2. ASSUME Undisturbed, proc = Off PROVE table = {}
    <3>1. \A p \in Keys : installed[p] = <<>>
      BY <2>2, Zenon DEF Memory, InstalledSound, Serving, Off
    <3> QED
      BY <2>0, <2>2, <3>1, Zenon DEF RouteInv, Exact, RoutesHeld
  <2> QED
    BY <2>1, <2>2, Zenon DEF RoutesSound, NoBlackHole, CleanExit
<1> QED
  BY <1>1, MemoryInductive, RoutesInductive, PTL

\* A route that the user added stays, whatever peers announce, and through kills and
\* restarts (RouteManager touches only what it installed), unless a removal failed
\* half-way or the interface was deleted, after which `installed` is out of date.
THEOREM UsersRoutesAlwaysStay == Spec => []UsersRoutesStay
<1>1. RouteInv => UsersRoutesStay
  BY Zenon DEF RouteInv, Kept, UsersRoutesStay
<1> QED
  BY <1>1, RoutesInductive, PTL

\* The tables of the daemon, the device and the routes are well formed, and the tables
\* agree with members.json (run_async, on_membership_event, MembersStore).
THEOREM TablesAlwaysSound == Spec => []TablesSound
<1>1. IInv /\ Memory /\ DeviceInv /\ RouteInv => NodeTypeOK
  <2> SUFFICES ASSUME IInv, Memory, DeviceInv, RouteInv PROVE NodeTypeOK
    BY Zenon
  <2>1. Range(proc.turn) \subseteq DOMAIN peers
    BY RangeOf, Zenon DEF IInv, Turn
  <2>2. \A p \in Keys : Range(installed[p]) \subseteq Range(RoutesOf(p))
    BY DEF Memory, InstalledSound, Own, Range
  <2> QED
    BY <2>1, <2>2, Zenon DEF IInv, Turn, Known, Memory, PeersSound, DeviceInv, DeviceOK, RouteInv, NodeTypeOK
<1> QED
  BY <1>1, Inductive, MemoryInductive, DeviceInductive, RoutesInductive, TablesAlwaysAgree, PTL DEF TablesSound
=============================================================================
