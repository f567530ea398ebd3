---------------------------- MODULE DaemonProofs ----------------------------
(***************************************************************************)
(* The daemon in its host, and what it tells others of its addresses, for any *)
(* number of starts, kills and faults.                                      *)
(***************************************************************************)
EXTENDS Lifecycle, Rendezvous, FiniteSetTheorems, TLAPS

-----------------------------------------------------------------------------
(***************************************************************************)
(* Rendezvous, for all addresses, carriers, platforms, channels and tables. *)
(* No change of the addresses is forgotten on its way to the task that      *)
(* announces them, and a table of LAN nodes keeps within its bounds, goes   *)
(* only forward and keeps whom it heard of.                                 *)
(***************************************************************************)

-----------------------------------------------------------------------------
(* The way of a change to the publishing task. *)
Watches == [on : BOOLEAN, snap : SUBSET Usable, left : Nat]
Way == <<own, read, watch, events, mainLoop, kicks>>
WayTyped ==
  /\ own \subseteq Addrs /\ read \subseteq Addrs \cup Unread
  /\ watch \in Watches /\ (~watch.on => watch.left = 0)
  /\ events \in 0..EventCap /\ kicks \in 0..KickCap /\ mainLoop \in {"loop", "debounce"}
WayInv == WayTyped /\ NotForgotten

\* A step off the way, after which no fault is forgotten.
LEMMA OffTheWay ==
  ASSUME WayInv, UNCHANGED <<Way, platform>>, slips \subseteq slips'
  PROVE  WayInv'
<1>1. own' = own /\ read' = read /\ watch' = watch /\ events' = events /\ mainLoop' = mainLoop /\ kicks' = kicks /\ platform' = platform
  BY Zenon DEF Way
<1>2. WayTyped'
  BY <1>1, Zenon DEF WayInv, WayTyped
<1>3. NotForgotten'
  BY <1>1, Zenon DEF WayInv, NotForgotten, Pushes, list_global_ipv6
<1> QED BY <1>2, <1>3, Zenon DEF WayInv

\* The system changes an address: the watcher hears of it, or the next poll
\* differs from the snapshot; what it undoes between two polls is a flap.
LEMMA ChangeWay ==
  ASSUME WayInv, Change
  PROVE  WayInv'
<1>1. /\ read' = read /\ events' = events /\ mainLoop' = mainLoop /\ kicks' = kicks /\ platform' = platform
      /\ watch' = IF watch.on /\ Pushes THEN [watch EXCEPT !.left = @ + 1] ELSE watch
      /\ slips' = slips \cup (IF ~watch.on THEN {"gap"} ELSE IF Flap THEN {"flap"} ELSE {})
  BY Zenon DEF Change, fixed
<1>2. own' \subseteq Addrs
  BY Zenon DEF Change, diff_addrs, WayInv, WayTyped
<1>3. watch \in Watches /\ watch' \in Watches /\ watch'.on = watch.on /\ watch'.snap = watch.snap /\ (~watch'.on => watch'.left = 0)
  BY <1>1 DEF WayInv, WayTyped, Watches
<1>4. WayTyped'
  BY <1>1, <1>2, <1>3, Zenon DEF WayInv, WayTyped
<1>5. NotForgotten'
  <2>1. CASE ~watch.on
    <3>1. "gap" \in slips'
      BY <1>1, <2>1, Zenon
    <3> QED BY <3>1, Zenon DEF NotForgotten
  <2>2. CASE watch.on /\ Pushes
    <3>1. watch'.left = watch.left + 1 /\ watch.left \in Nat
      BY <1>1, <1>3, <2>2, Zenon DEF Watches
    <3>2. watch'.left > 0
      BY <3>1
    <3> QED BY <3>2, Zenon DEF NotForgotten
  <2>3. CASE watch.on /\ ~Pushes
    <3>1. watch' = watch /\ ~Pushes'
      BY <1>1, <2>3, Zenon DEF Pushes
    <3>2. CASE watch.snap # list_global_ipv6(own)'
      BY <2>3, <3>1, <3>2, Zenon DEF NotForgotten, list_global_ipv6
    <3>3. CASE watch.snap = list_global_ipv6(own)' /\ watch.snap # list_global_ipv6(own)
      <4>1. Flap
        BY <2>3, <3>3, Zenon DEF Flap, list_global_ipv6
      <4>2. "flap" \in slips'
        BY <1>1, <2>3, <4>1, Zenon
      <4> QED BY <4>2, Zenon DEF NotForgotten
    <3>4. CASE watch.snap = list_global_ipv6(own)' /\ watch.snap = list_global_ipv6(own)
      <4>1. list_global_ipv6(own)' = list_global_ipv6(own) /\ slips \subseteq slips'
        BY <1>1, <3>4, Zenon
      <4> QED BY <1>1, <3>1, <3>4, <4>1, Zenon DEF WayInv, NotForgotten
    <3> QED BY <3>2, <3>3, <3>4, Zenon
  <2> QED BY <2>1, <2>2, <2>3, Zenon
<1> QED BY <1>4, <1>5, Zenon DEF WayInv

\* The watcher begins to listen: what it has not heard is a gap, counted before.
LEMMA ListenWay ==
  ASSUME WayInv, Listen
  PROVE  WayInv'
<1>1. /\ own' = own /\ read' = read /\ events' = events /\ mainLoop' = mainLoop /\ kicks' = kicks /\ platform' = platform
      /\ slips' = slips /\ ~watch.on /\ watch.left = 0
      /\ watch' = [on |-> TRUE, snap |-> IF Pushes THEN {} ELSE current_global_addrs(own), left |-> 0]
  BY Zenon DEF Listen, fixed, NoSlip, WayInv, WayTyped
<1>2. (IF Pushes THEN {} ELSE current_global_addrs(own)) \in SUBSET Usable
  BY Zenon DEF current_global_addrs
<1>3. watch' \in Watches /\ watch'.on = TRUE /\ watch'.left = 0
  BY <1>1, <1>2, Zenon DEF Watches
<1>4. WayTyped'
  BY <1>1, <1>3, Zenon DEF WayInv, WayTyped
<1>5. NotForgotten'
  BY <1>1, Zenon DEF WayInv, NotForgotten
<1> QED BY <1>4, <1>5, Zenon DEF WayInv

\* Two frames that differ make at least one event.
LEMMA PollWay ==
  ASSUME WayInv, MacPoll \/ WindowsPoll
  PROVE  WayInv'
<1> DEFINE frame == own \cap Usable
           changed == diff_addrs(watch.snap, frame)
<1>1. Compare(frame)
  BY Zenon DEF MacPoll, WindowsPoll, current_global_addrs, list_global_ipv6_sync
<1>2. /\ own' = own /\ read' = read /\ events' = events /\ mainLoop' = mainLoop /\ kicks' = kicks
      /\ watch.on /\ watch.snap # frame
      /\ watch' = [watch EXCEPT !.snap = frame, !.left = Cardinality(changed)]
  BY <1>1, Zenon DEF Compare
<1>3. IsFiniteSet(changed) /\ changed # {}
  <2>1. watch.snap \subseteq Usable
    BY Zenon DEF WayInv, WayTyped, Watches
  <2>2. changed \subseteq Usable /\ changed # {}
    BY <1>2, <2>1, Zenon DEF diff_addrs
  <2> QED BY <2>2, LanAssumption, FS_Subset, Zenon
<1>4. Cardinality(changed) \in Nat /\ Cardinality(changed) # 0
  BY <1>3, FS_CardinalityType, FS_EmptySet, Zenon
<1> HIDE DEF changed
<1> DEFINE n == Cardinality(changed)
<1> HIDE DEF n
<1>5. watch' \in Watches /\ watch'.on /\ watch'.left > 0
  <2>1. n \in Nat /\ n > 0 /\ frame \in SUBSET Usable
    BY <1>4 DEF n
  <2>2. watch' = [watch EXCEPT !.snap = frame, !.left = n] /\ watch \in Watches /\ watch.on
    BY <1>2, Zenon DEF n, WayInv, WayTyped
  <2> HIDE DEF frame
  <2> QED BY <2>1, <2>2, Zenon DEF Watches
<1>6. WayTyped'
  BY <1>2, <1>5, Zenon DEF WayInv, WayTyped
<1>7. NotForgotten'
  BY <1>5, Zenon DEF NotForgotten
<1> QED BY <1>6, <1>7, Zenon DEF WayInv

\* A poll that fails ends the watcher, which is counted.
LEMMA FailWay ==
  ASSUME WayInv, PollFails
  PROVE  WayInv'
<1>1. /\ own' = own /\ read' = read /\ events' = events /\ mainLoop' = mainLoop /\ kicks' = kicks
      /\ watch' = Asleep /\ "watch" \in slips'
  BY Zenon DEF PollFails, Slip
<1>2. Asleep \in Watches /\ Asleep.left = 0
  BY Zenon DEF Asleep, Watches
<1>3. WayTyped'
  BY <1>1, <1>2, Zenon DEF WayInv, WayTyped
<1>4. NotForgotten'
  BY <1>1, Zenon DEF NotForgotten
<1> QED BY <1>3, <1>4, Zenon DEF WayInv

\* An event moves on: from the watcher to the channel, to the main loop, and
\* after the debounce to the kick channel, which is not empty then.
LEMMA LoopWay ==
  ASSUME WayInv, SendEvent \/ AddrChanged \/ Debounced
  PROVE  WayInv'
<1>1. CASE SendEvent
  <2>1. /\ own' = own /\ read' = read /\ mainLoop' = mainLoop /\ kicks' = kicks
        /\ watch.left > 0 /\ watch' = [watch EXCEPT !.left = @ - 1] /\ events < EventCap /\ events' = events + 1
    BY <1>1, Zenon DEF SendEvent
  <2>2. watch' \in Watches /\ (~watch'.on => watch'.left = 0)
    BY <2>1 DEF WayInv, WayTyped, Watches
  <2>3. events' \in 0..EventCap /\ events' > 0
    BY <2>1, RendezvousAssumption DEF WayInv, WayTyped
  <2> QED BY <2>1, <2>2, <2>3, Zenon DEF WayInv, WayTyped, NotForgotten
<1>2. CASE AddrChanged
  <2>1. events' \in 0..EventCap
    BY <1>2, RendezvousAssumption DEF AddrChanged, WayInv, WayTyped
  <2> QED BY <1>2, <2>1, Zenon DEF AddrChanged, WayInv, WayTyped, NotForgotten
<1>3. CASE Debounced
  <2>1. kicks' \in 0..KickCap /\ kicks' > 0 /\ 0 \in 0..EventCap
    BY <1>3, RendezvousAssumption DEF Debounced, try_send, WayInv, WayTyped
  <2> QED BY <1>3, <2>1, Zenon DEF Debounced, WayInv, WayTyped, NotForgotten
<1> QED BY <1>1, <1>2, <1>3, Zenon

\* A publication reads the addresses of now: nothing is left to announce.
LEMMA PublishWay ==
  ASSUME WayInv, Kicked \/ PublishTick
  PROVE  WayInv'
<1>1. own' = own /\ watch' = watch /\ events' = events /\ mainLoop' = mainLoop /\ platform' = platform
  BY Zenon DEF Kicked, PublishTick, fixed
<1>2. kicks' \in 0..KickCap
  BY RendezvousAssumption DEF Kicked, PublishTick, WayInv, WayTyped
<1>3. CASE publish_own
  <2>1. read' = list_global_ipv6(own)
    BY <1>3, Zenon DEF publish_own
  <2>2. read' = list_global_ipv6(own)' /\ read' \subseteq Addrs
    BY <1>1, <2>1, Zenon DEF list_global_ipv6, WayInv, WayTyped
  <2> QED BY <1>1, <1>2, <2>2, Zenon DEF WayInv, WayTyped, NotForgotten
<1>4. CASE Slip("enumerate") /\ read' = read
  BY <1>1, <1>2, <1>4, Zenon DEF Slip, WayInv, WayTyped, NotForgotten
<1> QED BY <1>3, <1>4, Zenon DEF Kicked, PublishTick

\* A restart forgets what was read, so that everything is new to it.
LEMMA RestartWay ==
  ASSUME WayInv, Restart
  PROVE  WayInv'
<1>1. own' = own /\ watch' = Asleep /\ events' = 0 /\ mainLoop' = "loop" /\ kicks' = 0 /\ read' = Unread
  BY Zenon DEF Restart
<1>2. Asleep \in Watches /\ Asleep.left = 0
  BY Zenon DEF Asleep, Watches
<1>3. 0 \in 0..EventCap /\ 0 \in 0..KickCap
  BY RendezvousAssumption
<1> QED BY <1>1, <1>2, <1>3, Zenon DEF WayInv, WayTyped, NotForgotten

\* At the start nothing was read yet.
LEMMA WayInit ==
  ASSUME RendezvousInit
  PROVE  WayInv
<1>1. Smallest(Addrs) \in Addrs
  BY RendezvousAssumption, Zenon DEF Smallest
<1>2. Asleep \in Watches /\ Asleep.left = 0
  BY Zenon DEF Asleep, Watches
<1>3. 0 \in 0..EventCap /\ 0 \in 0..KickCap
  BY RendezvousAssumption
<1> QED BY <1>1, <1>2, <1>3, Zenon DEF RendezvousInit, WayInv, WayTyped, NotForgotten

\* Every step keeps a change on its way.
LEMMA WayStep ==
  ASSUME WayInv, [RendezvousNext]_rendezvousVars
  PROVE  WayInv'
<1> DEFINE Away == UNCHANGED <<Way, platform>> /\ slips \subseteq slips'
<1>1. Away => WayInv'
  BY OffTheWay, Zenon
<1>2. CASE UNCHANGED rendezvousVars
  BY <1>1, <1>2, Zenon DEF rendezvousVars, Way, publisher, fixed
<1>3. CASE DhtRead \/ DhtPut \/ DdnsFind \/ DdnsSet
  <2>1. Away
    BY <1>3, Zenon DEF DhtRead, DhtPut, DdnsFind, DdnsSet, Way, fixed, NoSlip, Fault
  <2> QED BY <1>1, <2>1, Zenon
<1>4. CASE Late \/ (\E r \in Replicas : Expire(r)) \/ Scramble \/ Stranger \/ Tick
  <2>1. Away
    BY <1>4, Zenon DEF Late, Expire, Scramble, Stranger, Tick, Way, publisher, fixed, NoSlip, Fault, Slip
  <2> QED BY <1>1, <2>1, Zenon
<1>5. CASE Seeking \/ Prune \/ on_discovered \/ SeekerRestart
  <2>1. Away
    BY <1>5, Zenon DEF Seeking, Receive, DhtLookup, DdnsLookup, Prune, on_discovered, SeekerRestart, Way, publisher, fixed, NoSlip, Fault
  <2> QED BY <1>1, <2>1, Zenon
<1> HIDE DEF Away
<1> QED BY <1>2, <1>3, <1>4, <1>5, ChangeWay, ListenWay, PollWay, FailWay, LoopWay, PublishWay, RestartWay, Zenon
       DEF RendezvousNext, Publisher, Publishing

-----------------------------------------------------------------------------
(* What is on its way, and what the seeker has of it. *)
Beacons == [node : {Me, "other"}, seq : 0..MaxNow, addrs : SUBSET Usable, mac : {TRUE}]
AirInv ==
  /\ net \in Seq(Beacons) /\ Len(net) <= NetCap
  /\ now \in Nat /\ (carrier = "lan" => now <= MaxNow)
Endpoints == SUBSET Usable
Request(t) == t.pc = "ready" /\ (~Ddns => t.put.value \in Endpoints)
TaskInv ==
  /\ publication = Idle \/ (publication.pc = "found" /\ publication.eps \in Endpoints) \/ Request(publication)
  /\ late = <<>> \/ (Len(late) = 1 /\ Request(late[1]))
  /\ DOMAIN store = Replicas /\ \A r \in Replicas : store[r].value \in Endpoints
SeekInv == inbox \in Seq(Endpoints) /\ Len(inbox) <= InboxCap /\ discovered \in Endpoints
Entry(e) == e.eps \in Endpoints /\ e.seq \in 0..MaxNow /\ e.seen \in 0..now
TableOK(t) ==
  /\ IsFiniteSet(DOMAIN t) /\ Cardinality(DOMAIN t) <= MaxTracked
  /\ \A n \in DOMAIN t : Entry(t[n])
FindInv == AirInv /\ TaskInv /\ SeekInv /\ TableOK(table)

\* What is announced holds addresses that peers may use.
LEMMA EpsUsable == \A addrs : Eps(addrs) \in Endpoints
BY Zenon DEF Eps, take, usable_endpoints, Endpoints

\* A beacon of the present second is one of the beacons.
LEMMA BeaconTyped ==
  ASSUME NEW node \in {Me, "other"}, NEW addrs \in SUBSET Usable, AirInv, carrier = "lan"
  PROVE  Beacon(node, now, addrs) \in Beacons
<1>1. take(addrs, BeaconMaxAddrs) \in SUBSET Usable
  BY Zenon DEF take
<1>2. now \in 0..MaxNow
  BY RendezvousAssumption DEF AirInv
<1> QED BY <1>1, <1>2, Zenon DEF Beacon, Beacons

\* The beacons in the air, unless a step touches them or the clock.
LEMMA AirKept ==
  ASSUME AirInv, UNCHANGED <<net, now, carrier>>
  PROVE  AirInv'
BY Zenon DEF AirInv

\* The publication under way and the stored records, likewise.
LEMMA TaskKept ==
  ASSUME TaskInv, UNCHANGED <<publication, late, store, carrier>>
  PROVE  TaskInv'
BY Zenon DEF TaskInv, Request, Ddns

\* The endpoints on their way to the main loop, likewise.
LEMMA SeekKept ==
  ASSUME SeekInv, UNCHANGED <<inbox, discovered>>
  PROVE  SeekInv'
BY Zenon DEF SeekInv

\* The table of LAN nodes, likewise.
LEMMA TableKept ==
  ASSUME TableOK(table), UNCHANGED <<table, now>>
  PROVE  TableOK(table)'
BY Zenon DEF TableOK, Entry

\* The network duplicates, loses and reorders beacons, and invents none but strangers'.
LEMMA AirStep ==
  ASSUME AirInv, [RendezvousNext]_rendezvousVars
  PROVE  AirInv'
<1>1. CASE UNCHANGED <<net, now, carrier>>
  BY <1>1, AirKept, Zenon
<1>2. CASE Tick
  BY <1>2, RendezvousAssumption DEF Tick, AirInv, End, Ddns, fixed, air
<1>3. CASE Scramble
  <2>1. net # <<>> /\ net \in Seq(Beacons) /\ Len(net) \in Nat /\ Len(net) <= NetCap /\ NetCap \in Nat
        /\ now' = now /\ carrier' = carrier
    BY <1>3, RendezvousAssumption DEF Scramble, AirInv, fixed
  <2>2. Head(net) \in Beacons /\ Tail(net) \in Seq(Beacons) /\ Len(Tail(net)) = Len(net) - 1
    BY <2>1
  <2>3. Append(net, Head(net)) \in Seq(Beacons) /\ Len(Append(net, Head(net))) = Len(net) + 1
        /\ Append(Tail(net), Head(net)) \in Seq(Beacons) /\ Len(Append(Tail(net), Head(net))) = Len(net)
    BY <2>1, <2>2
  <2>4. net' \in Seq(Beacons) /\ Len(net') <= NetCap
    <3>1. CASE net' = Tail(net)
      BY <2>1, <2>2, <3>1
    <3>2. CASE Len(net) < NetCap /\ net' = Append(net, Head(net))
      BY <2>1, <2>3, <3>2
    <3>3. CASE net' = Append(Tail(net), Head(net))
      BY <2>1, <2>3, <3>3, Zenon
    <3> QED BY <1>3, <3>1, <3>2, <3>3, Zenon DEF Scramble
  <2> QED BY <2>1, <2>4, Zenon DEF AirInv
<1>4. CASE Receive
  <2>1. net # <<>> /\ net' = Tail(net) /\ net \in Seq(Beacons) /\ Len(net) <= NetCap /\ NetCap \in Nat
        /\ now' = now /\ carrier' = carrier
    BY <1>4, RendezvousAssumption, Zenon DEF Receive, AirInv, fixed
  <2>2. net' \in Seq(Beacons) /\ Len(net') <= NetCap
    BY <2>1
  <2> QED BY <2>1, <2>2, Zenon DEF AirInv
<1>5. CASE Stranger \/ Kicked \/ PublishTick
  <2>1. now' = now /\ carrier' = carrier
    BY <1>5, Zenon DEF Stranger, Kicked, PublishTick, fixed
  <2>2. \/ net' = net
        \/ carrier = "lan" /\ Len(net) < NetCap /\ \E b \in Beacons : net' = Append(net, b)
    <3>1. CASE Stranger
      BY <3>1, BeaconTyped, Zenon DEF Stranger
    <3>2. CASE publish_own /\ ToPublish
      <4>1. net' = net \/ (carrier = "lan" /\ Len(net) < NetCap /\ net' = Append(net, announce))
        BY <3>2, Zenon DEF publish_own, ToPublish
      <4>2. list_global_ipv6(own) \in SUBSET Usable
        BY Zenon DEF list_global_ipv6
      <4>3. carrier = "lan" => announce \in Beacons
        BY <4>2, BeaconTyped, Zenon DEF announce
      <4> QED BY <4>1, <4>3, Zenon
    <3> QED BY <1>5, <3>1, <3>2, Zenon DEF Kicked, PublishTick
  <2>3. ASSUME NEW b \in Beacons, Len(net) < NetCap, net' = Append(net, b)
        PROVE  net' \in Seq(Beacons) /\ Len(net') <= NetCap
    BY <2>3, RendezvousAssumption DEF AirInv
  <2> QED BY <2>1, <2>2, <2>3, Zenon DEF AirInv
<1> QED BY <1>1, <1>2, <1>3, <1>4, <1>5, Zenon
       DEF RendezvousNext, rendezvousVars, fixed, air, seeker, publisher, Publisher, Publishing, Seeking,
           Change, PollFails, Listen, MacPoll, WindowsPoll, Compare, SendEvent, AddrChanged, Debounced,
           DhtRead, DhtPut, DdnsFind, DdnsSet, Restart, Late, Expire, DhtLookup, DdnsLookup, Prune, on_discovered, SeekerRestart

\* A mutable record holds the old value or the one put.
LEMMA PutTyped ==
  ASSUME NEW rec, NEW put, rec.value \in Endpoints, put.value \in Endpoints
  PROVE  put_mutable(rec, put).value \in Endpoints
BY Zenon DEF put_mutable

\* Records hold only endpoints that some publication read, whatever arrives late.
LEMMA TaskStep ==
  ASSUME TaskInv, [RendezvousNext]_rendezvousVars
  PROVE  TaskInv'
<1>1. CASE UNCHANGED <<publication, late, store, carrier>>
  BY <1>1, TaskKept, Zenon
<1>2. CASE Kicked \/ PublishTick
  <2>1. UNCHANGED <<late, store, carrier>>
    BY <1>2, Zenon DEF Kicked, PublishTick, fixed
  <2>2. publication' = publication \/ publication' = [pc |-> "found", eps |-> Eps(own)]
    BY <1>2, Zenon DEF Kicked, PublishTick, publish_own
  <2>3. CASE publication' = publication
    BY <2>1, <2>3, TaskKept, Zenon
  <2>4. CASE publication' = [pc |-> "found", eps |-> Eps(own)]
    <3>1. publication'.pc = "found" /\ publication'.eps \in Endpoints
      BY <2>4, EpsUsable, Zenon
    <3> QED BY <2>1, <3>1, Zenon DEF TaskInv, Request, Ddns, Endpoints
  <2> QED BY <2>2, <2>3, <2>4, Zenon
<1>3. CASE DhtRead
  <2>1. PICK rec : publication' = [pc |-> "ready", put |-> publish(rec, publication.eps)]
    BY <1>3, Zenon DEF DhtRead
  <2>2. publication.eps \in Endpoints
    BY <1>3 DEF DhtRead, TaskInv, Idle, Request
  <2>3. UNCHANGED <<late, store, carrier>>
    BY <1>3, Zenon DEF DhtRead, fixed, air
  <2>4. publication'.pc = "ready" /\ publication'.put.value \in Endpoints
    BY <2>1, <2>2, Zenon DEF publish, seal
  <2> QED BY <2>3, <2>4, Zenon DEF TaskInv, Request, Ddns, Endpoints
<1>4. CASE DhtPut
  <2>1. PICK R \in Answering \cup {{}} :
          store' = [r \in Replicas |-> IF r \in R THEN put_mutable(store[r], publication.put) ELSE store[r]]
    BY <1>4, Zenon DEF DhtPut
  <2>2. publication.put.value \in Endpoints
    BY <1>4 DEF DhtPut, TaskInv, Idle, Request, Ddns
  <2>3. publication' = Idle /\ UNCHANGED <<late, carrier>>
    BY <1>4, Zenon DEF DhtPut, fixed
  <2>4. \A r \in Replicas : put_mutable(store[r], publication.put).value \in Endpoints
    BY <2>2, PutTyped, Zenon DEF TaskInv
  <2>5. DOMAIN store' = Replicas /\ \A r \in Replicas : store'[r].value \in Endpoints
    BY <2>1, <2>4, Zenon DEF TaskInv
  <2> QED BY <2>3, <2>5, Zenon DEF TaskInv, Request, Ddns, Endpoints
<1>5. CASE DdnsFind \/ DdnsSet
  <2>1. UNCHANGED <<late, store, carrier>> /\ Ddns /\ (publication' = Idle \/ publication'.pc = "ready")
    BY <1>5 DEF DdnsFind, DdnsSet, fixed, air
  <2> QED BY <2>1, Zenon DEF TaskInv, Request, Ddns, Endpoints
<1>6. CASE Restart
  <2>1. UNCHANGED <<store, carrier>> /\ publication' = Idle
    BY <1>6, Zenon DEF Restart, fixed
  <2>2. late' = late \/ (Len(late') = 1 /\ late'[1] = publication /\ publication.pc = "ready")
    BY <1>6 DEF Restart
  <2>3. publication.pc = "ready" => Request(publication)
    BY DEF TaskInv, Idle
  <2> QED BY <2>1, <2>2, <2>3, Zenon DEF TaskInv, Request, Ddns, Endpoints
<1>7. CASE Late
  <2>1. UNCHANGED <<publication, carrier>> /\ late' = <<>>
    BY <1>7, Zenon DEF Late, fixed, publisher
  <2>2. CASE Ddns
    BY <1>7, <2>1, <2>2, Zenon DEF Late, TaskInv, Request, Ddns, Endpoints
  <2>3. CASE ~Ddns
    <3>1. store' = [r \in Replicas |-> put_mutable(store[r], late[1].put)] /\ late[1].put.value \in Endpoints
      BY <1>7, <2>3, Zenon DEF Late, TaskInv, Request
    <3>2. \A r \in Replicas : put_mutable(store[r], late[1].put).value \in Endpoints
      BY <3>1, PutTyped, Zenon DEF TaskInv
    <3>3. DOMAIN store' = Replicas /\ \A r \in Replicas : store'[r].value \in Endpoints
      BY <3>1, <3>2, Zenon
    <3> QED BY <2>1, <3>3, Zenon DEF TaskInv, Request, Ddns, Endpoints
  <2> QED BY <2>2, <2>3, Zenon
<1>8. ASSUME NEW r \in Replicas, Expire(r)
      PROVE  TaskInv'
  <2>1. UNCHANGED <<publication, late, carrier>> /\ store' = [store EXCEPT ![r] = None]
    BY <1>8, Zenon DEF Expire, fixed, publisher
  <2>2. None.value \in Endpoints
    BY Zenon DEF None, Endpoints
  <2>3. DOMAIN store' = Replicas /\ \A q \in Replicas : store'[q].value \in Endpoints
    BY <2>1, <2>2, Zenon DEF TaskInv
  <2> QED BY <2>1, <2>3, Zenon DEF TaskInv, Request, Ddns, Endpoints
<1> QED BY <1>1, <1>2, <1>3, <1>4, <1>5, <1>6, <1>7, <1>8, Zenon
       DEF RendezvousNext, rendezvousVars, fixed, air, seeker, publisher, Publisher, Publishing, Seeking,
           Change, PollFails, Listen, MacPoll, WindowsPoll, Compare, SendEvent, AddrChanged, Debounced,
           Scramble, Stranger, Tick, Receive, DhtLookup, DdnsLookup, Prune, on_discovered, SeekerRestart

\* The channel of discoveries keeps within its capacity.
LEMMA SeekStep ==
  ASSUME SeekInv, [RendezvousNext]_rendezvousVars
  PROVE  SeekInv'
<1>1. CASE UNCHANGED <<inbox, discovered>>
  BY <1>1, SeekKept, Zenon
<1>2. CASE Seeking
  <2>1. discovered' = discovered /\ Len(inbox) < InboxCap
    BY <1>2, Zenon DEF Seeking, Receive, DhtLookup, DdnsLookup, Room
  <2>2. inbox' = inbox \/ \E e \in Endpoints : inbox' = Append(inbox, e)
    <3>1. \A b : endpoints(b) \in Endpoints
      BY Zenon DEF endpoints, Endpoints
    <3>2. \A rec : lookup(rec) \in Endpoints
      BY Zenon DEF lookup, open, Endpoints
    <3>3. \A t : select_endpoints(t) \in Endpoints
      BY Zenon DEF select_endpoints, open, Endpoints
    <3>4. CASE Receive
      BY <3>1, <3>4, Zenon DEF Receive
    <3>5. CASE DhtLookup
      BY <3>2, <3>5, Zenon DEF DhtLookup
    <3>6. CASE DdnsLookup
      BY <3>3, <3>6, Zenon DEF DdnsLookup
    <3> QED BY <1>2, <3>4, <3>5, <3>6, Zenon DEF Seeking
  <2>3. ASSUME NEW e \in Endpoints, inbox' = Append(inbox, e)
        PROVE  inbox' \in Seq(Endpoints) /\ Len(inbox') <= InboxCap
    BY <2>1, <2>3, RendezvousAssumption DEF SeekInv
  <2> QED BY <2>1, <2>2, <2>3, Zenon DEF SeekInv, Endpoints
<1>3. CASE on_discovered
  <2>1. inbox # <<>> /\ inbox \in Seq(Endpoints) /\ Len(inbox) <= InboxCap /\ InboxCap \in Nat
        /\ inbox' = Tail(inbox) /\ discovered' = Head(inbox)
    BY <1>3, RendezvousAssumption, Zenon DEF on_discovered, SeekInv
  <2>2. inbox' \in Seq(Endpoints) /\ Len(inbox') <= InboxCap /\ discovered' \in Endpoints
    BY <2>1
  <2> QED BY <2>2, Zenon DEF SeekInv, Endpoints
<1>4. CASE SeekerRestart
  BY <1>4, RendezvousAssumption DEF SeekerRestart, SeekInv, Endpoints
<1> QED BY <1>1, <1>2, <1>3, <1>4, Zenon
       DEF RendezvousNext, rendezvousVars, fixed, air, seeker, publisher, Publisher, Publishing,
           Change, PollFails, Listen, MacPoll, WindowsPoll, Compare, SendEvent, AddrChanged, Debounced,
           Kicked, PublishTick, DhtRead, DhtPut, DdnsFind, DdnsSet, Restart, Late, Expire,
           Scramble, Stranger, Tick, Prune

-----------------------------------------------------------------------------
(* LanTable::prune, LanTable::record, handle_datagram. *)
\* prune keeps the entries that are not older than the TTL, as they are.
LEMMA Pruned ==
  ASSUME NEW t, TableOK(t)
  PROVE  /\ TableOK(prune(t, now))
         /\ DOMAIN prune(t, now) \subseteq DOMAIN t
         /\ \A n \in DOMAIN t : now - t[n].seen <= EntryTTL => n \in DOMAIN prune(t, now)
         /\ \A n \in DOMAIN prune(t, now) : prune(t, now)[n] = t[n]
<1> DEFINE p == prune(t, now)
<1>1. DOMAIN p \subseteq DOMAIN t /\ \A n \in DOMAIN p : p[n] = t[n]
  BY Zenon DEF prune
<1>2. \A n \in DOMAIN t : now - t[n].seen <= EntryTTL => n \in DOMAIN p
  BY Zenon DEF prune
<1> HIDE DEF p
<1>3. IsFiniteSet(DOMAIN p) /\ Cardinality(DOMAIN p) <= Cardinality(DOMAIN t)
  BY <1>1, FS_Subset, Zenon DEF TableOK
<1>4. Cardinality(DOMAIN p) <= MaxTracked
  BY <1>3, FS_CardinalityType, LanAssumption DEF TableOK
<1>5. TableOK(p)
  BY <1>1, <1>3, <1>4, Zenon DEF TableOK
<1> QED BY <1>1, <1>2, <1>5, Zenon DEF p

\* An entry put in the place of another, or below the cap, keeps the table in order.
LEMMA Inserted ==
  ASSUME NEW t, TableOK(t), NEW node, NEW e, Entry(e),
         node \in DOMAIN t \/ Cardinality(DOMAIN t) < MaxTracked
  PROVE  TableOK(Insert(t, node, e))
<1> DEFINE i == Insert(t, node, e)
<1>1. DOMAIN i = DOMAIN t \cup {node} /\ \A n \in DOMAIN i : i[n] = IF n = node THEN e ELSE t[n]
  BY Zenon DEF Insert
<1> HIDE DEF i
<1>2. IsFiniteSet(DOMAIN i) /\ Cardinality(DOMAIN i) <= MaxTracked
  <2>1. IsFiniteSet(DOMAIN t) /\ Cardinality(DOMAIN t) \in Nat /\ Cardinality(DOMAIN t) <= MaxTracked /\ MaxTracked \in Nat
    BY FS_CardinalityType, LanAssumption, Zenon DEF TableOK
  <2>2. CASE node \in DOMAIN t
    <3>1. DOMAIN i = DOMAIN t
      BY <1>1, <2>2, Zenon
    <3> QED BY <2>1, <3>1, Zenon
  <2>3. CASE node \notin DOMAIN t
    <3>1. IsFiniteSet(DOMAIN t \cup {node}) /\ Cardinality(DOMAIN t \cup {node}) = Cardinality(DOMAIN t) + 1
      BY <2>1, <2>3, FS_AddElement, Zenon
    <3> QED BY <1>1, <2>1, <2>3, <3>1
  <2> QED BY <2>2, <2>3, Zenon
<1>3. \A n \in DOMAIN i : Entry(i[n])
  BY <1>1, Zenon DEF TableOK
<1> QED BY <1>2, <1>3, Zenon DEF TableOK, i

\* record keeps the table within its cap, never goes back to an earlier sequence
\* number and forgets nobody whose entry is fresh.
LEMMA Recorded ==
  ASSUME NEW t, TableOK(t), NEW node, NEW eps \in Endpoints, NEW seq \in 0..MaxNow, now \in Nat
  PROVE  LET got == record(t, node, eps, seq, now).table
         IN  /\ TableOK(got)
             /\ \A n \in DOMAIN t \cap DOMAIN got : got[n].seq >= t[n].seq
             /\ \A n \in DOMAIN t : now - t[n].seen <= EntryTTL => n \in DOMAIN got
<1> DEFINE e == [eps |-> eps, seq |-> seq, seen |-> now]
           got == record(t, node, eps, seq, now).table
           kept == IF Cardinality(DOMAIN t) >= MaxTracked THEN prune(t, now) ELSE t
<1>1. Entry(e) /\ e.seq = seq
  BY DEF Entry
<1>2. TableOK(kept) /\ DOMAIN kept \subseteq DOMAIN t /\ (\A n \in DOMAIN kept : kept[n] = t[n])
      /\ (\A n \in DOMAIN t : now - t[n].seen <= EntryTTL => n \in DOMAIN kept)
  BY Pruned, Zenon
<1>3. \A n \in DOMAIN t : t[n].seq \in Int
  BY DEF TableOK, Entry
<1>4. Cardinality(DOMAIN kept) \in Nat /\ MaxTracked \in Nat
  BY <1>2, FS_CardinalityType, LanAssumption, Zenon DEF TableOK
<1>5. \/ got = t
      \/ node \in DOMAIN t /\ ~(seq < t[node].seq) /\ got = Insert(t, node, e)
      \/ got = kept
      \/ node \notin DOMAIN t /\ Cardinality(DOMAIN kept) < MaxTracked /\ got = Insert(kept, node, e)
  <2>1. ~(Cardinality(DOMAIN kept) >= MaxTracked) => Cardinality(DOMAIN kept) < MaxTracked
    BY <1>4
  <2> QED
    BY <2>1, Zenon DEF record
<1> HIDE DEF e, got, kept
<1>6. TableOK(got)
  BY <1>1, <1>2, <1>5, Inserted, Zenon
<1>7. \A n \in DOMAIN t \cap DOMAIN got : got[n].seq >= t[n].seq
  BY <1>1, <1>2, <1>3, <1>5 DEF Insert
<1>8. \A n \in DOMAIN t : now - t[n].seen <= EntryTTL => n \in DOMAIN got
  BY <1>2, <1>5, Zenon DEF Insert
<1> QED BY <1>6, <1>7, <1>8, Zenon DEF got

\* One step of the table: it stays within its bounds, goes forward, and keeps whom it heard of.
Forward == \A n \in DOMAIN table \cap DOMAIN table' : table'[n].seq >= table[n].seq
Keeps == \A n \in DOMAIN table : now - table[n].seen <= EntryTTL /\ changes' = changes => n \in DOMAIN table'
LEMMA TableStep ==
  ASSUME AirInv, TableOK(table), changes \in Nat, [RendezvousNext]_rendezvousVars
  PROVE  TableOK(table)' /\ Forward /\ Keeps
<1>1. CASE UNCHANGED <<table, now>>
  <2>1. \A n \in DOMAIN table : table[n].seq \in Int
    BY DEF TableOK, Entry
  <2> QED BY <1>1, <2>1, TableKept DEF Forward, Keeps
<1>2. CASE Tick
  <2>1. table' = table /\ now' = now + 1 /\ now \in Nat
    BY <1>2, Zenon DEF Tick, seeker, AirInv
  <2>2. \A n \in DOMAIN table : table[n].seq \in Int
    BY DEF TableOK, Entry
  <2>3. TableOK(table)'
    BY <2>1 DEF TableOK, Entry
  <2> QED BY <2>1, <2>2, <2>3 DEF Forward, Keeps
<1>3. CASE Receive
  <2> DEFINE b == Head(net)
  <2>1. b \in Beacons /\ now' = now /\ table' = handle_datagram(table, b, "seeker", now).table
    BY <1>3 DEF Receive, AirInv
  <2>2. b.seq \in 0..MaxNow /\ endpoints(b) \in Endpoints /\ now \in Nat
    BY <2>1, Zenon DEF Beacons, endpoints, Endpoints, AirInv
  <2> HIDE DEF b
  <2>3. table' = table \/ table' = record(table, b.node, endpoints(b), b.seq, now).table
    BY <2>1, Zenon DEF handle_datagram
  <2>4. CASE table' = table
    BY <1>1, <2>1, <2>4, Zenon
  <2>5. CASE table' = record(table, b.node, endpoints(b), b.seq, now).table
    <3> DEFINE got == record(table, b.node, endpoints(b), b.seq, now).table
    <3>1. /\ TableOK(got)
          /\ \A n \in DOMAIN table \cap DOMAIN got : got[n].seq >= table[n].seq
          /\ \A n \in DOMAIN table : now - table[n].seen <= EntryTTL => n \in DOMAIN got
      BY <2>2, Recorded, Zenon
    <3> HIDE DEF got
    <3>2. table' = got
      BY <2>5, Zenon DEF got
    <3> QED BY <2>1, <3>1, <3>2, Zenon DEF Forward, Keeps, TableOK, Entry
  <2> QED BY <2>3, <2>4, <2>5, Zenon
<1>4. CASE Prune
  <2>1. table' = prune(table, now) /\ now' = now
    BY <1>4, Zenon DEF Prune
  <2>2. \A n \in DOMAIN table : table[n].seq \in Int
    BY DEF TableOK, Entry
  <2>3. TableOK(prune(table, now))
    BY Pruned, Zenon
  <2>4. TableOK(table)'
    BY <2>1, <2>3, Zenon DEF TableOK, Entry
  <2> QED BY <2>1, <2>2, <2>4, Pruned DEF Forward, Keeps
<1>5. CASE SeekerRestart
  <2>1. table' = Empty /\ now' = now /\ changes' # changes
    BY <1>5, BudgetAssumption DEF SeekerRestart, Fault, Spend
  <2>2. DOMAIN Empty = {} /\ IsFiniteSet({}) /\ Cardinality({}) = 0
    BY FS_EmptySet, Zenon DEF Empty
  <2> QED BY <2>1, <2>2, LanAssumption DEF TableOK, Entry, Forward, Keeps
<1> QED BY <1>1, <1>2, <1>3, <1>4, <1>5, Zenon
       DEF RendezvousNext, rendezvousVars, fixed, air, seeker, publisher, Publisher, Publishing, Seeking,
           Change, PollFails, Listen, MacPoll, WindowsPoll, Compare, SendEvent, AddrChanged, Debounced,
           Kicked, PublishTick, DhtRead, DhtPut, DdnsFind, DdnsSet, Restart, Late, Expire,
           Scramble, Stranger, DhtLookup, DdnsLookup, on_discovered

-----------------------------------------------------------------------------
RendezvousInv == WayInv /\ FindInv /\ changes \in Nat

\* The invariant holds at the start.
LEMMA RendezvousInitOK ==
  ASSUME RendezvousInit
  PROVE  RendezvousInv
<1>1. AirInv
  BY RendezvousAssumption DEF RendezvousInit, AirInv
<1>2. TaskInv
  BY Zenon DEF RendezvousInit, TaskInv, None, Endpoints
<1>3. SeekInv
  BY RendezvousAssumption DEF RendezvousInit, SeekInv, Endpoints
<1>4. TableOK(table)
  <2>1. table = Empty
    BY Zenon DEF RendezvousInit
  <2>2. DOMAIN Empty = {} /\ IsFiniteSet({}) /\ Cardinality({}) = 0
    BY FS_EmptySet, Zenon DEF Empty
  <2> QED BY <2>1, <2>2, LanAssumption DEF TableOK
<1>5. changes \in Nat
  BY Zenon DEF RendezvousInit
<1> QED BY <1>1, <1>2, <1>3, <1>4, <1>5, WayInit, Zenon DEF RendezvousInv, FindInv

\* Every step keeps the invariant, and is a step of the table as above.
LEMMA RendezvousStep ==
  ASSUME RendezvousInv, [RendezvousNext]_rendezvousVars
  PROVE  RendezvousInv' /\ Forward /\ Keeps
<1>1. changes' \in Nat
  <2>1. changes' = changes \/ changes' = changes + 1
    BY Zenon DEF RendezvousNext, rendezvousVars, Publisher, Publishing, Seeking, Spend, NoSlip, Fault, Slip,
           Change, PollFails, Listen, MacPoll, WindowsPoll, Compare, SendEvent, AddrChanged, Debounced,
           Kicked, PublishTick, DhtRead, DhtPut, DdnsFind, DdnsSet, Restart, Late, Expire, Receive, Prune,
           Scramble, Stranger, Tick, DhtLookup, DdnsLookup, on_discovered, SeekerRestart
  <2> QED BY <2>1 DEF RendezvousInv
<1> QED BY <1>1, WayStep, AirStep, TaskStep, SeekStep, TableStep, Zenon DEF RendezvousInv, FindInv

\* The invariant holds in every state.
LEMMA RendezvousInvariant == RendezvousSpec => []RendezvousInv
BY RendezvousInitOK, RendezvousStep, PTL DEF RendezvousSpec

\* While the watcher listens and nothing slipped past it, an address change that
\* was not announced yet is on its way: in the watcher, in the channel, in the
\* debounce or in the kick channel of the publisher (daemon.rs, addr_watch).
THEOREM RendezvousNotForgotten == RendezvousSpec => []NotForgotten
<1>1. RendezvousInv => NotForgotten
  BY Zenon DEF RendezvousInv, WayInv
<1> QED BY <1>1, RendezvousInvariant, PTL

\* The invariant gives every variable its type.
LEMMA RendezvousTyped ==
  ASSUME RendezvousInv
  PROVE  RendezvousTypeOK
<1>1. own \subseteq Addrs /\ read \subseteq Addrs \cup Unread /\ watch.snap \subseteq Usable
      /\ events \in 0..EventCap /\ kicks \in 0..KickCap /\ mainLoop \in {"loop", "debounce"}
  BY Zenon DEF RendezvousInv, WayInv, WayTyped, Watches
<1>2. publication.pc \in {"idle", "found", "ready"} /\ Len(late) <= 1 /\ \A r \in Replicas : store[r].value \subseteq Usable
  BY DEF RendezvousInv, FindInv, TaskInv, Idle, Request, Endpoints
<1>3. Len(net) <= NetCap /\ Len(inbox) <= InboxCap /\ discovered \subseteq Usable
  BY Zenon DEF RendezvousInv, FindInv, AirInv, SeekInv, Endpoints
<1>4. /\ \A n \in DOMAIN table : table[n].eps \subseteq Usable /\ table[n].seq <= MaxNow /\ table[n].seen <= now
      /\ Cardinality(DOMAIN table) <= MaxTracked
  BY DEF RendezvousInv, FindInv, AirInv, TableOK, Entry, Endpoints
<1> QED BY <1>1, <1>2, <1>3, <1>4, Zenon DEF RendezvousTypeOK

\* The table of LAN nodes (LanTable::record, prune) never goes back to an earlier
\* sequence number, keeps whoever it heard of within the TTL and stays within its
\* cap, whatever beacons are duplicated, delayed or reordered.
THEOREM RendezvousLanTable == RendezvousSpec => LanTableSound
<1>1. RendezvousInv /\ [RendezvousNext]_rendezvousVars => [Forward]_rendezvousVars /\ [Keeps]_rendezvousVars
  BY RendezvousStep, Zenon
<1>2. RendezvousSpec => [][Forward]_rendezvousVars /\ [][Keeps]_rendezvousVars
  BY <1>1, RendezvousInvariant, PTL DEF RendezvousSpec
<1>3. RendezvousSpec => []RendezvousTypeOK
  BY RendezvousTyped, RendezvousInvariant, PTL
<1>4. ([][Forward]_rendezvousVars => LanNeverBack) /\ ([][Keeps]_rendezvousVars => KnownKept)
  BY Zenon DEF Forward, Keeps, LanNeverBack, KnownKept
<1> QED BY <1>2, <1>3, <1>4, Zenon DEF LanTableSound

-----------------------------------------------------------------------------
(***************************************************************************)
(* Lifecycle.  No daemon gets out of its host's reach: the callbacks of     *)
(* HextetVpnService, the registry of engine-ffi, the Windows service and    *)
(* `hextet daemon`.  And the state file is whole and what its readers report *)
(* is true.                                                                 *)
(***************************************************************************)

\* Whoever is at work is in the registry or waited for (Android).  Unless a
\* second daemon was started beside the first, it is the one whose handle the
\* service holds or the thread waits for, and the service forgets the handle it
\* waits for.  Elsewhere nothing is at work once the service is gone.
Shape == /\ DOMAIN task = Daemons /\ DOMAIN service = {"made", "handle", "stop", "sticky"}
         /\ DOMAIN main = {"waits", "for"}
Reached == host = "android" => \A d \in Live : d \in registry \/ main.waits = d
Held == host = "android" /\ "two daemons" \notin slips =>
          /\ \A d \in Live : d = service.handle \/ d = main.waits
          /\ main.waits # 0 => service.handle = 0
          /\ ~service.made => service.handle = 0
Ended == host # "android" /\ ~service.made => Live = {}
LifecycleInv == Shape /\ Reached /\ Held /\ Ended

\* 0 is no handle.
LEMMA Handles == 0 \notin Live
BY DEF Live, Daemons

\* No daemon is at work at the start, and none is waited for.
LEMMA NothingAtStart ==
  ASSUME LifecycleInit
  PROVE  /\ DOMAIN task = Daemons /\ Live = {}
         /\ DOMAIN service = {"made", "handle", "stop", "sticky"} /\ service.handle = 0
         /\ DOMAIN main = {"waits", "for"} /\ main.waits = 0
<1>1. DOMAIN task = Daemons /\ Live = {}
  <2>1. task = [d \in Daemons |-> "none"]
    BY Zenon DEF LifecycleInit
  <2> QED
    BY <2>1, Zenon DEF Live
<1>2. DOMAIN service = {"made", "handle", "stop", "sticky"} /\ service.handle = 0
  <2>1. service = [made |-> FALSE, handle |-> 0, stop |-> FALSE, sticky |-> FALSE]
    BY Zenon DEF LifecycleInit
  <2> QED
    BY <2>1, Zenon
<1>3. DOMAIN main = {"waits", "for"} /\ main.waits = 0
  <2>1. main = [waits |-> 0, for |-> "nothing"]
    BY Zenon DEF LifecycleInit
  <2> QED
    BY <2>1, Zenon
<1> QED
  BY <1>1, <1>2, <1>3, Zenon

\* A step that leaves all this alone, or only ends daemons.
LEMMA FewerAtWork ==
  ASSUME LifecycleInv, UNCHANGED <<host, registry, service, main>>, DOMAIN task' = Daemons,
         Live' \subseteq Live, "two daemons" \in slips => "two daemons" \in slips'
  PROVE  LifecycleInv'
<1>1. Shape'
  BY Zenon DEF LifecycleInv, Shape
<1>2. Reached'
  BY Zenon DEF LifecycleInv, Reached
<1>3. Held'
  BY Zenon DEF LifecycleInv, Held
<1>4. Ended'
  BY Zenon DEF LifecycleInv, Ended
<1> QED
  BY <1>1, <1>2, <1>3, <1>4, Zenon DEF LifecycleInv

\* The tasks of the runtime: a daemon that fails, starts, writes or ends.
LEMMA RuntimeKeeps ==
  ASSUME LifecycleInv, NEW d \in Daemons, DaemonSteps(d)
  PROVE  LifecycleInv'
<1>1. UNCHANGED <<host, registry, service, main, slips>>
  BY Zenon DEF DaemonSteps, StartFails, Started, GossipBinds, TickOpens, TickWrites, TickRenames, LoopBreaks
<1>2. /\ DOMAIN task' = Daemons
      /\ \A e \in Daemons : task'[e] \in {"starting", "running"} => task[e] \in {"starting", "running"}
  BY Zenon DEF DaemonSteps, StartFails, Started, GossipBinds, TickOpens, TickWrites, TickRenames, LoopBreaks,
         LifecycleInv, Shape
<1>3. Live' \subseteq Live
  BY <1>2, Zenon DEF Live
<1> QED
  BY <1>1, <1>2, <1>3, FewerAtWork, Zenon

\* spawn_with_transport adds one daemon.
LEMMA Spawned ==
  ASSUME Shape, NEW d \in Daemons, spawn_with_transport(d)
  PROVE  DOMAIN task' = Daemons /\ Live' = Live \cup {d}
BY Zenon DEF Shape, spawn_with_transport, Live

\* A process that is gone has no daemon.
LEMMA NoneAfterwards ==
  ASSUME NoProcess
  PROVE  DOMAIN task' = Daemons /\ Live' = {}
BY Zenon DEF NoProcess, Live

\* The callbacks that start a daemon.
LEMMA StartKeeps ==
  ASSUME LifecycleInv, NEW d \in Daemons, OnStartCommand(d)
  PROVE  LifecycleInv'
<1>1. /\ host = "android" /\ host' = host /\ main' = main /\ main.waits = 0
      /\ registry' = registry \cup {d}
      /\ service' = [made |-> TRUE, handle |-> d, stop |-> FALSE, sticky |-> TRUE]
      /\ slips' = IF Live = {} THEN slips ELSE slips \cup {"two daemons"}
      /\ spawn_with_transport(d)
  BY Zenon DEF OnStartCommand, Starting, NotWaiting, daemon_spawn_with_fd
<1>2. DOMAIN task' = Daemons /\ Live' = Live \cup {d}
  BY <1>1, Spawned, Zenon DEF LifecycleInv
<1>3. Shape'
  BY <1>1, <1>2, Zenon DEF LifecycleInv, Shape
<1>4. Reached'
  BY <1>1, <1>2, Zenon DEF LifecycleInv, Reached
<1>5. Held'
  BY <1>1, <1>2, Zenon DEF LifecycleInv, Held
<1>6. Ended'
  BY <1>1, Zenon DEF Ended
<1> QED
  BY <1>3, <1>4, <1>5, <1>6, Zenon DEF LifecycleInv

\* `hextet daemon` and the Windows service start one.
LEMMA RunKeeps ==
  ASSUME LifecycleInv, Run \/ ServiceRuns
  PROVE  LifecycleInv'
<1>1. /\ host # "android" /\ host' = host /\ spawn_with_transport(1)
      /\ service' = [service EXCEPT !.made = TRUE]
      /\ main' = main \/ main' = [waits |-> 1, for |-> "exit"]
  BY Zenon DEF Run, ServiceRuns
<1>2. 1 \in Daemons
  BY LifecycleAssumption DEF Daemons
<1>3. DOMAIN task' = Daemons
  BY <1>1, <1>2, Spawned, Zenon DEF LifecycleInv
<1>4. Shape'
  BY <1>1, <1>3, Zenon DEF LifecycleInv, Shape
<1>5. Ended'
  BY <1>1, Zenon DEF LifecycleInv, Shape, Ended
<1>6. Reached' /\ Held'
  BY <1>1, Zenon DEF Reached, Held
<1> QED
  BY <1>4, <1>5, <1>6, Zenon DEF LifecycleInv

\* onDestroy and onRevoke: the handle goes from the service to the waiting
\* thread.  Without a handle in the registry nothing is at work.
LEMMA ShutdownKeeps ==
  ASSUME LifecycleInv, OnDestroy \/ OnRevoke
  PROVE  LifecycleInv'
<1>1. host = "android" /\ host' = host /\ slips' = slips /\ main.waits = 0
  BY Zenon DEF OnDestroy, OnRevoke, NotWaiting
<1>2. ASSUME NEW for, daemon_shutdown(service.handle, for), service' = [service EXCEPT !.handle = 0]
      PROVE  LifecycleInv'
  <2>1. /\ registry' = registry \ {service.handle} /\ task' = task
        /\ main' = [waits |-> service.handle, for |-> for]
    BY <1>2, Zenon DEF daemon_shutdown
  <2>2. Live' = Live
    BY <2>1, Zenon DEF Live
  <2>3. Shape'
    BY <1>2, <2>1, Zenon DEF LifecycleInv, Shape
  <2>4. Reached'
    <3>1. \A d \in Live : d # 0
      BY Handles, Zenon
    <3>2. main'.waits = service.handle
      BY <2>1, Zenon
    <3> QED
      BY <1>1, <2>1, <2>2, <3>1, <3>2, Zenon DEF LifecycleInv, Reached
  <2>5. Held'
    BY <1>1, <1>2, <2>1, <2>2, Zenon DEF LifecycleInv, Held, Shape
  <2>6. Ended'
    BY <1>1, Zenon DEF Ended
  <2> QED
    BY <2>3, <2>4, <2>5, <2>6, Zenon DEF LifecycleInv
<1>3. ASSUME service.handle \notin registry, service' = Gone, UNCHANGED <<process, main>>
      PROVE  LifecycleInv'
  <2>1. task' = task /\ registry' = registry /\ main' = main
    BY <1>3, Zenon DEF process
  <2>2. Live' = Live
    BY <2>1, Zenon DEF Live
  <2>3. \A d \in Live : d # 0
    BY Handles, Zenon
  <2>4. Shape'
    BY <1>3, <2>1, Zenon DEF LifecycleInv, Shape, Gone
  <2>5. Reached'
    BY <1>1, <2>1, <2>2, Zenon DEF LifecycleInv, Reached
  <2>6. Held'
    <3> SUFFICES ASSUME "two daemons" \notin slips PROVE Live = {}
      BY <1>1, <1>3, <2>1, <2>2, Zenon DEF Held, Gone
    <3> QED
      BY <1>1, <1>3, <2>3, Zenon DEF LifecycleInv, Held, Reached
  <2>7. Ended'
    BY <1>1, Zenon DEF Ended
  <2> QED
    BY <2>4, <2>5, <2>6, <2>7, Zenon DEF LifecycleInv
<1> QED
  BY <1>2, <1>3, Zenon DEF OnDestroy, OnRevoke

\* The daemon waited for has ended: nobody else is at work, or the handle that
\* was overwritten is the exception of Held.
LEMMA JoinedKeeps ==
  ASSUME LifecycleInv, Joined
  PROVE  LifecycleInv'
<1>1. /\ host' = host /\ slips' = slips /\ main.waits # 0 /\ main.waits \notin Live
      /\ main' = [waits |-> 0, for |-> "nothing"]
      /\ \/ service' = [service EXCEPT !.stop = TRUE, !.sticky = FALSE] /\ UNCHANGED process
         \/ service' = Gone /\ host = "android" /\ UNCHANGED process
         \/ service' = Gone /\ host # "android" /\ NoProcess
  BY Zenon DEF Joined, NotWaiting, Live
<1>2. CASE UNCHANGED process
  <2>1. task' = task /\ registry' = registry
    BY <1>2, Zenon DEF process
  <2>2. Live' = Live
    BY <2>1, Zenon DEF Live
  <2>3. Shape'
    BY <1>1, <2>1, Zenon DEF LifecycleInv, Shape, Gone
  <2>4. \A d \in Live : d # 0
    BY Handles, Zenon
  <2>5. Reached'
    BY <1>1, <2>1, <2>2, Zenon DEF LifecycleInv, Reached
  <2>6. host = "android" /\ "two daemons" \notin slips => Live = {} /\ service.handle = 0
    BY <1>1, <2>4, Zenon DEF LifecycleInv, Held
  <2>7. service'.handle \in {service.handle, 0}
    <3>1. CASE service' = Gone
      BY <3>1, Zenon DEF Gone
    <3>2. CASE service' = [service EXCEPT !.stop = TRUE, !.sticky = FALSE]
      BY <3>2, Zenon DEF LifecycleInv, Shape
    <3> QED
      BY <1>1, <3>1, <3>2, Zenon
  <2>8. Held'
    BY <1>1, <2>2, <2>6, <2>7, Zenon DEF Held
  <2>9. Ended'
    <3>1. CASE host = "android"
      BY <1>1, <3>1, Zenon DEF Ended
    <3>2. CASE host # "android" /\ service' = [service EXCEPT !.stop = TRUE, !.sticky = FALSE]
      BY <1>1, <2>2, <3>2, Zenon DEF LifecycleInv, Shape, Ended
    <3>3. CASE NoProcess
      BY <3>3, NoneAfterwards, Zenon DEF Ended
    <3> QED
      BY <1>1, <3>1, <3>2, <3>3, Zenon
  <2> QED
    BY <2>3, <2>5, <2>8, <2>9, Zenon DEF LifecycleInv
<1>3. CASE service' = Gone /\ NoProcess /\ host # "android"
  BY <1>1, <1>3, NoneAfterwards, Zenon DEF LifecycleInv, Shape, Reached, Held, Ended, Gone
<1> QED
  BY <1>1, <1>2, <1>3, Zenon

\* A kill leaves nothing.
LEMMA KilledKeeps ==
  ASSUME LifecycleInv, Killed
  PROVE  LifecycleInv'
<1>1. /\ DOMAIN task' = Daemons /\ Live' = {}
      /\ main' = [waits |-> 0, for |-> "nothing"]
      /\ service' = [Gone EXCEPT !.sticky = service.sticky]
  BY NoneAfterwards, Zenon DEF Killed
<1>2. service'.handle = 0 /\ DOMAIN service' = {"made", "handle", "stop", "sticky"}
  BY <1>1, Zenon DEF Gone
<1> QED
  BY <1>1, <1>2, Zenon DEF LifecycleInv, Shape, Reached, Held, Ended

\* The steps that change neither the daemons nor the handles.
LEMMA OtherHandlersKeep ==
  ASSUME LifecycleInv, \/ GossipEnds \/ Signal \/ ServiceStops \/ OnStartFails \/ StopService
               \/ Handshake \/ Second \/ (\E t \in Secs : ClockSet(t)) \/ UNCHANGED lifecycleVars
  PROVE  LifecycleInv'
<1>1. CASE GossipEnds \/ Signal \/ Handshake \/ Second \/ (\E t \in Secs : ClockSet(t)) \/ UNCHANGED lifecycleVars
  <2>1. UNCHANGED <<host, registry, service, main, task>>
    BY <1>1, Zenon DEF GossipEnds, Signal, Handshake, Second, ClockSet, lifecycleVars, process
  <2>2. "two daemons" \in slips => "two daemons" \in slips'
    BY <1>1, Zenon DEF GossipEnds, Signal, Handshake, Second, ClockSet, lifecycleVars
  <2>3. Live' = Live /\ DOMAIN task' = Daemons
    BY <2>1, Zenon DEF Live, LifecycleInv, Shape
  <2> QED
    BY <2>1, <2>2, <2>3, FewerAtWork, ZenonT(30)
<1>2. CASE ServiceStops
  <2>1. /\ host = "windows" /\ UNCHANGED <<host, registry, service, task>>
        /\ main' = [waits |-> 1, for |-> "stopped"]
    BY <1>2, Zenon DEF ServiceStops
  <2>2. Live' = Live
    BY <2>1, Zenon DEF Live
  <2> QED
    BY <2>1, <2>2, Zenon DEF LifecycleInv, Shape, Reached, Held, Ended
<1>3. CASE OnStartFails \/ StopService
  <2>1. /\ host = "android" /\ UNCHANGED <<host, registry, main, task, slips>>
        /\ DOMAIN service' = {"made", "handle", "stop", "sticky"}
        /\ service'.handle = service.handle /\ service'.made = TRUE
    BY <1>3, Zenon DEF OnStartFails, StopService, Starting, process, LifecycleInv, Shape
  <2>2. Live' = Live
    BY <2>1, Zenon DEF Live
  <2> QED
    BY <2>1, <2>2, Zenon DEF LifecycleInv, Shape, Reached, Held, Ended
<1> QED
  BY <1>1, <1>2, <1>3, Zenon

\* LifecycleInv holds in every state.
LEMMA LifecycleInductive == LifecycleSpec => []LifecycleInv
<1>1. LifecycleInit => LifecycleInv
  BY NothingAtStart, Zenon DEF LifecycleInv, Shape, Reached, Held, Ended
<1>2. LifecycleInv /\ [LifecycleNext]_lifecycleVars => LifecycleInv'
  <2> SUFFICES ASSUME LifecycleInv, [LifecycleNext]_lifecycleVars PROVE LifecycleInv'
    BY Zenon
  <2> QED
    BY RuntimeKeeps, StartKeeps, RunKeeps, ShutdownKeeps, JoinedKeeps, KilledKeeps, OtherHandlersKeep, Zenon DEF LifecycleNext
<1> QED
  BY <1>1, <1>2, PTL DEF LifecycleSpec

\* No daemon is out of its host's reach.  One of the Android app can always be
\* stopped through the FFI, however often the service was started: daemonHandle
\* may be overwritten, the registry of engine-ffi keeps the handle until
\* daemon_shutdown waits for it.  And when onDestroy has returned or the service
\* manager was told "stopped", no daemon is at work, unless the service was
\* started beside a running one.
THEOREM NoneEverLeftBehind == LifecycleSpec => []NoneLeftBehind
<1>1. \A d \in Live : d # 0
  BY Handles, Zenon
<1>2. LifecycleInv => StopsCleanly
  BY <1>1, Zenon DEF LifecycleInv, Held, Ended, StopsCleanly, NotWaiting
<1>3. LifecycleInv => HandleKept
  BY Zenon DEF LifecycleInv, Reached, HandleKept
<1> QED
  BY <1>2, <1>3, LifecycleInductive, PTL DEF NoneLeftBehind

-----------------------------------------------------------------------------
(* The state file.                                                         *)

\* One daemon at a time, and where its temporary file stands.  No daemon of the
\* other hosts has another handle than 1.
Sole == host # "android" => \A d \in Live : d = 1
Open(d) ==
  /\ task[d] = "running" /\ writer[d].at = "tmp" /\ DOMAIN writer[d] = {"at", "written"}
  /\ writer[d].written => files.tmp.kind = "whole"
Writing == "two daemons" \notin slips =>
  /\ DOMAIN writer = Daemons /\ DOMAIN files = {"path", "tmp"} /\ files.path.kind # "torn"
  /\ \A d \in Daemons : writer[d] = Closed \/ Open(d)

\* Two daemons at work are one, as long as none was started beside another.
LEMMA OneAtWork ==
  ASSUME LifecycleInv, Sole, "two daemons" \notin slips, NEW d \in Live, NEW e \in Live
  PROVE  d = e
BY Handles, Zenon DEF LifecycleInv, Held, Sole

\* Sole is kept: only onStartCommand spawns another handle than 1.
LEMMA SoleKept ==
  ASSUME LifecycleInv, Sole, [LifecycleNext]_lifecycleVars
  PROVE  Sole'
<1>1. host' = host
  BY Zenon DEF LifecycleNext, lifecycleVars, DaemonSteps, StartFails, Started, GossipBinds, TickOpens, TickWrites, TickRenames,
         LoopBreaks, OnStartCommand, GossipEnds, Run, Signal, ServiceRuns, ServiceStops, OnStartFails,
         StopService, OnDestroy, OnRevoke, Joined, Killed, Handshake, Second, ClockSet
<1>2. CASE host = "android"
  BY <1>1, <1>2, Zenon DEF Sole
<1>3. CASE host # "android"
  <2>1. CASE Run \/ ServiceRuns
    <3>1. 1 \in Daemons
      BY LifecycleAssumption DEF Daemons
    <3>2. Live' = Live \cup {1}
      BY <2>1, <3>1, Spawned, Zenon DEF Run, ServiceRuns, LifecycleInv
    <3> QED
      BY <1>1, <3>2, Zenon DEF Sole
  <2>2. CASE NoProcess
    BY <2>2, NoneAfterwards, Zenon DEF Sole
  <2>3. ASSUME NEW d \in Daemons, DaemonSteps(d) PROVE Sole'
    <3>1. \A e \in Daemons : task'[e] \in {"starting", "running"} => task[e] \in {"starting", "running"}
      BY <2>3, Zenon DEF DaemonSteps, StartFails, Started, GossipBinds, TickOpens, TickWrites, TickRenames,
                  LoopBreaks, LifecycleInv, Shape
    <3> QED
      BY <1>1, <3>1, Zenon DEF Sole, Live
  <2>4. CASE task' = task
    BY <1>1, <2>4, Zenon DEF Sole, Live
  <2>5. \/ Run \/ ServiceRuns \/ NoProcess \/ (\E d \in Daemons : DaemonSteps(d)) \/ task' = task
    BY <1>3, Zenon DEF LifecycleNext, lifecycleVars, process, OnStartCommand, Starting, GossipEnds, Signal, ServiceStops,
                OnStartFails, StopService, OnDestroy, OnRevoke, Joined, Killed, Handshake, Second, ClockSet
  <2> QED
    BY <2>1, <2>2, <2>3, <2>4, <2>5, Zenon
<1> QED
  BY <1>2, <1>3, Zenon

\* A spawned daemon has written nothing; a process that is gone has no file open.
LEMMA SpawnWrites ==
  ASSUME LifecycleInv, Writing, NEW d \in Daemons, spawn_with_transport(d), files' = files,
         "two daemons" \in slips => "two daemons" \in slips'
  PROVE  Writing'
<1>1. task[d] = "none" /\ writer' = writer /\ task' = [task EXCEPT ![d] = "starting"]
  BY Zenon DEF spawn_with_transport
<1> QED
  BY <1>1, Zenon DEF LifecycleInv, Shape, Writing, Open

\* NoProcess closes every temporary file, and the state file stays as it is.
LEMMA GoneWrites ==
  ASSUME Writing, NoProcess, files' = files, slips' = slips
  PROVE  Writing'
BY Zenon DEF Writing, Open, NoProcess

\* The three steps of atomic.rs, and the ends of tasks.
LEMMA RuntimeWrites ==
  ASSUME LifecycleInv, Sole, Writing, NEW d \in Daemons, DaemonSteps(d)
  PROVE  Writing'
<1> SUFFICES ASSUME "two daemons" \notin slips PROVE Writing'
  <2>1. slips' = slips
    BY Zenon DEF DaemonSteps, StartFails, Started, GossipBinds, TickOpens, TickWrites, TickRenames, LoopBreaks
  <2> QED
    BY <2>1, Zenon DEF Writing
<1>0. /\ DOMAIN writer = Daemons /\ DOMAIN files = {"path", "tmp"} /\ files.path.kind # "torn"
      /\ \A e \in Daemons : writer[e] = Closed \/ Open(e)
  BY Zenon DEF Writing
<1>a. \A e \in Daemons : e # d /\ task[d] = "running" => writer[e] = Closed
  <2> SUFFICES ASSUME NEW e \in Daemons, task[d] = "running", task[e] = "running" PROVE e = d
    BY <1>0, Zenon DEF Open
  <2>1. d \in Live /\ e \in Live
    BY Zenon DEF Live
  <2> QED
    BY <2>1, OneAtWork, Zenon
<1>1. CASE StartFails(d) \/ Started(d)
  <2>1. /\ task[d] = "starting" /\ writer' = writer /\ files' = files
        /\ task' = [task EXCEPT ![d] = "failed"] \/ task' = [task EXCEPT ![d] = "running"]
    BY <1>1, Zenon DEF StartFails, Started
  <2> QED
    BY <1>0, <2>1, Zenon DEF LifecycleInv, Shape, Writing, Open
<1>2. CASE GossipBinds(d)
  BY <1>0, <1>2, Zenon DEF GossipBinds, Writing, Open
<1>3. CASE LoopBreaks(d)
  <2>1. /\ task[d] = "running" /\ writer[d] = Closed /\ writer' = writer /\ files' = files
        /\ task' = [task EXCEPT ![d] = "ended"]
    BY <1>3, Zenon DEF LoopBreaks
  <2> QED
    BY <1>0, <2>1, Zenon DEF LifecycleInv, Shape, Writing, Open
<1>4. CASE TickOpens(d)
  <2>1. /\ task[d] = "running" /\ task' = task /\ files' = [files EXCEPT !.tmp = Torn]
        /\ writer' = [writer EXCEPT ![d] = [at |-> "tmp", written |-> FALSE]]
    BY <1>4, Zenon DEF TickOpens, open_tmp
  <2>2. DOMAIN writer' = Daemons /\ DOMAIN files' = {"path", "tmp"} /\ files'.path.kind # "torn"
    BY <1>0, <2>1, Zenon
  <2>3. Open(d)'
    BY <1>0, <2>1, Zenon DEF Open
  <2>4. \A e \in Daemons : e # d => writer'[e] = Closed
    BY <1>0, <1>a, <2>1, Zenon
  <2>5. Closed' = Closed
    BY Zenon DEF Closed
  <2> QED
    BY <2>2, <2>3, <2>4, <2>5, Zenon DEF Writing
<1>5. CASE TickWrites(d)
  <2>1. Open(d)
    BY <1>0, <1>5, Zenon DEF TickWrites
  <2>2. PICK c : c.kind = "whole" /\ files' = [files EXCEPT !.tmp = c]
    BY <1>5, <2>1, Zenon DEF TickWrites, Open, write_all, Whole
  <2>3. task[d] = "running" /\ task' = task /\ writer' = [writer EXCEPT ![d].written = TRUE]
    BY <1>5, <2>1, Zenon DEF TickWrites, Open
  <2>4. DOMAIN writer' = Daemons /\ DOMAIN files' = {"path", "tmp"} /\ files'.path.kind # "torn"
    BY <1>0, <2>2, <2>3, Zenon
  <2>5. Open(d)'
    BY <1>0, <2>1, <2>2, <2>3, Zenon DEF Open
  <2>6. \A e \in Daemons : e # d => writer'[e] = Closed
    BY <1>0, <1>a, <2>3, Zenon
  <2>7. Closed' = Closed
    BY Zenon DEF Closed
  <2> QED
    BY <2>4, <2>5, <2>6, <2>7, Zenon DEF Writing
<1>6. CASE TickRenames(d)
  <2>1. writer[d] # Closed
    <3>1. writer[d].written
      BY <1>6, Zenon DEF TickRenames
    <3>2. ~Closed.written
      BY Zenon DEF Closed
    <3> QED
      BY <3>1, <3>2, Zenon
  <2>2. Open(d) /\ files.tmp.kind = "whole"
    BY <1>0, <1>6, <2>1, Zenon DEF TickRenames, Open
  <2>3. files' = [path |-> files.tmp, tmp |-> Absent]
    BY <1>6, <2>2, Zenon DEF TickRenames, rename
  <2>4. writer' = [e \in Daemons |-> IF e = d THEN Closed ELSE [writer[e] EXCEPT !.at = Renamed(files, @)]]
    BY <1>6, Zenon DEF TickRenames
  <2>5. Renamed(files, "closed") = "closed"
    BY Zenon DEF Renamed
  <2>6. [Closed EXCEPT !.at = Renamed(files, @)] = Closed
    <3>1. ASSUME NEW S, NEW r \in [at : {"closed"}, written : S]
          PROVE  r.at = "closed" /\ [r EXCEPT !.at = "closed"] = r
      BY Zenon
    <3>2. Closed \in [at : {"closed"}, written : {FALSE}]
      BY Zenon DEF Closed
    <3> QED
      BY <2>5, <3>1, <3>2, Zenon
  <2>7. \A e \in Daemons : writer'[e] = Closed
    BY <1>a, <2>2, <2>4, <2>6, Zenon DEF Open
  <2>8. Closed' = Closed
    BY Zenon DEF Closed
  <2> QED
    BY <2>2, <2>3, <2>4, <2>7, <2>8, Zenon DEF Writing
<1> QED
  BY <1>1, <1>2, <1>3, <1>4, <1>5, <1>6, Zenon DEF DaemonSteps

\* Every step keeps the one writer's place.
LEMMA WritingKept ==
  ASSUME LifecycleInv, Sole, Writing, [LifecycleNext]_lifecycleVars
  PROVE  Writing'
<1>1. ASSUME NEW d \in Daemons, OnStartCommand(d) PROVE Writing'
  BY <1>1, SpawnWrites, Zenon DEF OnStartCommand, daemon_spawn_with_fd
<1>2. CASE Run \/ ServiceRuns
  <2>1. 1 \in Daemons
    BY LifecycleAssumption DEF Daemons
  <2> QED
    BY <1>2, <2>1, SpawnWrites, Zenon DEF Run, ServiceRuns
<1>3. CASE (Joined \/ Killed) /\ NoProcess
  BY <1>3, GoneWrites, Zenon DEF Joined, Killed
<1>4. ASSUME UNCHANGED <<task, writer, files>>, "two daemons" \in slips => "two daemons" \in slips'
      PROVE  Writing'
  BY <1>4, Zenon DEF Writing, Open
<1>5. CASE GossipEnds \/ Signal \/ ServiceStops \/ OnStartFails \/ StopService \/ OnDestroy \/ OnRevoke
  BY <1>4, <1>5, Zenon DEF GossipEnds, Signal, ServiceStops, OnStartFails, StopService, OnDestroy, OnRevoke,
                    daemon_shutdown, process
<1>6. CASE (Joined /\ UNCHANGED process) \/ Handshake \/ Second \/ (\E t \in Secs : ClockSet(t)) \/ UNCHANGED lifecycleVars
  BY <1>4, <1>6, Zenon DEF Joined, Handshake, Second, ClockSet, lifecycleVars, process
<1>7. Killed => NoProcess
  BY Zenon DEF Killed
<1>8. Joined => NoProcess \/ UNCHANGED process
  BY Zenon DEF Joined
<1> QED
  BY <1>1, <1>2, <1>3, <1>5, <1>6, <1>7, <1>8, RuntimeWrites, Zenon DEF LifecycleNext

\* At the start no daemon has the file open, and the file is old or not there.
LEMMA WritingAtStart ==
  ASSUME LifecycleInit
  PROVE  Sole /\ Writing
<1>1. files \in [path: {Absent, Whole(StateVersion - 1, 0, 0)}, tmp: {Absent}]
      /\ writer = [d \in Daemons |-> Closed]
  BY Zenon DEF LifecycleInit
<1>2. DOMAIN files = {"path", "tmp"} /\ files.path \in {Absent, Whole(StateVersion - 1, 0, 0)}
  BY <1>1, Zenon
<1>3. Absent.kind # "torn" /\ Whole(StateVersion - 1, 0, 0).kind # "torn"
  BY Zenon DEF Absent, Whole
<1>4. DOMAIN writer = Daemons /\ \A d \in Daemons : writer[d] = Closed
  BY <1>1, Zenon
<1> QED
  BY <1>2, <1>3, <1>4, NothingAtStart, Zenon DEF Sole, Writing

\* Whoever reads the state file finds a whole one, or none, whatever the daemon
\* is doing and wherever it was killed (atomic.rs), as long as one daemon writes.
THEOREM StateFileNeverTorn == LifecycleSpec => []NeverTorn
<1>1. LifecycleInit => Sole /\ Writing
  BY WritingAtStart, Zenon
<1>2. LifecycleInv /\ Sole /\ Writing /\ [LifecycleNext]_lifecycleVars => Writing'
  BY WritingKept, Zenon
<1>3. Writing => NeverTorn
  BY Zenon DEF Writing, NeverTorn
<1>4. LifecycleInv /\ Sole /\ [LifecycleNext]_lifecycleVars => Sole'
  BY SoleKept, Zenon
<1> QED
  BY <1>1, <1>2, <1>3, <1>4, LifecycleInductive, PTL DEF LifecycleSpec

-----------------------------------------------------------------------------
(* What the readers of the state file are told.                            *)

\* The operations of atomic.rs on whole, torn and absent files.
LEMMA FileOperations ==
  ASSUME NEW f \in Files
  PROVE  /\ open_tmp(f) \in Files /\ rename(f) \in Files
         /\ \A at \in Targets : Renamed(f, at) \in Targets
         /\ \A at \in Targets, c \in Contents : write_all(f, at, c) \in Files
<1>1. Absent \in Contents /\ Torn \in Contents
  BY Zenon DEF Contents
<1>2. open_tmp(f) \in Files
  BY <1>1, Zenon DEF Files, open_tmp
<1>3. rename(f) \in Files
  BY <1>1, Zenon DEF Files, rename
<1>4. ASSUME NEW at \in Targets PROVE Renamed(f, at) \in Targets
  BY Zenon DEF Renamed, Targets
<1>5. ASSUME NEW at \in Targets, NEW c \in Contents PROVE write_all(f, at, c) \in Files
  BY Zenon DEF Files, write_all
<1> QED
  BY <1>2, <1>3, <1>4, <1>5, Zenon

\* The clock, the file's age and the last handshake.
ClockType == /\ wall \in Secs /\ age \in 0 .. FreshSecs + 1
             /\ handshake \in [time: {NoHandshake} \cup Secs, age: 0 .. ConnectedSecs + FreshSecs]

\* What a daemon writes: peer_state_of makes an age of the handshake, or none.
LEMMA WrittenContent ==
  ASSUME ClockType
  PROVE  Whole(StateVersion, wall, last_handshake_secs(observed, wall)) \in Contents
<1>1. wall \in 0 .. MaxSecs /\ MaxSecs \in Nat
  BY StatusAssumption, Zenon DEF ClockType, Secs
<1>2. handshake.time \in {NoHandshake} \cup Secs /\ handshake.age \in Nat
  BY StatusAssumption DEF ClockType
<1>3. observed \in {NoHandshake} \cup Secs
  BY <1>1, <1>2 DEF observed, saturating_sub, Secs
<1>4. last_handshake_secs(observed, wall) \in {NoHandshake} \cup Secs
  BY <1>1, <1>3 DEF last_handshake_secs, Secs, NoHandshake
<1> QED
  BY <1>1, <1>4, Zenon DEF Whole, Contents, Secs

\* A daemon without an open file has a place in the types.
LEMMA ClosedType == Closed \in [at: Targets, written: BOOLEAN]
BY Zenon DEF Closed, Targets

\* The other parts of LifecycleTypeOK.
ProcessType == /\ task \in [Daemons -> {"none", "starting", "running", "ended", "failed"}]
               /\ asked \subseteq Daemons /\ registry \subseteq Daemons /\ binding \subseteq Daemons
               /\ gossip \in {0} \cup Daemons
HostType == /\ host \in Hosts
            /\ service \in [made: BOOLEAN, handle: {0} \cup Daemons, stop: BOOLEAN, sticky: BOOLEAN]
            /\ main \in [waits: {0} \cup Daemons, for: {"nothing", "destroy", "revoke", "stopped", "exit"}]
FileType == writer \in [Daemons -> [at: Targets, written: BOOLEAN]] /\ files \in Files
CountType == slips \subseteq {"two daemons", "set back", "set ahead"} /\ changes \in 0 .. MaxChanges

\* The tasks, the shutdown channels and the registry.
LEMMA ProcessTyped ==
  ASSUME ProcessType, HostType, [LifecycleNext]_lifecycleVars
  PROVE  ProcessType'
<1>0. 1 \in Daemons
  BY LifecycleAssumption DEF Daemons
<1>1. CASE \E d \in Daemons : DaemonSteps(d)
  BY <1>1, Zenon DEF DaemonSteps, StartFails, Started, GossipBinds, TickOpens, TickWrites, TickRenames, LoopBreaks,
              ProcessType
<1>2. CASE \E d \in Daemons : OnStartCommand(d)
  BY <1>2, Zenon DEF OnStartCommand, daemon_spawn_with_fd, spawn_with_transport, ProcessType
<1>3. CASE Run \/ ServiceRuns \/ Signal \/ ServiceStops
  BY <1>0, <1>3, Zenon DEF Run, ServiceRuns, Signal, ServiceStops, spawn_with_transport, ProcessType
<1>4. CASE OnDestroy \/ OnRevoke
  BY <1>4, Zenon DEF OnDestroy, OnRevoke, daemon_shutdown, process, ProcessType
<1>5. CASE NoProcess
  BY <1>5, Zenon DEF NoProcess, ProcessType
<1>6. CASE UNCHANGED process
  BY <1>6, Zenon DEF process, ProcessType
<1>7. CASE GossipEnds
  BY <1>7, Zenon DEF GossipEnds, ProcessType
<1> QED
  BY <1>1, <1>2, <1>3, <1>4, <1>5, <1>6, <1>7, Zenon
     DEF LifecycleNext, OnStartFails, StopService, Joined, Killed, Handshake, Second, ClockSet, lifecycleVars

\* The service and the thread of the host.
LEMMA HostTyped ==
  ASSUME ProcessType, HostType, [LifecycleNext]_lifecycleVars
  PROVE  HostType'
<1>0. 1 \in Daemons
  BY LifecycleAssumption DEF Daemons
<1>1. UNCHANGED host
  BY Zenon DEF LifecycleNext, lifecycleVars, DaemonSteps, StartFails, Started, GossipBinds, TickOpens, TickWrites, TickRenames,
         LoopBreaks, OnStartCommand, GossipEnds, Run, Signal, ServiceRuns, ServiceStops, OnStartFails,
         StopService, OnDestroy, OnRevoke, Joined, Killed, Handshake, Second, ClockSet
<1> DEFINE S == [made: BOOLEAN, handle: {0} \cup Daemons, stop: BOOLEAN, sticky: BOOLEAN]
           M == [waits: {0} \cup Daemons, for: {"nothing", "destroy", "revoke", "stopped", "exit"}]
<1>2. service \in S /\ main \in M
  BY Zenon DEF HostType
<1>3. ASSUME service' \in S, main' \in M PROVE HostType'
  BY <1>1, <1>3, Zenon DEF HostType
<1>4. /\ \A d \in Daemons : [made |-> TRUE, handle |-> d, stop |-> FALSE, sticky |-> TRUE] \in S
      /\ Gone \in S
  BY Zenon DEF Gone
<1>5. ASSUME NEW s \in S
      PROVE  /\ [s EXCEPT !.made = TRUE] \in S /\ [s EXCEPT !.handle = 0] \in S
             /\ [s EXCEPT !.made = TRUE, !.stop = TRUE, !.sticky = FALSE] \in S
             /\ [s EXCEPT !.stop = TRUE, !.sticky = FALSE] \in S
             /\ [Gone EXCEPT !.sticky = s.sticky] \in S
  BY Zenon DEF Gone
<1>6. [waits |-> 0, for |-> "nothing"] \in M /\ [waits |-> 1, for |-> "exit"] \in M
      /\ [waits |-> 1, for |-> "stopped"] \in M
      /\ \A d \in Daemons : [waits |-> d, for |-> "destroy"] \in M /\ [waits |-> d, for |-> "revoke"] \in M
  BY <1>0, Zenon
<1> HIDE DEF S, M
<1>7. CASE UNCHANGED <<service, main>>
  BY <1>2, <1>3, <1>7, Zenon
<1>8. CASE \E d \in Daemons : OnStartCommand(d)
  BY <1>2, <1>3, <1>4, <1>8, Zenon DEF OnStartCommand
<1>9. CASE Run \/ ServiceRuns \/ ServiceStops
  BY <1>2, <1>3, <1>5, <1>6, <1>9, Zenon DEF Run, ServiceRuns, ServiceStops
<1>10. CASE OnStartFails \/ StopService
  BY <1>2, <1>3, <1>5, <1>10, Zenon DEF OnStartFails, StopService
<1>11. CASE OnDestroy \/ OnRevoke
  BY <1>2, <1>3, <1>4, <1>5, <1>6, <1>11, Zenon DEF OnDestroy, OnRevoke, daemon_shutdown, ProcessType
<1>12. CASE Joined \/ Killed
  BY <1>2, <1>3, <1>4, <1>5, <1>6, <1>12, Zenon DEF Joined, Killed
<1> QED
  BY <1>7, <1>8, <1>9, <1>10, <1>11, <1>12, Zenon
     DEF LifecycleNext, DaemonSteps, StartFails, Started, GossipBinds, TickOpens, TickWrites, TickRenames, LoopBreaks,
         GossipEnds, Signal, Handshake, Second, ClockSet, lifecycleVars

\* The state file, its temporary file and the handles open on it.
LEMMA FileTyped ==
  ASSUME FileType, ClockType, [LifecycleNext]_lifecycleVars
  PROVE  FileType'
<1>1. CASE UNCHANGED <<writer, files>>
  BY <1>1, Zenon DEF FileType
<1>2. CASE NoProcess /\ UNCHANGED files
  BY <1>2, ClosedType, Zenon DEF NoProcess, FileType
<1>3. ASSUME NEW d \in Daemons, TickOpens(d) PROVE FileType'
  BY <1>3, FileOperations, Zenon DEF TickOpens, FileType, Targets
<1>4. ASSUME NEW d \in Daemons, TickWrites(d) PROVE FileType'
  <2>1. writer[d].at \in Targets /\ files \in Files
    BY Zenon DEF FileType
  <2>2. files' \in Files
    BY <1>4, <2>1, WrittenContent, FileOperations, Zenon DEF TickWrites
  <2> QED
    BY <1>4, <2>2, Zenon DEF TickWrites, FileType
<1>5. ASSUME NEW d \in Daemons, TickRenames(d) PROVE FileType'
  <2>1. files' \in Files
    BY <1>5, FileOperations, Zenon DEF TickRenames, FileType
  <2>2. ASSUME NEW e \in Daemons
        PROVE  [writer[e] EXCEPT !.at = Renamed(files, @)] \in [at: Targets, written: BOOLEAN]
    <3>1. writer[e] \in [at: Targets, written: BOOLEAN] /\ writer[e].at \in Targets
      BY Zenon DEF FileType
    <3>2. Renamed(files, writer[e].at) \in Targets
      BY <3>1, FileOperations, Zenon DEF FileType
    <3> QED
      BY <3>1, <3>2, Zenon
  <2> QED
    BY <1>5, <2>1, <2>2, ClosedType, Zenon DEF TickRenames, FileType
<1> QED
  BY <1>1, <1>2, <1>3, <1>4, <1>5, Zenon
     DEF LifecycleNext, DaemonSteps, StartFails, Started, GossipBinds, LoopBreaks, OnStartCommand, daemon_spawn_with_fd,
         spawn_with_transport, GossipEnds, Run, Signal, ServiceRuns, ServiceStops, OnStartFails, StopService,
         OnDestroy, OnRevoke, daemon_shutdown, Joined, Killed, Handshake, Second, ClockSet, lifecycleVars, process

\* The clock runs within its bound; the exceptions are the three.
LEMMA ClockTyped ==
  ASSUME ClockType, CountType, [LifecycleNext]_lifecycleVars
  PROVE  ClockType' /\ CountType'
<1>0. FreshSecs \in Nat /\ ConnectedSecs \in Nat /\ MaxSecs \in Nat /\ MaxChanges \in Nat
  BY StatusAssumption, BudgetAssumption, Zenon
<1>1. ASSUME UNCHANGED clock PROVE ClockType'
  BY <1>1, Zenon DEF clock, ClockType
<1>2. ASSUME \E d \in Daemons : TickRenames(d) PROVE ClockType'
  BY <1>0, <1>2 DEF TickRenames, ClockType
<1>3. ASSUME Handshake PROVE ClockType'
  BY <1>0, <1>3 DEF Handshake, ClockType
<1>4. ASSUME Second PROVE ClockType'
  <2>1. wall' \in Secs /\ age' \in 0 .. FreshSecs + 1
    BY <1>0, <1>4 DEF Second, ClockType, Secs, Min2
  <2>2. handshake.age \in 0 .. ConnectedSecs + FreshSecs
    BY Zenon DEF ClockType
  <2>3. Min2(handshake.age + 1, ConnectedSecs + FreshSecs) \in 0 .. ConnectedSecs + FreshSecs
    BY <1>0, <2>2 DEF Min2
  <2> QED
    BY <1>4, <2>1, <2>3, Zenon DEF Second, ClockType
<1>5. ASSUME \E t \in Secs : ClockSet(t) PROVE ClockType'
  BY <1>5, ZenonT(30) DEF ClockSet, ClockType
<1>6. ClockType'
  BY <1>1, <1>2, <1>3, <1>4, <1>5, Zenon
     DEF LifecycleNext, DaemonSteps, StartFails, Started, GossipBinds, TickOpens, TickWrites, LoopBreaks, OnStartCommand,
         GossipEnds, Run, Signal, ServiceRuns, ServiceStops, OnStartFails, StopService, OnDestroy, OnRevoke,
         Joined, Killed, lifecycleVars
<1>7. slips' \subseteq {"two daemons", "set back", "set ahead"}
  BY ZenonT(30) DEF CountType, LifecycleNext, DaemonSteps, StartFails, Started, GossipBinds, TickOpens, TickWrites, TickRenames,
         LoopBreaks, OnStartCommand, GossipEnds, Run, Signal, ServiceRuns, ServiceStops, OnStartFails,
         StopService, OnDestroy, OnRevoke, Joined, Killed, Handshake, Second, ClockSet, lifecycleVars
<1>8. UNCHANGED changes \/ (changes < MaxChanges /\ changes' = changes + 1)
  BY Zenon DEF LifecycleNext, DaemonSteps, StartFails, Started, GossipBinds, TickOpens, TickWrites, TickRenames,
         LoopBreaks, OnStartCommand, GossipEnds, Run, Signal, ServiceRuns, ServiceStops, OnStartFails,
         StopService, OnDestroy, OnRevoke, Joined, Killed, Handshake, Second, ClockSet, Spend, lifecycleVars
<1>9. changes' \in 0 .. MaxChanges
  <2>1. changes \in 0 .. MaxChanges
    BY Zenon DEF CountType
  <2> QED
    BY <1>0, <1>8, <2>1
<1> QED
  BY <1>6, <1>7, <1>9, Zenon DEF CountType

\* Every variable keeps its type.
Typed == ProcessType /\ HostType /\ FileType /\ ClockType /\ CountType

\* The types hold at the start, and they are those of LifecycleTypeOK.
LEMMA TypedAtStart == (LifecycleInit => Typed) /\ (Typed => LifecycleTypeOK)
<1>0. /\ FreshSecs \in Nat /\ ConnectedSecs \in Nat /\ MaxSecs \in Nat /\ MaxChanges \in Nat
      /\ StateVersion \in Nat
  BY StatusAssumption, BudgetAssumption, Zenon
<1>1. LifecycleInit => ProcessType
  <2> SUFFICES ASSUME task = [d \in Daemons |-> "none"], asked = {}, registry = {}, binding = {}, gossip = 0
               PROVE  ProcessType
    BY Zenon DEF LifecycleInit
  <2> QED
    BY Zenon DEF ProcessType
<1>5. LifecycleInit => HostType
  <2> SUFFICES ASSUME host \in Hosts, main = [waits |-> 0, for |-> "nothing"],
                      service = [made |-> FALSE, handle |-> 0, stop |-> FALSE, sticky |-> FALSE]
               PROVE  HostType
    BY Zenon DEF LifecycleInit
  <2> QED
    BY Zenon DEF HostType
<1>2. LifecycleInit => ClockType /\ CountType
  <2> SUFFICES ASSUME wall = 0, age = FreshSecs + 1, handshake = [time |-> NoHandshake, age |-> 0],
                      slips = {}, changes = 0
               PROVE  ClockType /\ CountType
    BY Zenon DEF LifecycleInit
  <2>1. ClockType
    BY <1>0 DEF ClockType, Secs
  <2> QED
    BY <1>0, <2>1 DEF CountType
<1>3. ASSUME LifecycleInit PROVE FileType
  <2>1. Absent \in Contents /\ Whole(StateVersion - 1, 0, 0) \in Contents
    BY <1>0 DEF Contents, Whole, Secs
  <2> QED
    BY <1>3, <2>1, ClosedType, Zenon DEF LifecycleInit, FileType, Files
<1>4. Typed => LifecycleTypeOK
  BY Zenon DEF Typed, ProcessType, HostType, FileType, ClockType, CountType, LifecycleTypeOK
<1> QED
  BY <1>1, <1>2, <1>3, <1>4, <1>5, Zenon DEF Typed

\* The dates in the files are not of the future unless the clock was set back,
\* and the state file is then not younger than the daemon's last replacement of
\* it: a handle that follows the rename onto the state file is used within the
\* second of the rename.
NotBack == "set back" \notin slips
Dated == NotBack =>
  /\ known(files.path) => files.path.updated_unix + age <= wall
  /\ known(files.tmp) => files.tmp.updated_unix <= wall
Followed == \A d \in Daemons : writer[d].at = "path" => age = 0

\* What RunningShown and ConnectedIsFresh except.
OneWriter == slips \subseteq {"set back"}
ClockLeft == slips \subseteq {"two daemons"}

\* Unless a second daemon wrote or the clock was set ahead, the file is there
\* and as young as its last replacement, and what is written in the temporary
\* file is of this second.
Prompt == OneWriter =>
  /\ age <= FreshSecs => known(files.path) /\ wall <= files.path.updated_unix + age
  /\ \A d \in Daemons : writer[d].written => known(files.tmp) /\ wall <= files.tmp.updated_unix

\* While nobody sets the clock, the handshake's age is the time since it, and a
\* file's row is of a handshake at least as old as the last one.
Told(c) == known(c) /\ c.secs # NoHandshake =>
  handshake.time # NoHandshake /\ handshake.age + c.updated_unix <= c.secs + wall
Rows == ClockLeft =>
  /\ handshake.time # NoHandshake =>
       handshake.time <= wall /\ handshake.age = Min2(wall - handshake.time, ConnectedSecs + FreshSecs)
  /\ host # "foreground" => Told(files.path) /\ Told(files.tmp)

StatusInv == Dated /\ Followed /\ Prompt /\ Rows

\* A file that is torn or absent says nothing, one of this version is read.
LEMMA KnownFiles ==
  /\ ~known(Absent) /\ ~known(Torn)
  /\ \A u, s : /\ known(Whole(StateVersion, u, s))
               /\ Whole(StateVersion, u, s).updated_unix = u /\ Whole(StateVersion, u, s).secs = s
BY Zenon DEF known, Absent, Torn, Whole

\* What the parts of a file are, when it is read.
LEMMA KnownTypes ==
  ASSUME NEW c \in Contents, known(c)
  PROVE  c.updated_unix \in 0 .. MaxSecs /\ (c.secs # NoHandshake => c.secs \in 0 .. MaxSecs)
BY KnownFiles, Zenon DEF Contents, Secs

\* The numbers of a state, as the steps below use them.
LEMMA StatusNumbers ==
  ASSUME Typed
  PROVE  /\ FreshSecs \in Nat /\ ConnectedSecs \in Nat /\ wall \in Nat /\ age \in Nat
         /\ handshake.age \in Nat /\ (handshake.time # NoHandshake => handshake.time \in Nat)
         /\ age <= FreshSecs + 1 /\ handshake.age <= ConnectedSecs + FreshSecs
         /\ DOMAIN writer = Daemons /\ files \in Files
         /\ \A c \in {files.path, files.tmp} : known(c) =>
              c.updated_unix \in Nat /\ (c.secs # NoHandshake => c.secs \in Nat)
<1>0. FreshSecs \in Nat /\ ConnectedSecs \in Nat /\ MaxSecs \in Nat
  BY StatusAssumption, Zenon
<1>1. wall \in Nat /\ age \in Nat /\ age <= FreshSecs + 1
  BY <1>0 DEF Typed, ClockType, Secs
<1>2. handshake.age \in 0 .. ConnectedSecs + FreshSecs /\ handshake.time \in {NoHandshake} \cup Secs
  BY Zenon DEF Typed, ClockType
<1>3. DOMAIN writer = Daemons /\ files \in Files /\ files.path \in Contents /\ files.tmp \in Contents
  BY Zenon DEF Typed, FileType, Files
<1>4. \A c \in {files.path, files.tmp} : known(c) =>
        c.updated_unix \in Nat /\ (c.secs # NoHandshake => c.secs \in Nat)
  BY <1>0, <1>3, KnownTypes
<1> QED
  BY <1>0, <1>1, <1>2, <1>3, <1>4 DEF Secs

\* Steps that leave the files and the clock alone, also the end of the process.
LEMMA QuietStatus ==
  ASSUME StatusInv, UNCHANGED <<host, files, wall, age, handshake>>, slips \subseteq slips',
         writer' = writer \/ writer' = [d \in Daemons |-> Closed]
  PROVE  StatusInv'
<1>0. Closed.at = "closed" /\ ~Closed.written
  BY Zenon DEF Closed
<1>1. Dated'
  BY Zenon DEF StatusInv, Dated, NotBack, known
<1>2. Followed'
  BY <1>0, Zenon DEF StatusInv, Followed
<1>3. Prompt'
  <2>1. ASSUME NEW d \in Daemons, writer'[d].written PROVE writer[d].written
    BY <1>0, <2>1, Zenon
  <2> QED
    BY <2>1, Zenon DEF StatusInv, Prompt, OneWriter, known
<1>4. Rows'
  BY Zenon DEF StatusInv, Rows, ClockLeft, Told, known, Min2
<1> QED
  BY <1>1, <1>2, <1>3, <1>4, Zenon DEF StatusInv

\* The temporary file is opened: it is torn until it is written.
LEMMA OpenedStatus ==
  ASSUME Typed, LifecycleInv, Sole, Writing, StatusInv, NEW d \in Daemons, TickOpens(d)
  PROVE  StatusInv'
<1>0. files \in Files /\ DOMAIN writer = Daemons
  BY StatusNumbers, Zenon
<1>1. /\ task[d] = "running" /\ UNCHANGED <<host, wall, age, handshake, slips>>
      /\ writer' = [writer EXCEPT ![d] = [at |-> "tmp", written |-> FALSE]]
      /\ files'.path = files.path /\ files'.tmp = Torn
  BY <1>0, Zenon DEF TickOpens, clock, open_tmp, Files
<1>2. ~known(files'.tmp) /\ (known(files'.path) <=> known(files.path))
  BY <1>1, KnownFiles, Zenon
<1>3. Dated'
  BY <1>1, <1>2, Zenon DEF StatusInv, Dated, NotBack, known
<1>4. Followed'
  BY <1>0, <1>1, Zenon DEF StatusInv, Followed
<1>5. Prompt'
  <2> SUFFICES ASSUME OneWriter PROVE \A e \in Daemons : ~writer'[e].written
    BY <1>1, <1>2, Zenon DEF StatusInv, Prompt, OneWriter, known
  <2>1. ASSUME NEW e \in Daemons, e # d PROVE writer[e] = Closed
    <3>1. writer[e] = Closed \/ task[e] = "running"
      BY Zenon DEF Writing, Open, OneWriter
    <3>2. task[e] = "running" => e = d
      BY <1>1, OneAtWork, Zenon DEF Live, OneWriter
    <3> QED
      BY <2>1, <3>1, <3>2, Zenon
  <2>2. ~Closed.written
    BY Zenon DEF Closed
  <2> QED
    BY <1>0, <1>1, <2>1, <2>2, Zenon
<1>6. Rows'
  BY <1>1, <1>2, Zenon DEF StatusInv, Rows, ClockLeft, Told, known, Min2
<1> QED
  BY <1>3, <1>4, <1>5, <1>6, Zenon DEF StatusInv

\* A clock nobody set: the row is of the handshake that is reported now.
LEMMA ToldNow ==
  ASSUME Typed, Rows, ClockLeft, host # "foreground",
         last_handshake_secs(observed, wall) # NoHandshake
  PROVE  handshake.time # NoHandshake /\ last_handshake_secs(observed, wall) = handshake.age
<1>1. handshake.time # NoHandshake
  BY Zenon DEF last_handshake_secs, observed
<1>a. /\ handshake.time \in Nat /\ wall \in Nat /\ handshake.age \in Nat
      /\ ConnectedSecs \in Nat /\ FreshSecs \in Nat
  BY <1>1, StatusNumbers, Zenon
<1>b. /\ handshake.time <= wall
      /\ handshake.age = Min2(wall - handshake.time, ConnectedSecs + FreshSecs)
  BY <1>1, Zenon DEF Rows
<1>2. handshake.age <= wall
  BY <1>a, <1>b DEF Min2
<1>3. observed = wall - handshake.age
  BY <1>1, <1>2, <1>a, SMTT(30) DEF observed, saturating_sub
<1> QED
  BY <1>1, <1>2, <1>3, <1>a DEF last_handshake_secs, NoHandshake

\* The content is written through the handle, wherever it points by now.
LEMMA WrittenStatus ==
  ASSUME Typed, LifecycleInv, Sole, Writing, StatusInv, NEW d \in Daemons, TickWrites(d)
  PROVE  StatusInv'
<1> DEFINE content == Whole(StateVersion, wall, last_handshake_secs(observed, wall))
<1>0. files \in Files /\ DOMAIN writer = Daemons /\ wall \in Nat /\ age \in Nat
  BY StatusNumbers, Zenon
<1>1. /\ UNCHANGED <<host, task, wall, age, handshake, slips>>
      /\ writer' = [writer EXCEPT ![d].written = TRUE]
  BY Zenon DEF TickWrites, clock
<1>2. writer[d] \in [at: Targets, written: BOOLEAN]
  BY Zenon DEF Typed, FileType
<1>3. \A e \in Daemons : writer'[e].at = writer[e].at /\ (e # d => writer'[e] = writer[e])
  BY <1>0, <1>1, <1>2, Zenon
<1>4. \/ writer[d].at = "tmp" /\ files'.tmp = content /\ files'.path = files.path
      \/ writer[d].at = "path" /\ files'.path = content /\ files'.tmp = files.tmp
      \/ files' = files
  BY <1>0, Zenon DEF TickWrites, write_all, Files
<1>5. known(content) /\ content.updated_unix = wall /\ content.secs = last_handshake_secs(observed, wall)
  BY KnownFiles, Zenon
<1> HIDE DEF content
<1>6. Dated'
  <2> SUFFICES ASSUME NotBack
               PROVE  /\ known(files'.path) => files'.path.updated_unix + age <= wall
                      /\ known(files'.tmp) => files'.tmp.updated_unix <= wall
    BY <1>1, ZenonT(30) DEF Dated, NotBack, known
  <2>1. /\ known(files.path) => files.path.updated_unix + age <= wall
        /\ known(files.tmp) => files.tmp.updated_unix <= wall
        /\ writer[d].at = "path" => age = 0
    BY Zenon DEF StatusInv, Dated, Followed
  <2> QED
    <3>1. wall \in Int /\ age \in Int
      BY <1>0
    <3>2. files'.path \in {files.path, content} /\ files'.tmp \in {files.tmp, content}
      BY <1>4, Zenon
    <3> QED
      BY <1>4, <1>5, <2>1, <3>1, <3>2, SMTT(30)
<1>7. Followed'
  BY <1>1, <1>3, Zenon DEF StatusInv, Followed
<1>8. Prompt'
  <2> SUFFICES ASSUME OneWriter PROVE Prompt'
    BY <1>1, Zenon DEF Prompt, OneWriter
  <2>1. Open(d)
    BY Zenon DEF Writing, TickWrites, OneWriter
  <2>2. files'.tmp = content /\ files'.path = files.path
    BY <1>0, <2>1, Zenon DEF TickWrites, write_all, Files, Open, content
  <2>3. known(files'.tmp) /\ files'.tmp.updated_unix = wall
    BY <1>5, <2>2, Zenon
  <2>5. wall <= wall
    BY <1>0
  <2>4. known(files'.path) <=> known(files.path)
    BY <2>2, Zenon
  <2> QED
    BY <1>1, <2>2, <2>3, <2>4, <2>5, Zenon DEF StatusInv, Prompt, known
<1>9. Rows'
  <2> SUFFICES ASSUME ClockLeft PROVE Rows'
    BY <1>1, Zenon DEF Rows, ClockLeft
  <2>1. ASSUME host # "foreground" PROVE Told(content)
    <3>1. handshake.age \in Nat
      BY StatusNumbers, Zenon
    <3>2. content.secs # NoHandshake => handshake.time # NoHandshake /\ content.secs = handshake.age
      BY <1>5, <2>1, ToldNow, Zenon DEF StatusInv
    <3> QED
      BY <1>0, <1>5, <3>1, <3>2 DEF Told
  <2>2. ASSUME NEW c, host # "foreground", Told(c) PROVE Told(c)'
    BY <1>1, <2>2, Zenon DEF Told, known
  <2> QED
    BY <1>1, <1>4, <2>1, Zenon DEF StatusInv, Rows, Told, known, Min2
<1> QED
  BY <1>6, <1>7, <1>8, <1>9, Zenon DEF StatusInv

\* The rename: what was written becomes the state file, and the handles still
\* open on the temporary file follow it.
LEMMA RenamedStatus ==
  ASSUME Typed, LifecycleInv, Sole, Writing, StatusInv, NEW d \in Daemons, TickRenames(d)
  PROVE  StatusInv'
<1>0. /\ files \in Files /\ DOMAIN writer = Daemons /\ wall \in Nat /\ age \in Nat /\ FreshSecs \in Nat
      /\ known(files.tmp) => files.tmp.updated_unix \in Nat
  BY StatusNumbers, Zenon
<1>1. /\ UNCHANGED <<host, task, wall, handshake, slips>> /\ writer[d].written
      /\ writer' = [e \in Daemons |->
                      IF e = d THEN Closed ELSE [writer[e] EXCEPT !.at = Renamed(files, @)]]
  BY Zenon DEF TickRenames, clock
<1>2. Closed.at = "closed" /\ ~Closed.written
  BY Zenon DEF Closed
<1>3. ASSUME NEW e \in Daemons, e # d
      PROVE  writer'[e].written = writer[e].written /\ writer'[e].at = Renamed(files, writer[e].at)
  <2>1. writer[e] \in [at: Targets, written: BOOLEAN]
    BY Zenon DEF Typed, FileType
  <2>2. DOMAIN writer[e] = {"at", "written"}
    BY <2>1, Zenon
  <2> QED
    BY <1>1, <1>3, <2>2, Zenon
<1>4. writer'[d] = Closed
  BY <1>1, Zenon
<1>5. ASSUME OneWriter, NEW e \in Daemons PROVE ~writer'[e].written
  <2>1. d \in Live
    <3>1. writer[d] # Closed
      BY <1>1, <1>2, Zenon
    <3> QED
      BY <1>5, <3>1, Zenon DEF Writing, Open, Live, OneWriter
  <2>2. writer[e] = Closed \/ e \in Live
    BY <1>5, Zenon DEF Writing, Open, Live, OneWriter
  <2>3. e \in Live => e = d
    BY <1>5, <2>1, OneAtWork, Zenon DEF OneWriter
  <2> QED
    BY <1>2, <1>3, <1>4, <2>2, <2>3, Zenon
<1>6. CASE files.tmp.kind = "absent"
  <2>1. files' = files /\ age' = age
    BY <1>6, Zenon DEF TickRenames, rename
  <2>2. ~known(files.tmp)
    BY <1>6, Zenon DEF known
  <2>3. ~OneWriter
    BY <1>1, <2>2, Zenon DEF StatusInv, Prompt
  <2>4. Dated' /\ Rows'
    BY <1>1, <2>1, Zenon DEF StatusInv, Dated, NotBack, Rows, ClockLeft, Told, known, Min2
  <2>5. Prompt'
    BY <1>1, <2>3, Zenon DEF Prompt, OneWriter
  <2>6. Followed'
    <3>0. \A at : Renamed(files, at) = at
      BY <1>6, Zenon DEF Renamed
    <3>1. \A e \in Daemons : e # d => writer'[e].at = writer[e].at
      BY <1>3, <3>0, Zenon
    <3> QED
      BY <1>2, <1>4, <2>1, <3>1, Zenon DEF StatusInv, Followed
  <2> QED
    BY <2>4, <2>5, <2>6, Zenon DEF StatusInv
<1>7. CASE files.tmp.kind # "absent"
  <2>1. files'.path = files.tmp /\ files'.tmp = Absent /\ age' = 0
    BY <1>7, Zenon DEF TickRenames, rename
  <2>2. ~known(files'.tmp) /\ (known(files'.path) <=> known(files.tmp))
    BY <2>1, KnownFiles, Zenon
  <2>3. Dated'
    <3> SUFFICES ASSUME NotBack, known(files.tmp) PROVE files.tmp.updated_unix + 0 <= wall
      BY <1>1, <2>1, <2>2, Zenon DEF Dated, NotBack, known
    <3>1. files.tmp.updated_unix <= wall
      BY Zenon DEF StatusInv, Dated
    <3> QED
      BY <1>0, <3>1
  <2>4. Followed'
    BY <2>1, Zenon DEF Followed
  <2>5. Prompt'
    <3> SUFFICES ASSUME OneWriter
                 PROVE  known(files.tmp) /\ wall <= files.tmp.updated_unix + 0
      BY <1>1, <1>5, <2>1, <2>2, Zenon DEF Prompt, OneWriter, known
    <3>1. known(files.tmp) /\ wall <= files.tmp.updated_unix
      BY <1>1, Zenon DEF StatusInv, Prompt
    <3> QED
      BY <1>0, <3>1
  <2>6. Rows'
    BY <1>1, <2>1, <2>2, Zenon DEF StatusInv, Rows, ClockLeft, Told, known, Min2
  <2> QED
    BY <2>3, <2>4, <2>5, <2>6, Zenon DEF StatusInv
<1> QED
  BY <1>6, <1>7, Zenon

\* A handshake: no file is of a later one.
LEMMA HandshakeStatus ==
  ASSUME Typed, StatusInv, Handshake
  PROVE  StatusInv'
<1>0. /\ wall \in Nat /\ ConnectedSecs \in Nat /\ FreshSecs \in Nat
      /\ \A c \in {files.path, files.tmp} : known(c) =>
           c.updated_unix \in Nat /\ (c.secs # NoHandshake => c.secs \in Nat)
  BY StatusNumbers, Zenon
<1>1. /\ UNCHANGED <<host, writer, files, wall, age, slips>>
      /\ handshake'.time = wall /\ handshake'.age = 0
  BY Zenon DEF Handshake, process
<1>2. Dated' /\ Followed' /\ Prompt'
  BY <1>1, Zenon DEF StatusInv, Dated, NotBack, Followed, Prompt, OneWriter, known
<1>3. Rows'
  <2> SUFFICES ASSUME ClockLeft PROVE Rows'
    BY <1>1, Zenon DEF Rows, ClockLeft
  <2>1. wall # NoHandshake
    BY <1>0 DEF NoHandshake
  <2>2. NotBack
    BY Zenon DEF ClockLeft, NotBack
  <2>3. ASSUME NEW c \in {files.path, files.tmp}, known(c) PROVE c.updated_unix <= wall
    <3>1. age \in Nat
      BY StatusNumbers, Zenon
    <3>2. files.path.updated_unix + age <= wall \/ ~known(files.path)
      BY <2>2, Zenon DEF StatusInv, Dated
    <3>3. files.tmp.updated_unix <= wall \/ ~known(files.tmp)
      BY <2>2, Zenon DEF StatusInv, Dated
    <3> QED
      BY <1>0, <2>3, <3>1, <3>2, <3>3, SMTT(30)
  <2>4. ASSUME NEW c \in {files.path, files.tmp}, known(c), c.secs # NoHandshake
        PROVE  0 + c.updated_unix <= c.secs + wall
    <3>1. c.updated_unix <= wall /\ c.updated_unix \in Nat /\ c.secs \in Nat
      BY <1>0, <2>3, <2>4, Zenon
    <3> QED
      BY <1>0, <3>1
  <2>5. NoHandshake' = NoHandshake
    BY Zenon DEF NoHandshake
  <2>6. Told(files.path)' /\ Told(files.tmp)'
    BY <1>1, <2>1, <2>4, <2>5, Zenon DEF Told, known
  <2>7. wall <= wall /\ 0 = Min2(wall - wall, ConnectedSecs + FreshSecs)
    BY <1>0 DEF Min2
  <2> QED
    BY <1>1, <2>6, <2>7, Zenon DEF Rows, Min2
<1> QED
  BY <1>2, <1>3, Zenon DEF StatusInv

\* A second passes, and everything is a second older.
LEMMA SecondStatus ==
  ASSUME Typed, StatusInv, Second
  PROVE  StatusInv'
<1>0. /\ FreshSecs \in Nat /\ ConnectedSecs \in Nat /\ wall \in Nat /\ age \in Nat
      /\ handshake.age \in Nat /\ (handshake.time # NoHandshake => handshake.time \in Nat)
      /\ age <= FreshSecs + 1 /\ handshake.age <= ConnectedSecs + FreshSecs
  BY StatusNumbers, Zenon
<1>a. \A c \in {files.path, files.tmp} : known(c) =>
        c.updated_unix \in Nat /\ (c.secs # NoHandshake => c.secs \in Nat)
  BY StatusNumbers, Zenon
<1>1. /\ UNCHANGED <<host, writer, files, slips>> /\ wall' = wall + 1
      /\ age' = Min2(age + 1, FreshSecs + 1)
      /\ \A d \in Daemons : writer[d] = Closed
  BY Zenon DEF Second, process
<1>2. /\ handshake'.time = handshake.time
      /\ handshake'.age = Min2(handshake.age + 1, ConnectedSecs + FreshSecs)
  <2>1. DOMAIN handshake = {"time", "age"}
    BY Zenon DEF Typed, ClockType
  <2> QED
    BY <2>1, Zenon DEF Second
<1>3. Closed.at = "closed" /\ ~Closed.written
  BY Zenon DEF Closed
<1>4. age' <= age + 1 /\ age' \in Nat /\ (age' <= FreshSecs => age' = age + 1 /\ age <= FreshSecs)
  BY <1>0, <1>1, SMTT(30) DEF Min2
<1>5. Dated'
  <2> SUFFICES ASSUME NotBack
               PROVE  /\ known(files.path) => files.path.updated_unix + age' <= wall + 1
                      /\ known(files.tmp) => files.tmp.updated_unix <= wall + 1
    BY <1>1, Zenon DEF Dated, NotBack, known
  <2>1. /\ known(files.path) => files.path.updated_unix + age <= wall
        /\ known(files.tmp) => files.tmp.updated_unix <= wall
    BY Zenon DEF StatusInv, Dated
  <2> QED
    BY <1>0, <1>a, <1>4, <2>1, SMTT(30)
<1>6. Followed'
  BY <1>1, <1>3, Zenon DEF Followed
<1>7. Prompt'
  <2> SUFFICES ASSUME OneWriter, age' <= FreshSecs
               PROVE  known(files.path) /\ wall + 1 <= files.path.updated_unix + age'
    <3>1. \A d \in Daemons : ~writer'[d].written
      BY <1>1, <1>3, Zenon
    <3> QED
      BY <1>1, <3>1, Zenon DEF Prompt, OneWriter, known
  <2>1. known(files.path) /\ wall <= files.path.updated_unix + age
    BY <1>4, Zenon DEF StatusInv, Prompt
  <2> QED
    BY <1>0, <1>a, <1>4, <2>1, SMTT(30)
<1>8. Rows'
  <2> SUFFICES ASSUME ClockLeft PROVE Rows'
    BY <1>1, Zenon DEF Rows, ClockLeft
  <2>1. ASSUME handshake.time # NoHandshake
        PROVE  /\ handshake.time <= wall + 1
               /\ handshake'.age = Min2(wall + 1 - handshake.time, ConnectedSecs + FreshSecs)
    <3>1. /\ handshake.time <= wall
          /\ handshake.age = Min2(wall - handshake.time, ConnectedSecs + FreshSecs)
      BY <2>1, Zenon DEF StatusInv, Rows
    <3> QED
      BY <1>0, <1>2, <2>1, <3>1 DEF Min2
  <2>2. handshake'.age <= handshake.age + 1 /\ handshake'.age \in Nat
    BY <1>0, <1>2, SMTT(30) DEF Min2
  <2>3. ASSUME NEW c \in {files.path, files.tmp}, Told(c), known(c), c.secs # NoHandshake
        PROVE  handshake.time # NoHandshake /\ handshake'.age + c.updated_unix <= c.secs + (wall + 1)
    <3>1. handshake.time # NoHandshake /\ handshake.age + c.updated_unix <= c.secs + wall
      BY <2>3, Zenon DEF Told
    <3>2. c.updated_unix \in Nat /\ c.secs \in Nat
      BY <1>a, <2>3, Zenon
    <3> QED
      BY <1>0, <2>2, <3>1, <3>2, SMTT(30)
  <2>4. NoHandshake' = NoHandshake
    BY Zenon DEF NoHandshake
  <2>5. ASSUME host # "foreground" PROVE Told(files.path)' /\ Told(files.tmp)'
    <3>1. Told(files.path) /\ Told(files.tmp)
      BY <2>5, Zenon DEF StatusInv, Rows
    <3> QED
      BY <1>1, <1>2, <2>3, <2>4, <3>1, Zenon DEF Told, known
  <2> QED
    <3>1. handshake'.time # NoHandshake' =>
            /\ handshake'.time <= wall'
            /\ handshake'.age = Min2(wall' - handshake'.time, ConnectedSecs + FreshSecs)
      BY <1>0, <1>1, <1>2, <2>1, <2>4, SMTT(30) DEF Min2
    <3> QED
      BY <1>1, <2>5, <3>1, Zenon DEF Rows, Min2
<1> QED
  BY <1>5, <1>6, <1>7, <1>8, Zenon DEF StatusInv

\* The clock is set: what is said of a clock that was not is no longer said.
LEMMA SetStatus ==
  ASSUME Typed, StatusInv, NEW t \in Secs, ClockSet(t)
  PROVE  StatusInv'
<1>0. wall \in Nat /\ age \in Nat /\ t \in Nat
  BY StatusNumbers, StatusAssumption, SMTT(30) DEF Secs
<1>a. \A c \in {files.path, files.tmp} : known(c) => c.updated_unix \in Nat
  BY StatusNumbers, Zenon
<1>1. /\ UNCHANGED <<host, writer, files, age, handshake>> /\ wall' = t /\ t # wall
      /\ slips' = slips \cup {IF t < wall THEN "set back" ELSE "set ahead"}
  BY Zenon DEF ClockSet, process
<1>2. ~ClockLeft'
  BY <1>1, Zenon DEF ClockLeft
<1>3. NotBack' => NotBack /\ ~(t < wall)
  BY <1>1, Zenon DEF NotBack
<1>4. OneWriter' => OneWriter /\ t < wall
  BY <1>1, Zenon DEF OneWriter
<1>5. Dated'
  <2> SUFFICES ASSUME NotBack, ~(t < wall)
               PROVE  /\ known(files.path) => files.path.updated_unix + age <= t
                      /\ known(files.tmp) => files.tmp.updated_unix <= t
    BY <1>1, <1>3, Zenon DEF Dated, known
  <2>1. /\ known(files.path) => files.path.updated_unix + age <= wall
        /\ known(files.tmp) => files.tmp.updated_unix <= wall
    BY Zenon DEF StatusInv, Dated
  <2> QED
    BY <1>0, <1>a, <2>1
<1>6. Followed'
  BY <1>1, Zenon DEF StatusInv, Followed
<1>7. Prompt'
  <2> SUFFICES ASSUME OneWriter, t < wall
               PROVE  /\ age <= FreshSecs => known(files.path) /\ t <= files.path.updated_unix + age
                      /\ \A d \in Daemons : writer[d].written =>
                           known(files.tmp) /\ t <= files.tmp.updated_unix
    BY <1>1, <1>4, Zenon DEF Prompt, known
  <2>1. age <= FreshSecs => known(files.path) /\ wall <= files.path.updated_unix + age
    BY Zenon DEF StatusInv, Prompt
  <2>2. \A d \in Daemons : writer[d].written => known(files.tmp) /\ wall <= files.tmp.updated_unix
    BY Zenon DEF StatusInv, Prompt
  <2> QED
    BY <1>0, <1>a, <2>1, <2>2
<1>8. Rows'
  BY <1>2, Zenon DEF Rows
<1> QED
  BY <1>5, <1>6, <1>7, <1>8, Zenon DEF StatusInv

\* StatusInv, with the types and what is known of the one writer, is inductive.
LEMMA StatusKept ==
  ASSUME Typed, LifecycleInv, Sole, Writing, StatusInv, [LifecycleNext]_lifecycleVars
  PROVE  StatusInv'
<1>1. CASE UNCHANGED <<host, files, writer, clock, slips>>
  BY <1>1, QuietStatus, Zenon DEF clock
<1>2. CASE NoProcess /\ UNCHANGED <<host, files, clock, slips>>
  BY <1>2, QuietStatus, Zenon DEF clock, NoProcess
<1>3. ASSUME NEW d \in Daemons, OnStartCommand(d) PROVE StatusInv'
  <2>1. slips \subseteq slips' /\ writer' = writer /\ UNCHANGED <<host, files, wall, age, handshake>>
    BY <1>3, Zenon DEF OnStartCommand, daemon_spawn_with_fd, spawn_with_transport, clock
  <2> QED
    BY <2>1, QuietStatus, Zenon
<1>4. CASE \E d \in Daemons : TickOpens(d) \/ TickWrites(d) \/ TickRenames(d)
  BY <1>4, OpenedStatus, WrittenStatus, RenamedStatus, Zenon
<1>5. CASE Handshake \/ Second \/ \E t \in Secs : ClockSet(t)
  BY <1>5, HandshakeStatus, SecondStatus, SetStatus, Zenon
<1> QED
  BY <1>1, <1>2, <1>3, <1>4, <1>5, Zenon
     DEF LifecycleNext, DaemonSteps, StartFails, Started, GossipBinds, LoopBreaks, spawn_with_transport, GossipEnds,
         Run, Signal, ServiceRuns, ServiceStops, OnStartFails, StopService, OnDestroy, OnRevoke,
         daemon_shutdown, Joined, Killed, lifecycleVars, process

\* Writing is inductive, as in StateFileNeverTorn; with it all of the above holds
\* in every state.
LEMMA StatusInductive == LifecycleSpec => [](Typed /\ StatusInv)
<1>1. LifecycleInit => Typed /\ Sole /\ Writing
  BY TypedAtStart, WritingAtStart, Zenon
<1>2. ASSUME LifecycleInit PROVE StatusInv
  <2>0. FreshSecs \in Nat
    BY StatusAssumption, Zenon
  <2>1. ~known(files.path) /\ ~known(files.tmp)
    <3>1. files \in [path: {Absent, Whole(StateVersion - 1, 0, 0)}, tmp: {Absent}]
      BY <1>2, Zenon DEF LifecycleInit
    <3>2. StateVersion - 1 # StateVersion
      BY StatusAssumption
    <3>3. ~known(Absent) /\ ~known(Whole(StateVersion - 1, 0, 0))
      BY <3>2, Zenon DEF known, Absent, Whole
    <3> QED
      BY <3>1, <3>3, Zenon
  <2>2. Closed.at = "closed" /\ ~Closed.written
    BY Zenon DEF Closed
  <2>3. /\ \A d \in Daemons : writer[d] = Closed
        /\ age = FreshSecs + 1 /\ handshake.time = NoHandshake
    BY <1>2, Zenon DEF LifecycleInit
  <2>4. \A d \in Daemons : writer[d].at # "path" /\ ~writer[d].written
    BY <2>2, <2>3, Zenon
  <2>5. ~(age <= FreshSecs)
    BY <2>0, <2>3
  <2> QED
    BY <2>1, <2>3, <2>4, <2>5, Zenon DEF StatusInv, Dated, Followed, Prompt, Rows, Told
<1>3. Typed /\ [LifecycleNext]_lifecycleVars => Typed'
  BY ProcessTyped, HostTyped, FileTyped, ClockTyped, Zenon DEF Typed
<1>4. LifecycleInv /\ Sole /\ [LifecycleNext]_lifecycleVars => Sole'
  BY SoleKept, Zenon
<1>5. LifecycleInv /\ Sole /\ Writing /\ [LifecycleNext]_lifecycleVars => Writing'
  BY WritingKept, Zenon
<1>6. Typed /\ LifecycleInv /\ Sole /\ Writing /\ StatusInv /\ [LifecycleNext]_lifecycleVars => StatusInv'
  BY StatusKept, Zenon
<1> QED
  BY <1>1, <1>2, <1>3, <1>4, <1>5, <1>6, LifecycleInductive, PTL DEF LifecycleSpec

\* What `hextet status` and the apps show is true of the daemon, for every
\* freshness and handshake limit: a daemon shown as running replaced its state
\* file within FreshSecs seconds, one that did is shown as running, and a peer
\* shown as connected had a handshake within ConnectedSecs seconds (and FreshSecs
\* more where the row is read from the file), with the exceptions named in the
\* properties: a second daemon of the process, and a clock that is set.
THEOREM StatusAlwaysTrue == LifecycleSpec => []StatusTrue
<1>1. Typed /\ StatusInv => StoppedShown
  <2> SUFFICES ASSUME Typed, StatusInv, report.daemon = "running", NotBack PROVE age <= FreshSecs
    BY Zenon DEF StoppedShown, NotBack
  <2>1. known(files.path) /\ secs_ago(wall, files.path.updated_unix) <= FreshSecs
    BY Zenon DEF report, build_report, build_report_from_state, daemon_info, daemon_freshness
  <2>2. files.path.updated_unix + age <= wall
    BY <2>1, Zenon DEF StatusInv, Dated
  <2>3. wall \in Nat /\ age \in Nat /\ FreshSecs \in Nat /\ files.path.updated_unix \in Nat
    BY <2>1, StatusNumbers, Zenon
  <2> QED
    BY <2>1, <2>2, <2>3 DEF secs_ago, saturating_sub
<1>2. Typed /\ StatusInv => RunningShown
  <2> SUFFICES ASSUME Typed, StatusInv, age <= FreshSecs, OneWriter PROVE report.daemon = "running"
    BY Zenon DEF RunningShown, OneWriter
  <2>1. known(files.path) /\ wall <= files.path.updated_unix + age
    BY Zenon DEF StatusInv, Prompt
  <2>2. wall \in Nat /\ age \in Nat /\ FreshSecs \in Nat /\ files.path.updated_unix \in Nat
    BY <2>1, StatusNumbers, Zenon
  <2>3. secs_ago(wall, files.path.updated_unix) <= FreshSecs
    BY <2>1, <2>2 DEF secs_ago, saturating_sub
  <2> QED
    BY <2>1, <2>3, Zenon DEF report, build_report, build_report_from_state, daemon_info, daemon_freshness
<1>3. Typed /\ StatusInv => ConnectedIsFresh
  <2> SUFFICES ASSUME Typed, StatusInv, report.row = "connected", report.daemon = "running", ClockLeft
               PROVE  /\ handshake.time # NoHandshake
                      /\ handshake.age < ConnectedSecs + IF host = "foreground" THEN 0 ELSE FreshSecs
    BY Zenon DEF ConnectedIsFresh, ClockLeft
  <2>0. /\ FreshSecs \in Nat /\ ConnectedSecs \in Nat /\ wall \in Nat /\ age \in Nat
        /\ handshake.age \in Nat /\ (handshake.time # NoHandshake => handshake.time \in Nat)
    BY StatusNumbers, Zenon
  <2>1. CASE host = "foreground"
    <3>1. classify(handshake.time, wall) = "connected"
      BY <2>1, Zenon DEF report, build_report, observed
    <3>2. handshake.time # NoHandshake /\ wall >= handshake.time /\ wall - handshake.time < ConnectedSecs
      BY <3>1, Zenon DEF classify
    <3>3. handshake.age = Min2(wall - handshake.time, ConnectedSecs + FreshSecs)
      BY <3>2, Zenon DEF StatusInv, Rows
    <3> QED
      BY <2>0, <2>1, <3>2, <3>3 DEF Min2
  <2>2. CASE host # "foreground"
    <3>1. known(files.path) /\ secs_ago(wall, files.path.updated_unix) <= FreshSecs
      BY <2>2, Zenon DEF report, build_report_from_state, daemon_info, daemon_freshness
    <3>2. row_state(files.path.secs) = "connected"
      BY <2>2, <3>1, Zenon DEF report, build_report_from_state
    <3>3. files.path.secs # NoHandshake /\ files.path.secs < ConnectedSecs
      BY <3>2, Zenon DEF row_state
    <3>4. files.path.secs \in Nat /\ files.path.updated_unix \in Nat
      BY <3>1, <3>3, StatusNumbers, ZenonT(30)
    <3>5. handshake.time # NoHandshake /\ handshake.age + files.path.updated_unix <= files.path.secs + wall
      BY <2>2, <3>1, <3>3, Zenon DEF StatusInv, Rows, Told
    <3>6. wall <= files.path.updated_unix + FreshSecs
      BY <2>0, <3>1, <3>4, SMTT(30) DEF secs_ago, saturating_sub
    <3>7. handshake.age < ConnectedSecs + FreshSecs
      BY <2>0, <3>3, <3>4, <3>5, <3>6, SMTT(30)
    <3> QED
      BY <2>2, <3>5, <3>7, Zenon
  <2> QED
    BY <2>1, <2>2, Zenon
<1>4. Typed => LifecycleTypeOK
  BY TypedAtStart, Zenon
<1> QED
  BY <1>1, <1>2, <1>3, <1>4, StatusInductive, StateFileNeverTorn, PTL DEF StatusTrue
=============================================================================
