--------------------------------- MODULE Mesh ---------------------------------
(***************************************************************************)
(* Daemons that gossip through their tunnels about addresses and members    *)
(* (engine/src/gossip.rs, members.rs, on_membership_event in daemon.rs, and  *)
(* `hextet member` of the command line).  Each daemon has a gossip task,    *)
(* which owns the table, and a main loop, which owns the list of peers and   *)
(* the file of members; two channels connect them.  The network loses,       *)
(* repeats and reorders datagrams: `net` has all that were ever sent.        *)
(*                                                                          *)
(* Clocks are arbitrary: a number taken from a clock is any number.          *)
(***************************************************************************)
EXTENDS GossipWire

CONSTANTS Daemons,        \* the nodes whose daemons run
          Nodes,          \* all nodes
          Configured,     \* daemon -> the peers of its configuration file
          AdminKeys,      \* [node] admin_keys; none: everybody
          AddrLists,      \* the lists of addresses a host can have; 0 is the empty one
          Operators,      \* the nodes where `hextet member` is used
          Subjects,       \* and the nodes it is used for, which run no daemon of this module:
                          \* the tunnels between its daemons stay
          Strays,         \* other datagrams: [wire, dst, inside]
          MaxNow,         \* bound: the clocks of the daemons show 0..MaxNow
          MaxOperatorNow, \* bound: and those where `hextet member` is used 0..MaxOperatorNow
          ChannelSize,    \* capacity of the channel of events
          MaxChanges      \* bound: restarts, changed addresses, commands, failed writes

ASSUME ConfiguredAssumption == Configured \in [Daemons -> SUBSET Nodes]
\* A node is its public key.
ASSUME NodesAssumption == /\ Daemons \subseteq Nodes /\ CurvePoints \subseteq Nodes
                          /\ \A m \in Strays : m.dst \in Daemons
ASSUME LimitsAssumption == {MaxStoreEntries, ChannelSize, MaxChanges} \subseteq Nat

VARIABLES
  store,      \* daemon -> its table
  bc,         \* daemon -> Broadcast
  targets,    \* daemon -> where the gossip task sends
  events,     \* daemon -> channel from the gossip task to the main loop
  ctl,        \* daemon -> last UpdateTargets the gossip task has not taken, or NoControl
  peers,      \* daemon -> keys of the run-time peers
  members,    \* daemon -> MembersFile in memory
  disk,       \* daemon -> members.json
  host,       \* daemon -> list_global_ipv6 of its host
  net,        \* <<dst, wire>>
  changes
vars == <<store, bc, targets, events, ctl, peers, members, disk, host, net, changes>>
gossip == <<store, bc, targets>>
main == <<peers, members, disk>>

Keys == Nodes \X Kinds
NoControl == {0}
EmptyStore == [k \in Keys |-> NoEntry]
Spend == changes < MaxChanges /\ changes' = changes + 1

\* run_async: the peers of the configuration and the members of the file.
StartPeers(x, file) == Configured[x] \cup file
\* Broadcast::new, with what the clock says.
NewBroadcast(now) == [addrs |-> 0, entry |-> NoEntry, seq |-> now]

Init ==
  /\ store = [x \in Daemons |-> EmptyStore]
  /\ bc = [x \in Daemons |-> NewBroadcast(0)]
  /\ targets = Configured /\ peers = Configured
  /\ events = [x \in Daemons |-> <<>>] /\ ctl = [x \in Daemons |-> NoControl]
  /\ members = [x \in Daemons |-> {}] /\ disk = [x \in Daemons |-> {}]
  /\ host = [x \in Daemons |-> 1]
  /\ net = {} /\ changes = 0

-----------------------------------------------------------------------------
(* The gossip task. *)
\* own_entry: signed anew only when the addresses are not those of the last one.
\* Mutant: signed anew for every broadcast.
own_entry_always(x, b) ==
  IF host[x] = 0 THEN {b}
  ELSE {[addrs |-> host[x], entry |-> sign_endpoint(x, host[x], b.seq + 1), seq |-> b.seq + 1]}
\* Mutant: signed once.
own_entry_once(x, b) ==
  IF host[x] = 0 \/ b.entry # NoEntry THEN {b}
  ELSE {[addrs |-> host[x], entry |-> sign_endpoint(x, host[x], b.seq + 1), seq |-> b.seq + 1]}
own_entry(x, b) ==
  IF host[x] = 0 \/ host[x] = b.addrs THEN {b}
  ELSE {[addrs |-> host[x], entry |-> sign_endpoint(x, host[x], s), seq |-> s] :
         s \in {IF now > b.seq THEN now ELSE b.seq + 1 : now \in 0..MaxNow}}
\* broadcast: the own entry, unless the host has no address, and all of the table.
Sent(x, b, st) ==
  {<<t, encode(e)>> : t \in targets[x],
                      e \in entries(st) \cup (IF host[x] = 0 \/ b.entry = NoEntry THEN {} ELSE {b.entry})}
Broadcast(x, st) ==
  \E b \in own_entry(x, bc[x]) :
    /\ bc' = [bc EXCEPT ![x] = b]
    /\ net' = net \cup {m \in Sent(x, b, st) : m[1] \in Daemons}

\* serve: the timer, or a kick after a change of address or a new connection.
BroadcastTick(x) ==
  /\ UNCHANGED <<store, targets, events, ctl, main, host, changes>>
  /\ Broadcast(x, store[x])

\* handle_datagram: the event, or "none".  The table has changed iff Merges.
Authorised(e) == e.kind = "Endpoint" \/ AdminKeys = {} \/ e.signer \in AdminKeys
Accepts(x, w, inside) ==
  /\ inside /\ check(w) = "ok" /\ Authorised(decode(w))
  /\ decode(w).kind = "Endpoint" => decode(w).node # x /\ HasEndpoints(decode(w))
\* What the main loop is told; what on_discovered does is in RelayLink.
Event(st, e) ==
  IF e.kind = "Member" /\ is_revoked(st, e.node) THEN <<>>
  ELSE [Endpoint |-> <<>>, Member |-> <<<<"MemberAdmitted", e.node>>>>,
        Revocation |-> <<<<"Revoked", e.node>>>>][e.kind]
\* An entry that made an event is passed on at once; where list_global_ipv6 fails
\* (~listed) nothing is sent.
Handle(x, w, inside, listed) ==
  LET e == decode(w)
      st == Merged(store[x], e)
  IN  /\ Accepts(x, w, inside)
      /\ merge(store[x], e) = "Applied"
      /\ Len(events[x] \o Event(st, e)) =< ChannelSize
      /\ UNCHANGED <<targets, ctl, main, host>>
      /\ store' = [store EXCEPT ![x] = st]
      /\ events' = [events EXCEPT ![x] = @ \o Event(st, e)]
      /\ IF listed /\ (e.kind = "Endpoint" \/ Event(st, e) # <<>>) THEN Broadcast(x, st)
         ELSE UNCHANGED <<bc, net>>
Receive(x) ==
  \E m \in net, listed \in BOOLEAN :
    /\ m[1] = x /\ Handle(x, m[2], TRUE, listed)
    /\ IF listed THEN UNCHANGED changes ELSE Spend
ReceiveStray == Spend /\ \E m \in Strays : Handle(m.dst, m.wire, m.inside, TRUE)
TakeControl(x) ==
  /\ UNCHANGED <<store, bc, events, main, host, net, changes>>
  /\ ctl[x] # NoControl
  /\ targets' = [targets EXCEPT ![x] = ctl[x]]
  /\ ctl' = [ctl EXCEPT ![x] = NoControl]

-----------------------------------------------------------------------------
(* The main loop. *)
\* MembersFile::save: the file is replaced, or stays as it was.
Save(x, file) ==
  \/ disk' = [disk EXCEPT ![x] = file] /\ UNCHANGED changes
  \/ Spend /\ UNCHANGED disk
\* Mutant: the member is only taken from the file.
Forget_file(x, n) == UNCHANGED peers
Forget(x, n) == peers' = [peers EXCEPT ![x] = @ \ {n}]
upsert(x, n) == members' = [members EXCEPT ![x] = @ \cup {n}]
remove(x, n) == members' = [members EXCEPT ![x] = @ \ {n}]
\* on_membership_event.
OnEvent(x) ==
  /\ UNCHANGED <<gossip, host, net>>
  /\ events[x] # <<>>
  /\ events' = [events EXCEPT ![x] = Tail(@)]
  /\ LET what == Head(events[x])[1]
         n == Head(events[x])[2]
     IN  \/ /\ what = "MemberAdmitted" /\ n \in peers[x]
            /\ UNCHANGED <<peers, members, disk, ctl, changes>>
         \/ /\ what = "MemberAdmitted" /\ n \notin peers[x]
            /\ peers' = [peers EXCEPT ![x] = @ \cup {n}]
            /\ upsert(x, n) /\ Save(x, members'[x])
            /\ ctl' = [ctl EXCEPT ![x] = peers'[x]]
         \/ /\ what = "Revoked"
            /\ Forget(x, n)
            /\ remove(x, n)
            /\ IF n \in members[x] THEN Save(x, members'[x]) ELSE UNCHANGED <<disk, changes>>
            /\ ctl' = [ctl EXCEPT ![x] = peers'[x]]

\* The daemon stops, or is killed, and is started again: the table is lost.
Restart(x) ==
  /\ Spend
  /\ store' = [store EXCEPT ![x] = EmptyStore]
  /\ \E now \in 0..MaxNow : bc' = [bc EXCEPT ![x] = NewBroadcast(now)]
  /\ members' = [members EXCEPT ![x] = disk[x]]
  /\ peers' = [peers EXCEPT ![x] = StartPeers(x, disk[x])]
  /\ targets' = [targets EXCEPT ![x] = StartPeers(x, disk[x])]
  /\ events' = [events EXCEPT ![x] = <<>>] /\ ctl' = [ctl EXCEPT ![x] = NoControl]
  /\ UNCHANGED <<disk, host, net>>

Renumber(x) ==
  /\ Spend
  /\ \E l \in AddrLists \ {host[x]} : host' = [host EXCEPT ![x] = l]
  /\ UNCHANGED <<gossip, events, ctl, main, net>>

\* `hextet member add` and `revoke`, at node x: to the configured peers, once.
Command(x) ==
  /\ Spend
  /\ \E n \in Subjects, now \in 0..MaxOperatorNow :
       \E e \in {sign_revocation(x, n, now)} \cup
                (IF n \in Configured[x] THEN {} ELSE {sign_member(x, n, 1, now)}) :
         net' = net \cup {<<t, encode(e)>> : t \in Configured[x] \cap Daemons}
  /\ UNCHANGED <<gossip, events, ctl, main, host>>

Next == \/ \E x \in Daemons : \/ BroadcastTick(x) \/ Receive(x) \/ TakeControl(x) \/ OnEvent(x)
                              \/ Restart(x) \/ Renumber(x) \/ (x \in Operators /\ Command(x))
        \/ ReceiveStray
Spec == Init /\ [][Next]_vars

(***************************************************************************)
(* The timers run and the tasks are scheduled (they alone empty their         *)
(* channels, but for a restart).  What a daemon repeats every  *)
(* BROADCAST_INTERVAL gets through in the end; what `hextet member` sends    *)
(* once need not.                                                           *)
(***************************************************************************)
Repeated(x) == (UNION {Sent(y, bc[y], store[y]) : y \in Daemons \ {x}}) \cap net
ReceiveRepeated(x) ==
  /\ UNCHANGED changes
  /\ \E m \in Repeated(x) : m[1] = x /\ Handle(x, m[2], TRUE, TRUE)
TakesControl(x) == ctl[x] # NoControl /\ ctl' = [ctl EXCEPT ![x] = NoControl]
TakesEvent(x) == events[x] # <<>> /\ events' = [events EXCEPT ![x] = Tail(@)]
Fairness ==
  \A x \in Daemons : /\ WF_vars(BroadcastTick(x)) /\ WF_vars(ReceiveRepeated(x))
                      /\ WF_ctl(TakesControl(x)) /\ WF_events(TakesEvent(x))
FairSpec == Spec /\ Fairness

-----------------------------------------------------------------------------
MeshTypeOK ==
  /\ \A x \in Daemons : /\ Size(store[x]) =< MaxStoreEntries
                         /\ Len(events[x]) =< ChannelSize
                         /\ peers[x] \subseteq Nodes /\ targets[x] \subseteq Nodes
  /\ members \in [Daemons -> SUBSET Nodes] /\ disk \in [Daemons -> SUBSET Nodes]
  /\ changes \in 0..MaxChanges

\* A daemon that knows of a Revocation has no such peer, or will have none once
\* it has taken the events that wait: whatever order Member and Revocation
\* entries came in, since the table does not order them (handle_datagram asks
\* is_revoked, on_membership_event takes the events in order).
RevokedStaysOut ==
  \A x \in Daemons : \A n \in Nodes :
    store[x][<<n, "Revocation">>] # NoEntry /\ n \in peers[x] => \E i \in DOMAIN events[x] :
      /\ events[x][i] = <<"Revoked", n>>
      /\ \A j \in i + 1..Len(events[x]) : events[x][j] # <<"MemberAdmitted", n>>

\* What a table says about an address was said by the node itself, and what it
\* says about a member by an administrator who is somebody else.
OwnWords ==
  \A x \in Daemons : \A e \in entries(store[x]) :
    /\ e.sig[1] = e.signer
    /\ IF e.kind = "Endpoint" THEN e.signer = e.node
       ELSE e.signer # e.node /\ (AdminKeys # {} => e.signer \in AdminKeys)

\* No self-excitation: a node's own entry exists in no more versions than its
\* address changed or it was restarted, however often the others' entries make
\* it broadcast (the comment on Broadcast calls this the key invariant).
NoSelfExcitation ==
  \A x \in Daemons :
    Cardinality({m[2][4] : m \in {c \in net : c[2][3] = 1 /\ c[2][5] = x}}) =< changes + 1

\* While a daemon runs, what its table has for a key is only replaced by a later
\* entry, or by one with the same number and smaller bytes.
StoreAdvances ==
  [][\A x \in Daemons : store'[x] # EmptyStore => \A k \in Keys : store[x][k] # NoEntry =>
       \/ store'[x][k] = store[x][k]
       \/ store'[x][k].seq > store[x][k].seq
       \/ store'[x][k].seq = store[x][k].seq /\ Smaller(store'[x][k], store[x][k])]_vars

\* A Revocation that is still in some daemon's table reaches all, and the node is nobody's peer
\* in the end, also where it is configured and where the file of members brought
\* it back at a restart; unless the other's table is full.
Room(y, k) == store[y][k] # NoEntry \/ Size(store[y]) < MaxStoreEntries
RevocationSpreads ==
  \A n \in Subjects : \A y \in Daemons :
    <>[]((\E x \in Daemons : store[x][<<n, "Revocation">>] # NoEntry) /\ Room(y, <<n, "Revocation">>))
      => <>[](n \notin peers[y])

\* The others learn a host's last address, unless a clock that went back made the
\* node number its entry below one that is still around.
Outrun(x) == \E y \in Daemons : LET e == store[y][<<x, "Endpoint">>] IN
               e # NoEntry /\ bc[x].entry # NoEntry /\ Beats(e, bc[x].entry)
AddressSpreads ==
  \A x \in Daemons : \A y \in Daemons \ {x} :
    <>[](~Outrun(x) /\ host[x] \notin Unusable \cup {0} /\ Room(y, <<x, "Endpoint">>))
      => <>[](store[y][<<x, "Endpoint">>] # NoEntry /\ store[y][<<x, "Endpoint">>].body = host[x])

\* What a daemon's table may hold, and how it may change (GossipStore::merge with
\* the checks before it): authorised words only, no versions without a cause, and
\* only ever forward.
StoreSound == [](MeshTypeOK /\ OwnWords /\ NoSelfExcitation) /\ StoreAdvances
=============================================================================
