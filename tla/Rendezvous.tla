------------------------------ MODULE Rendezvous ------------------------------
(***************************************************************************)
(* How a node's new address reaches its peers when the tunnel is gone: the     *)
(* watch on the addresses of the node (platform/src), the main loop that        *)
(* debounces its events and kicks the tasks (daemon.rs, run_async), one task    *)
(* that publishes (lan.rs, dht.rs or ddns.rs), what carries the announcement,   *)
(* and the task and main loop of the peer that looks for it.                   *)
(*                                                                           *)
(* "me" publishes and another node seeks.  A behaviour has one carrier: the     *)
(* tasks share nothing but the kicks, which go to each of them alike.  Timers    *)
(* are nondeterminism: a periodic tick may come at any time.  The clock counts   *)
(* the seconds of a beacon or the hours of an epoch.                          *)
(***************************************************************************)
EXTENDS Slips, Records

CONSTANTS Addrs,        \* what an interface may be given
          Setups,       \* pairs of one of "lan", "dht", "webhook", "cloudflare"
                        \* and one of "linux", "macos", "windows"
          Replicas,     \* the DHT nodes that keep the record
          EventCap, KickCap, InboxCap, NetCap,   \* bounds: channels, packets in flight
          MaxPublished, \* endpoints in a record
          MaxNow, MaxEpoch    \* bounds: seconds of a beacon, hours of a record

ASSUME RendezvousAssumption ==
  /\ {EventCap, InboxCap, NetCap} \subseteq Nat /\ {KickCap, MaxNow, MaxEpoch} \subseteq Nat \ {0}
  /\ \E a \in Addrs : \A b \in Addrs : a =< b

VARIABLES
  carrier, platform,
  own,        \* the addresses of the interface
  watch,      \* on; snap: the last frame; left: events still to be sent
  events,     \* AddrEvents in the channel
  mainLoop,   \* loop or debounce
  kicks,      \* kicks in the channel of the task
  publication,  \* the publishing task: idle, or between two awaits
  read,       \* history: what the last publication read
  net,        \* beacons on their way
  store,      \* the copies of the record in the DHT
  late,       \* a request that outlived the process which sent it
  txts,       \* the TXT strings of the name
  now,
  table, inbox, discovered    \* the seeker: its LanTable, its channel, PeerRuntime.discovered
publisher == <<watch, events, mainLoop, kicks, publication, read>>
air == <<net, store, late, txts>>
seeker == <<table, inbox, discovered>>
fixed == <<carrier, platform>>
rendezvousVars == <<fixed, own, publisher, air, now, seeker, slips, changes>>

Me == "me"
Ddns == carrier \in {"webhook", "cloudflare"}
End == IF Ddns THEN MaxEpoch ELSE MaxNow
Asleep == [on |-> FALSE, snap |-> {}, left |-> 0]
Unread == {0}     \* before the first publication
Idle == [pc |-> "idle"]
Foreign == [prefix |-> "v=spf1", epoch |-> 0, value |-> {}]
Empty == [n \in {} |-> <<>>]
RendezvousInit ==
  /\ \E s \in Setups : carrier = s[1] /\ platform = s[2]
  /\ own = {Smallest(Addrs)} /\ read = Unread
  /\ watch = Asleep /\ events = 0 /\ mainLoop = "loop" /\ kicks = 0 /\ publication = Idle
  /\ net = <<>> /\ store = [r \in Replicas |-> None] /\ late = <<>>
  /\ txts \in (IF carrier = "cloudflare" THEN {<<>>, <<Foreign>>} ELSE {<<>>})
  /\ now = 1 /\ table = Empty /\ inbox = <<>> /\ discovered = {}
  /\ slips = {} /\ changes = 0

Fault == Spend /\ UNCHANGED slips

(* The watch.  Linux pushes what changed, unfiltered; the others compare two   *)
(* frames of usable addresses.  Until it listens, or has its first frame, a     *)
(* change goes unseen.                                                       *)
list_global_ipv6(addrs) == addrs \cap Usable
current_global_addrs(addrs) == addrs \cap Usable
list_global_ipv6_sync(addrs) == addrs \cap Usable
diff_addrs(previous, current) == (current \ previous) \cup (previous \ current)
Pushes == platform = "linux"
\* An address that comes and goes between two frames.
Flap == ~Pushes /\ watch.snap = own' \cap Usable /\ watch.snap # own \cap Usable
Change ==
  /\ \E a \in Addrs : own' = diff_addrs(own, {a})
  /\ Spend /\ slips' = slips \cup (IF ~watch.on THEN {"gap"} ELSE IF Flap THEN {"flap"} ELSE {})
  /\ watch' = IF watch.on /\ Pushes THEN [watch EXCEPT !.left = @ + 1] ELSE watch
  /\ UNCHANGED <<fixed, events, mainLoop, kicks, publication, read, air, now, seeker>>
Listen ==
  /\ ~watch.on /\ "watch" \notin slips
  /\ watch' = [on |-> TRUE, snap |-> IF Pushes THEN {} ELSE current_global_addrs(own), left |-> 0]
  /\ NoSlip /\ UNCHANGED <<fixed, own, events, mainLoop, kicks, publication, read, air, now, seeker>>
\* A frame is taken once the events of the last one are sent.
Compare(frame) ==
  /\ watch.on /\ watch.left = 0 /\ watch.snap # frame
  /\ watch' = [watch EXCEPT !.snap = frame, !.left = Cardinality(diff_addrs(watch.snap, frame))]
  /\ NoSlip /\ UNCHANGED <<fixed, own, events, mainLoop, kicks, publication, read, air, now, seeker>>
MacPoll == platform = "macos" /\ Compare(current_global_addrs(own))
WindowsPoll == platform = "windows" /\ Compare(list_global_ipv6_sync(own))
\* An enumeration that fails ends the watch on macOS, and one round of it on Windows.
PollFails ==
  /\ watch.on /\ platform = "macos" /\ watch.left = 0 /\ Slip("watch")
  /\ watch' = Asleep
  /\ UNCHANGED <<fixed, own, events, mainLoop, kicks, publication, read, air, now, seeker>>
SendEvent ==
  /\ watch.left > 0 /\ events < EventCap
  /\ watch' = [watch EXCEPT !.left = @ - 1] /\ events' = events + 1
  /\ NoSlip /\ UNCHANGED <<fixed, own, mainLoop, kicks, publication, read, air, now, seeker>>

(* run_async: the first event, a pause, the rest of them, and a try_send of a   *)
(* kick to the task.                                                         *)
try_send(n, cap) == IF n < cap THEN n + 1 ELSE n
AddrChanged ==
  /\ mainLoop = "loop" /\ events > 0
  /\ events' = events - 1 /\ mainLoop' = "debounce"
  /\ NoSlip /\ UNCHANGED <<fixed, own, watch, kicks, publication, read, air, now, seeker>>
Debounced ==
  /\ mainLoop = "debounce"
  /\ events' = 0 /\ kicks' = try_send(kicks, KickCap) /\ mainLoop' = "loop"
  /\ NoSlip /\ UNCHANGED <<fixed, own, watch, publication, read, air, now, seeker>>

(* The publishing task.  A kick or a tick starts a publication, which reads the *)
(* addresses first; without one, or if they cannot be read, it is skipped.      *)
Cap == IF Ddns THEN MaxPublished ELSE BeaconMaxAddrs
Eps(addrs) == take(usable_endpoints(list_global_ipv6(addrs)), Cap)
announce == Beacon(Me, now, list_global_ipv6(own))
\* Nothing that a tick could improve: the newest copy is of these addresses already.
Settled ==
  /\ carrier = "dht"
  /\ {rec.value : rec \in get_mutable_most_recent(store, Replicas)} = {Eps(own)}
publish_own ==
  /\ read' = list_global_ipv6(own)
  /\ IF Eps(own) = {} THEN UNCHANGED <<publication, net>>
     ELSE IF carrier = "lan" THEN publication' = publication /\ net' = Append(net, announce)
     ELSE net' = net /\ publication' = [pc |-> "found", eps |-> Eps(own)]
ToPublish == publication = Idle /\ Len(net) < NetCap
Kicked ==
  /\ ToPublish /\ kicks > 0 /\ kicks' = kicks - 1
  /\ \/ publish_own /\ NoSlip
     \/ Slip("enumerate") /\ UNCHANGED <<publication, read, net>>
  /\ UNCHANGED <<fixed, own, watch, events, mainLoop, store, late, txts, now, seeker>>
PublishTick ==
  /\ ToPublish /\ ~Settled
  /\ publish_own
  /\ NoSlip /\ UNCHANGED <<fixed, own, watch, events, mainLoop, kicks, store, late, txts, now, seeker>>

\* DhtClient::publish reads the newest number from the nodes that answer, then puts.
Answering == {Replicas} \cup {R \in SUBSET Replicas : R # {}}
DhtRead ==
  /\ carrier = "dht" /\ publication.pc = "found"
  /\ \E R \in Answering :
       /\ \E rec \in get_mutable_most_recent(store, R) :
            publication' = [pc |-> "ready", put |-> publish(rec, publication.eps)]
       /\ IF R = Replicas THEN NoSlip ELSE Fault
  /\ UNCHANGED <<fixed, own, watch, events, mainLoop, kicks, read, air, now, seeker>>
\* Mutant: a publication answers the kicks that came while it ran.
DhtPut_drains ==
  /\ carrier = "dht" /\ publication.pc = "ready" /\ publication' = Idle /\ kicks' = 0
  /\ store' = [r \in Replicas |-> put_mutable(store[r], publication.put)]
  /\ NoSlip /\ UNCHANGED <<fixed, own, watch, events, mainLoop, read, net, late, txts, now, seeker>>
DhtPut ==
  /\ carrier = "dht" /\ publication.pc = "ready" /\ publication' = Idle
  /\ \E R \in Answering \cup {{}} :
       /\ store' = [r \in Replicas |-> IF r \in R THEN put_mutable(store[r], publication.put) ELSE store[r]]
       /\ IF R = Replicas THEN NoSlip ELSE Fault
  /\ UNCHANGED <<fixed, own, watch, events, mainLoop, kicks, read, net, late, txts, now, seeker>>
DdnsFind ==
  /\ Ddns /\ publication.pc = "found"
  /\ publication' = [pc |-> "ready", id |-> find_record_id(txts), txt |-> render_record(now, publication.eps)]
  /\ NoSlip /\ UNCHANGED <<fixed, own, watch, events, mainLoop, kicks, read, air, now, seeker>>
set_txt(req) == IF carrier = "webhook" THEN webhook_set_txt(txts, req.txt) ELSE cloudflare_set_txt(txts, req.id, req.txt)
DdnsSet ==
  /\ Ddns /\ publication.pc = "ready" /\ publication' = Idle
  /\ \/ txts' = set_txt(publication) /\ NoSlip
     \/ txts' = txts /\ Fault
  /\ UNCHANGED <<fixed, own, watch, events, mainLoop, kicks, read, net, store, late, now, seeker>>

(* The daemon ends and starts again.  A request that was on its way may still   *)
(* arrive, before the clock's last tick.                                     *)
Restart ==
  /\ watch' = Asleep /\ events' = 0 /\ mainLoop' = "loop" /\ kicks' = 0 /\ publication' = Idle /\ read' = Unread
  /\ \/ late' = late /\ Fault
     \/ publication.pc = "ready" /\ late = <<>> /\ now < End /\ late' = <<publication>> /\ Fault
  /\ UNCHANGED <<fixed, own, net, store, txts, now, seeker>>
Late ==
  /\ late # <<>> /\ now < End /\ late' = <<>>
  /\ IF Ddns THEN txts' = set_txt(late[1]) /\ store' = store
     ELSE txts' = txts /\ store' = [r \in Replicas |-> put_mutable(store[r], late[1].put)]
  /\ NoSlip /\ UNCHANGED <<fixed, own, publisher, net, now, seeker>>
Expire(r) ==
  /\ store[r] # None /\ Fault /\ store' = [store EXCEPT ![r] = None]
  /\ UNCHANGED <<fixed, own, publisher, net, late, txts, now, seeker>>

(* The network under the beacons: in order but for the faults.                *)
Scramble ==
  /\ net # <<>>
  /\ \/ net' = Tail(net) /\ Fault
     \/ Len(net) < NetCap /\ net' = Append(net, Head(net)) /\ Fault
     \/ net' = Append(Tail(net), Head(net)) /\ net' # net /\ Fault
  /\ UNCHANGED <<fixed, own, publisher, store, late, txts, now, seeker>>
\* Another node announces itself on the same LAN.
Stranger ==
  /\ carrier = "lan" /\ Len(net) < NetCap /\ Slip("stranger")
  /\ net' = Append(net, Beacon("other", now, Usable))
  /\ UNCHANGED <<fixed, own, publisher, store, late, txts, now, seeker>>
Tick ==
  /\ carrier # "dht" /\ now < End /\ now' = now + 1
  /\ NoSlip /\ UNCHANGED <<fixed, own, publisher, air, seeker>>

(* The seeker: lan::serve, and the lookups of dht::serve and ddns::serve; what  *)
(* they find goes to its main loop, on_discovered.                           *)
Room == Len(inbox) < InboxCap
Receive ==
  /\ carrier = "lan" /\ net # <<>> /\ Room /\ net' = Tail(net)
  /\ LET b == Head(net)
         got == handle_datagram(table, b, "seeker", now)
     IN  /\ table' = got.table
         /\ inbox' = IF got.changed /\ b.node = Me THEN Append(inbox, endpoints(b)) ELSE inbox
  /\ NoSlip /\ UNCHANGED <<fixed, own, publisher, store, late, txts, now, discovered>>
Prune ==
  /\ table' = prune(table, now) /\ table' # table
  /\ NoSlip /\ UNCHANGED <<fixed, own, publisher, air, now, inbox, discovered>>
DhtLookup ==
  /\ carrier = "dht" /\ Room
  /\ \E R \in Answering :
       /\ \E rec \in get_mutable_most_recent(store, R) :
            lookup(rec) # {} /\ inbox' = Append(inbox, lookup(rec))
       /\ IF R = Replicas THEN NoSlip ELSE Fault
  /\ UNCHANGED <<fixed, own, publisher, air, now, table, discovered>>
\* A name server lists the strings in any order.
DdnsLookup ==
  /\ Ddns /\ Room
  /\ \E answer \in {txts, [i \in DOMAIN txts |-> txts[Len(txts) + 1 - i]]} :
       select_endpoints(answer) # {} /\ inbox' = Append(inbox, select_endpoints(answer))
  /\ NoSlip /\ UNCHANGED <<fixed, own, publisher, air, now, table, discovered>>
on_discovered ==
  /\ inbox # <<>> /\ inbox' = Tail(inbox) /\ discovered' = Head(inbox)
  /\ NoSlip /\ UNCHANGED <<fixed, own, publisher, air, now, table>>
SeekerRestart ==
  /\ Fault /\ table' = Empty /\ inbox' = <<>> /\ discovered' = {}
  /\ UNCHANGED <<fixed, own, publisher, air, now>>

Publisher == Listen \/ MacPoll \/ WindowsPoll \/ SendEvent \/ AddrChanged \/ Debounced
Publishing == Kicked \/ DhtRead \/ DhtPut \/ DdnsFind \/ DdnsSet
Seeking == Receive \/ DhtLookup \/ DdnsLookup
RendezvousNext ==
  \/ Change \/ PollFails \/ Publisher \/ Publishing \/ PublishTick
  \/ Restart \/ Late \/ (\E r \in Replicas : Expire(r))
  \/ Scramble \/ Stranger \/ Tick
  \/ Seeking \/ Prune \/ on_discovered \/ SeekerRestart
RendezvousSpec == RendezvousInit /\ [][RendezvousNext]_rendezvousVars
(* Timers keep firing, and the runtime polls every task that can go on (only     *)
(* on_discovered empties its channel, but for a restart).                    *)
ClockGoesOn == carrier # "dht" /\ now < End /\ now' = now + 1
TakesReport == inbox # <<>> /\ inbox' = Tail(inbox)
FairRendezvous ==
  /\ RendezvousSpec
  /\ WF_rendezvousVars(Publishing) /\ WF_rendezvousVars(PublishTick) /\ WF_now(ClockGoesOn)
  /\ WF_rendezvousVars(Seeking) /\ WF_inbox(TakesReport)
-----------------------------------------------------------------------------
\* Every variable has its type, and no channel holds more than its capacity.
RendezvousTypeOK ==
  /\ own \subseteq Addrs /\ read \subseteq Addrs \cup Unread /\ watch.snap \subseteq Usable
  /\ events \in 0..EventCap /\ kicks \in 0..KickCap /\ mainLoop \in {"loop", "debounce"}
  /\ publication.pc \in {"idle", "found", "ready"} /\ Len(late) <= 1
  /\ Len(net) <= NetCap /\ Len(inbox) <= InboxCap
  /\ \A n \in DOMAIN table : table[n].eps \subseteq Usable /\ table[n].seq <= MaxNow /\ table[n].seen <= now
  /\ \A r \in Replicas : store[r].value \subseteq Usable
  /\ Cardinality(DOMAIN table) <= MaxTracked /\ discovered \subseteq Usable

\* A change of the usable addresses is never forgotten on the way from the watch to the task,
\* through a debounce that swallows events and a kick that try_send may drop: until a
\* publication reads them, something is left that will make it (daemon.rs: "re-announce at once,
\* do not let the peers wait a period"), if the watch lives, saw the change, and the read succeeds.
NotForgotten ==
  \/ read = list_global_ipv6(own)
  \/ read = Unread \/ watch.left > 0 \/ (watch.on /\ ~Pushes /\ watch.snap # list_global_ipv6(own))
  \/ events > 0 \/ mainLoop = "debounce" \/ kicks > 0
  \/ slips \cap {"gap", "flap", "watch", "enumerate"} # {}

\* An announcement of an earlier second never replaces one of a later second (LanTable::record:
\* "an older seq is dropped whole"), in whatever order the packets come.
LanNeverBack ==
  [][\A n \in DOMAIN table \cap DOMAIN table' : table'[n].seq >= table[n].seq]_rendezvousVars

\* A node heard within the time to live keeps its place, however many others announce themselves
\* (LanTable::record: "refuse the new entry rather than evict a known node").
KnownKept ==
  [][\A n \in DOMAIN table :
       now - table[n].seen <= EntryTTL /\ changes' = changes => n \in DOMAIN table']_rendezvousVars

\* The table of LAN nodes within its bounds: it only goes forward, and it does not let go of
\* a node that is there (LanTable::record, prune).
LanTableSound == []RendezvousTypeOK /\ LanNeverBack /\ KnownKept

\* Once the addresses are settled, and there is a usable one, the seeker has what is announced
\* of them and keeps it, whatever was lost, reordered, delayed or restarted before: over LAN
\* beacons (if no stranger took the last place in the table), over the DHT, where a publication
\* reads a number and writes the next one in two steps, and over DNS, where two records may come
\* of a lookup and an insertion that were not one step.
Found == discovered = Eps(own)
Crowded == carrier = "lan" /\ "stranger" \in slips
AddressFound == <>[](Eps(own) # {} /\ ~Crowded) => <>[]Found
=============================================================================
