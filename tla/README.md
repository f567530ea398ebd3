# hextet in TLA+

Specifications, TLC configurations and machine-checked proofs for hextet, an
IPv6-only peer-to-peer mesh VPN on WireGuard. Paths are relative to the
repository; a bare `daemon.rs`, `fsm.rs`, `gossip.rs` and the like is in
`crates/engine/src/`.

## The system

A node runs one daemon (`daemon.rs`, `run_async`). Its main loop is a single task
that owns, for every peer, a punching state machine (`fsm.rs`) over an ordered
list of candidate endpoints (`candidates.rs`), the endpoints the rendezvous layers
have reported, and a relay link. Everything else runs beside it:

- **WireGuard** (kernel or `wg-userspace`) completes handshakes and follows the
  peer's source address (roaming) whenever it likes. The loop sees it once per
  tick as a snapshot, and changes it through `set_peer_endpoint`, `add_peer` and
  `remove_peer`.
- **Rendezvous tasks**: LAN beacons (`lan.rs`), the DHT (`dht.rs`, the
  `discovery` crate) and DNS (`ddns.rs`) publish the node's addresses and look for
  those of its peers. The main loop kicks them when the addresses change.
- **Gossip** (`gossip.rs`) carries addresses, admissions and revocations through
  the tunnels; `on_membership_event` applies them, `members.rs` keeps them.
- **Relay**: when the direct candidates fail, a background task registers the
  pair at a relay node (`relay_client.rs`); the relay (`relay_server.rs`) gives
  each pair a UDP port and forwards between the two sides.
- **Routes** to networks behind a peer (`route_manager.rs`), installed while the
  peer is connected.
- **Files**: endpoint cache, member table and state file (`cache.rs`,
  `members.rs`, `state.rs`, all through `atomic.rs`); readers of the state file
  (`status.rs`, the CLI, the FFI, the apps).
- **Hosts of the daemon**: `hextet daemon`, the Windows service, and the Android
  VpnService over `engine-ffi`.
- **Commands**: `keygen`, `init`, `join`, `peer add`, `hosts`, `invite`, `member`,
  `up`, `down`, `doctor`.

`PROJECT.json` lists every part with its status, and under `hazards` what is hard
to test in each, at the line where it bites.

## Modules

| Module | Code | Contents |
|---|---|---|
| `Endpoint`, `Candidates`, `CandidateLoop` | `candidates.rs` | sources, the list that `build_candidates` yields, and its loops one push at a time |
| `PunchFsm` | `fsm.rs` | the operations of `PeerFsm` as pure operators |
| `PeerFsm` | `fsm.rs`; `tick_once`, `apply_actions` | one machine driven by the loop against WireGuard, step by step |
| `RelayLink` | `daemon.rs`, `cache.rs`, `relay_client.rs` | one peer with list, cache entry and relay link, and every handler that changes them |
| `RelayWire`, `RelayNet` | `core/src/relay.rs`, `relay_server.rs`, `relay_client.rs` | frames; relay, forwarding tasks and clients over a bad network |
| `RelayService` | | what a relay promises; `RelayNet` implements it, `RelayLink` builds on it |
| `GossipWire`, `Mesh` | `core/src/gossip.rs`, `gossip.rs`, `members.rs` | signed entries; daemons that gossip, their stores, main loops and member files |
| `Node` | `daemon.rs`, `route_manager.rs`, `wg`, `wg-userspace`, `platform` | what a daemon does to its own machine: device, routes, member file |
| `LanTable`, `Records`, `Rendezvous` | `lan.rs`, `dht.rs`, `ddns.rs`, `discovery`, `platform` | a changed address on its way from the interface to the peer |
| `StatusFile`, `Lifecycle` | `state.rs`, `status.rs`, `atomic.rs`, `engine-ffi`, Windows service, `HextetVpnService.kt` | a daemon's life in its host, the state file and what its readers are told |
| `Config`, `Invite`, `Setup` | `core/src/config.rs`, `route.rs`, `invite.rs`, `bootstrap.rs`, CLI | what loads, invitations, and the commands that write key and configuration |
| `Doctor` | `doctor_client.rs`, `probe_responder.rs`, `core/src/probe.rs`, `doctor.rs` | the reachability probe and its responder |
| `Budget`, `Slips` | | the bounded count of disturbances, and the kinds of them that properties except |
| `*Proofs` | | inductive invariants and theorems |
| `MC*` | | the instances TLC checks |

Definitions keep the names of the code. In every module an action is one handler
or one step between two `await`s, and `changes`, with its bound `MaxChanges`,
counts what disturbs the system (`Budget`). A variable called `slips` (`Slips`) or
marked as history exists for the properties only. Modules whose theorems share a proof
module have names of their own for the usual definitions (`PeerInit`, `PeerNext`,
`PeerSpec`, `LifecycleSpec`, `RendezvousSpec`, ...).

### PunchFsm and PeerFsm

`PunchFsm` has one operator per method: `new`, `current_candidate`, `kick`,
`set_candidates`, `retry_from` (with and without flush) and `tick`. Each returns
the new machine, the actions, and whether it moved `last_transition` and
`last_rotate`. `candidate_index` keeps base 0.

A tick of `PeerFsm` is three steps: `ReadStatus` takes the snapshot, `TickPeer` runs
the machine on it, `ApplyAction` applies one returned action; handshakes and
roaming may come between any two. `ApplyFails` is an error of
`set_peer_endpoint`. Instants are kept as ages with a cap where they stop
mattering; only the order of `last_handshake` and `last_transition` is kept
exactly (`hsAfter`).

### Candidates and CandidateLoop

`build_candidates` is a reference list (the sources in their order, without
repetitions, cut to the cap with the relay's place kept) and, in `CandidateLoop`, the
code's loops over the sources, one push per step. The sort by time puts each entry at
the place that the number of entries before it gives, and the entries a filter keeps
are picked by counting too (`Picked`): no operator recurses, so that the proofs reach
them. Variables and specification (`LoopSpec`) have names of their own, since
`EngineProofs` has the loops and the machine in one module.

### RelayLink

`peer` is one `PeerRuntime` with its cache entry and the kernel's peer. Each branch
of the loop's `select!` is one action: `tick_once` (the machine's tick, its actions,
`drive_relay` and its actions), `OnRelayRegistered`, `OnDiscovered`, `Kick`;
`SkippedTick` is the early return when the status cannot be read. A handler is
atomic here, since what the kernel does inside one is the subject of `PeerFsm`.
`jobs` and `results` are the registration task and its channel, `srv` the endpoint
at which the relay forwards. The relay is what `RelayService` leaves of it: an
answer with a port, a timeout, a session lost without notice. The link exists and
has a control address; an `Unregister` reaches the relay before the next tick or
is lost; cache entries have different seconds; `Nudge` changes nothing. The
assumptions only say what the addresses, reports, cache entries and limits are.

### RelayNet and RelayService

The server is a control task with the table of sessions (`serve`, `prune`, limits,
policy, age of a frame) and one forwarding task per session, fed through a bounded
channel from which `try_send` drops. A client is `register` with its
retransmissions, deadline and cool-down, and `unregister`. Datagrams are lost,
repeated, reordered and delayed; the relay restarts, its tasks fail, a client is
renumbered. `Strays` are datagrams that others send, most of them to be dropped;
`Genuine` are those that an allowed node signed.
`RelayService` has only the port of each pair and what each side was told.

### Mesh

Each daemon has a gossip task (table, broadcast, targets) and a main loop (peers,
member file), joined by the two channels of the code. An entry is a record of its
fields and its signature, which names signer and signed fields; `check` is
`GossipEntry::decode` and its tests in their order. `net` holds every datagram that
was ever sent, so that it may come again at any time. Clocks are arbitrary.
`Command` is `hextet member`. Of the control messages that wait only the last one is
kept: each holds the whole list of targets. A node is its public key, so whoever a
valid entry is about is one of `Nodes`.

### Node

`Start`, `SetupInterface` and `Serve` are the steps of `run_async` up to its loop,
`Tick` and `Visit` are `tick_once`, one peer per step, `MemberAdmitted` and `Revoked`
are `on_membership_event`, `Shutdown` and `Kill` the two ways to end. Both backends
are there: a kernel update creates what is missing, the userspace backend refuses
what it does not know and dies with its process. `sync` is the route manager's list
of removals and additions, which stops at the first error. `up`, `down` and `ByHand`
are run beside the daemon. The punching machine is left out: a tick may find a peer
connected if the device knows it, and may return any of its actions.

### Rendezvous

One node publishes and another seeks, over one carrier per behaviour (LAN, DHT,
webhook or Cloudflare DNS) and one kind of address watch (netlink events, polling,
route socket). `watch`, `events`, `mainLoop` and `kicks` are the way of a change from the
interface through the debouncing loop to the publishing task; `publication` is that task
between its awaits (read the addresses, look for the record, write it); `net`,
`store` and `txts` carry the announcement; `table`, `inbox` and `discovered` are
the seeker. `Scramble` loses, repeats and reorders beacons, `Late` is a request that
takes effect after its sender died, `Expire` a DHT node that forgets, `Stranger` another
node's beacon.

### Lifecycle and StatusFile

A daemon is named by its handle. `task` is the runtime's task, `registry` the map of
`engine-ffi`, `service` and `main` the host's service and its thread, which may be
blocked on the end of a daemon; `gossip` stands for the side tasks that end when
their channels close. The state file is replaced in three steps (open and truncate
the temporary file, write, rename), by every daemon of a process, under one
temporary name. The clock may be set. `report` is what `hextet status` or the FFI
says at any moment.

### Config, Invite and Setup

An address is a function from its `Width` places to bits; a mask is the places it
covers, overlay, sites and routes are prefixes, and the hashes that derive a node's
bits are arbitrary functions. `Config` is every test of `Config::load` in its order. `Setup` is one host with one
command at a time: each file operation is a step that may fail, after which the
code's clean-up runs, or be the last before a kill. A user edits the file by hand
between commands. Tokens carry what their signature covers, and time passes.

### Doctor

The client with its two sockets, retry timer and deadline, the responder with its
rate table and the task that sends the Unsolicited, the firewall with the state it
keeps for ports that sent, and packets that are lost or arrive at a later probe's
socket that got the same port. A packet is under way for at most `Flight` ticks.
`TimeoutSuffices` says which deadlines leave time for the retries: with the code's
1 s between two services and 700 ms between two Requests the default of 5 s suffices
while a packet takes no more than about 0.3 s one way.

## Runs

| Run | What it shows |
|---|---|
| `candidates` | the list: no repetitions, the relay's place, what a full list loses, the order of the sources, and that the loop computes the reference list |
| `peer_fsm` | index in bounds, the kernel probes the current candidate, no handshake is lost to a tick, a live one among several candidates is reached again and again |
| `relay_link` | one registration at a time, relay-only list, healthy connections kept, dead addresses not listed, a lost session is registered again outside an upgrade, every upgrade ends |
| `relay_net` | no forwarding task without its session, sessions only for those who asked, refinement of `RelayService`, two sides that keep wanting the relay reach each other |
| `mesh` | a revoked node stays out whatever the order of entries and events, the store only advances and holds authorised words only, no circles of broadcasts, revocations and addresses spread |
| `node` | routes follow connections and are taken back, the user's stay, the device carries what it must and no revoked node, tables and member file agree |
| `rendezvous` | no change of address is forgotten on its way to a publication, the LAN table never goes back or drops a live node, the peer ends with the announced addresses |
| `lifecycle` | a stopped host has no daemon left, the state file is never torn and its reports are true, shutdown and side tasks end |
| `setup` | a file that loads gives no address to two nodes, keys are kept, a joined network is one with an invitation, no command breaks a file it found whole |
| `doctor` | "open" only of an open firewall, the right verdict although a Request or Response is lost, one service per interval |
| `relay_link_wedged` | violated: recovery through the relay during an upgrade |
| `node_members` | violated: members served after a restart |

A property often has exceptions, which its comment names; each is a behaviour of the
code and listed under [Where the code and its comments part](#where-the-code-and-its-comments-part)
or under `hazards`. The properties that are conjunctions (`LinkSound`,
`SessionsSound`, `StoreSound`, `TablesSound`, `RoutesSound`, `FilesSound`, `StatusTrue`,
`VerdictRight`, ...) are made of the definitions that stand before them.

The two violated runs:

- *wedged*: the relay has lost the session when a report sets `upgrade_pending`.
  From then on `drive_relay` returns before it looks at the session, and nothing
  registers again. The comment at `daemon.rs:996` takes the relay to be alive.
- *node_members*: `members.json` brings a member back into the runtime table; the
  device is built from the configuration alone, and a later announcement of a node
  that is in the table is ignored.

### Bounds

- `MaxChanges` bounds disturbances: kicks, list changes, reports, restarts, kills,
  timeouts, renumbering, failed calls, commands. Two to four of them make each race
  below happen. Ticks, handshakes, roaming, retransmissions and deliveries are not
  bounded by it.
- Ages are capped at the interval they are compared with, and the intervals are small
  numbers in the order of the code's constants: in `RelayLink` rotation 1, renewal 2,
  freshness 3; in `Doctor` (a tick is about 300 ms) retry 2, rate interval 3, time to
  live 4, deadline 15; in `Lifecycle` freshness 1, "connected" 2, clock up to 3.
- Tables and channels are filled: lists of three candidates with up to seven offered, one
  relay session for two pairs that want one, stores of three entries for five keys
  in use, a LAN table and a rate table of one entry, channels of one or two places.
- `PeerFsm`: three endpoints (the probed, the live and one more). `RelayLink`: a
  configured address, one that an authoritative source (LAN) or another (gossip)
  reports and the first withdraws, a cache with and without it, and two relay ports,
  before and after a restart. `RelayNet`: the two sides of a pair, a third node, two ports. `Mesh`: two
  daemons, one with the administrator's key, and two nodes more. `Node`: a peer with two
  routes, one with one, a member, both backends; two of the routes may also be the
  user's. `Rendezvous`: two usable addresses and one that is not, two copies of the
  DHT record. `Setup`: addresses of five bits, all of them looked at.

`CHECK_DEADLOCK FALSE` stands where the system may stop: a finished list or probe, a
daemon or node whose disturbances are used up, and a publication with nothing to say.

### Fairness

- Timers fire and tasks that can go on are polled: weak fairness of the loop's steps
  (`ReadStatus`, `TickPeer`, `ApplyAction`, `Elapse`; `Tick \/ Visit`; `BroadcastTick`,
  `PublishTick`, `Publishing`, `Seeking`), of what only one handler does to a
  variable (`WF_results(TakesResult)`, `WF_events(TakesEvent)`, `WF_ctl(TakesControl)`,
  `WF_inbox(TakesReport)`, `WF_beat(Beats)`), and of the runtime in `Lifecycle`.
  `select!` picks among ready branches at random, so none starves.
- A registration task ends (`WF_jobs(TaskEnds)`): it has a deadline.
- The network is fair to what is repeated: a Register that is sent again and again
  gets through, and so does its answer (`Deliverable` in `RelayNet`); what a daemon
  broadcasts every interval gets through (`ReceiveRepeated` in `Mesh`). Nothing is
  assumed of a datagram sent once.
- An endpoint that the kernel keeps coming back to, and at which the peer answers,
  completes a handshake (`OutboundHandshake`): rotation is longer than a round trip.
  For several candidates this leaves out that both ends rotate and miss each other
  for ever.
- Nothing is assumed of users, faults, kills or clocks.

## Proofs

Each theorem holds for every value of the constants that the named `ASSUME`s allow;
TLC evaluates these on every run. `PROJECT.json` lists the theorems with the
properties they state.

| Module | Proved | Why more than the property is needed |
|---|---|---|
| `EngineProofs` | `NoRepeats`, `RelayHasPlace`, `LeftOutOnlyWhenFull`, `LoopComputesList`, `ListOrdered`; the lemmas on the machine's operations, the list and the sort that the next two use | until the relay is pushed the list keeps within the direct cap; an endpoint that was offered is in the list, still to come, or met a full list. `Progress`: what is made so far is the first occurrences of what was offered so far, cut at the cap; `InOrder`: what is offered next ranks no better than what was offered. `NoRepeats` is what `PeerFsm` assumes of its lists |
| `ReachProofs` (`PeerFsm`) | `TypeOK`, `IndexInBounds`, `KernelProbesCandidate`, `NoLostHandshake` | `Pointed`: while the machine probes, the kernel has the current candidate or an action that sets it is pending. `Evidence`: a handshake that is remembered is not older than `last_transition`. Without repetition-free lists a rotation could return to "the same" candidate with a newer `last_transition` |
| `RelayLinkProofs` | `LinkSound` (types, `OneRegistration`, `RelayOnlyList`), `HealthyConnectionKept`, `DeadAddressNotListed` | the link's flag agrees with the tasks and results under way; the list is re-made by every handler that changes session or upgrade. `Committed`: an upgrade is under way only on a peer with a session, never on a direct connection; so no report or result takes a direct connection back to probing |
| `MeshProofs` | `RevokedStaysOut`; `StoreSound` (`MeshTypeOK`, `OwnWords`, `NoSelfExcitation`, `StoreAdvances`) | `LastWord`: where the store has a Revocation of `n`, either a `Revoked` waits with no `MemberAdmitted` behind it, or `n` is no peer and no admission waits. The events of one step are looked at in turn (`LastWordAppend`, `LastWordTail`). `Fits`: the versions of a node's entry in datagrams, tables and its own `Broadcast`, and one more if its addresses are not those of its last entry, are no more than the changes; a stranger's datagram that brings a version is a change |
| `ReachProofs` (`RelayNet`) | `RelayNet` implements `RelayService` (`KeepsPromise`); `SessionsSound` (types, `NoOrphanForwarder`, `OnlyAskedFor`) | `Owned`: a running task's pair is in the table, at that task's port; so a step that drops a session stops its task, and an acknowledged port is the one served. For `OnlyAskedFor` every Register under way is a client's own or a stray, under the signature of the node it names |
| `NodeProofs` | `RoutesSound`, `UsersRoutesStay`, `ConfiguredCarried`, `RevokedOut`, `TablesSound` | `Turn`: the peers a tick has still to visit are in the table, so a removed peer is not visited; `Heard` and `Out`: who was revoked is in neither table nor device, unless a backend call failed or `up` was run; `Agree`: `TablesAgree` in the middle of a tick as well. `Carries`: from the start on the device has the configured peers in full. `Kept`: what the route manager tracks is in the system's table and not the user's; `Exact`: nothing else is there, and only for peers that are connected or revoked. What `sync` does with an error at any of its operations is a lemma of its own (the prefix of operations that ran). The order of the table is any enumeration of it (`Orders`), which needs finitely many keys |
| `DaemonProofs` (`Lifecycle`) | `NoneLeftBehind`; `StatusTrue` (types, `NeverTorn`, `StoppedShown`, `RunningShown`, `ConnectedIsFresh`) | `Reached`: a live daemon is in the registry or waited for; `Held`: unless the service was started twice, the live one is the one whose handle the service has or its thread waits for. `Sole` and `Writing`: then one temporary file is open, and whole when it is renamed. `Dated`, `Prompt` and `Rows`: the date in a file is that of its last replacement, and its row is of a handshake at least as old as the last one |
| `DaemonProofs` (`Rendezvous`) | `NotForgotten`; `LanTableSound` (types, `LanNeverBack`, `KnownKept`) | `WayTyped`: a watch that does not listen has nothing left to send, so a change it missed was counted as a gap. `AirInv`, `TaskInv`, `SeekInv`: channels keep within their capacity, and requests and reports hold usable addresses only; `TableOK`: the table is finite, within its cap, and no entry was heard later than now |
| `SetupProofs` | `Unambiguous`, `KeyKept`, `JoinedByInvitation`, `FilesSound` | two routes with an address in common overlap (`Nested`), sites that share one have the same subnet id (`SitesApart`) and lie in the overlay (`SiteInOverlay`): so the tests of `load` are enough. `SetupInv`: what a running command knows still holds (the key it found or made is where it was, the file it will write loads with that key, the one `peer add` started from loaded), and every token was made by a member |
| `DoctorProofs` | `OncePerInterval`; `VerdictRight` (types, `OpenMeansOpen`, `RightVerdict`) | `Remembered`: unless the table was cleared, the entry of a served source is not older than its service while the interval lasts. `Unasked`: an Unsolicited never comes from the socket that was asked, and one that passes shows the firewall open. `Due`: while the probe waits, either the responder's turn for the node comes by a known tick and a Request is there by then, or the answer is on its way, with a later tick once a packet was lost; `TimeoutSuffices` is the sum of these |

A proof has one step, or one lemma, per action. Where an action changes the state
through a pure operator (the machine's `tick`, `drive_relay`, the relay's `register`, the
store's `merge`, `sync`) the lemma is about the operator. The induction is then closed
by `PTL`. The invariants above were checked by TLC on the instances of the runs first.

The assumptions on the constants: intervals, limits and bounds are natural numbers, with
the order of the code's constants where it matters (`RotateInterval < RegisterInterval <
HandshakeFresh`, `RekeyAfter < HandshakeFresh`, `UnsolicitedDelay <= MinRequestInterval
<= RateEntryTTL`); addresses, lists, reports and cache entries have their types;
`PeerFsm`'s lists do not repeat an endpoint (proved of `build_candidates`); two peers of
one configuration announce no common route (`Config::load` refuses it); tables of peers
and pairs are finite; a datagram of others is addressed to a daemon, a node has an address;
the overlay is shorter than a site and a site not longer than an address, hashes have the
length they fill, and files, blocks and paths that users may give have their types.

Only model-checked:

- all liveness: fairness and `ENABLED` are outside the prover;
- the two runs that end in a violation.

## Where the code and its comments part

Two are runs with `expect: violation` (see above). The others are behaviours that a
property excepts, or that were met while reading; paths as before.

Punching and relay:

- A handshake between the read of `now` and the `SetEndpoint` counts for the new
  endpoint (`fsm.rs:290`); a single candidate is exempt from the test altogether
  (`fsm.rs:292`). The wrong "connected" ends after 180 s.
- A single candidate is not set again after a failed call or a roaming kernel
  (`fsm.rs:326`; `punching.md:49` and `60` speak of every rotation).
- A handshake through the relay before the registration's result is handled puts the
  relay's port into the endpoint cache (`daemon.rs:1598`; `relay.md:159` says it is
  never there), and the session is given back as if the path were direct
  (`daemon.rs:946`, `1123`).
- A forwarding task that failed is not replaced while its session is renewed
  (`relay_server.rs:361`).
- `peer_state_of` says "connected", not "relayed", of a peer still at the relay's
  former port.

Device, routes and members:

- A failed addition in `sync` is not retried as `route_manager.rs:58-60` promises:
  what was added before it is not recorded, and the next `sync` stops at it with
  "exists". A route of the user that is in the way has the same effect.
- `remove_all` forgets everything and stops at the first route that is gone.
- After a removal that failed half-way, or after `hextet down`, the manager tracks routes
  that are gone; if the user adds one of them, the next `sync` or `remove_all` deletes it
  (`route_manager.rs:43`: the structure only touches what it installed itself).
- `hextet up` beside a daemon drops the members gossip has added; after `hextet
  down` ticks do nothing, and the next membership event makes a bare device.
- `RouteManager::remove_peer` is never called.
- A lookup over the DHT keeps the main loop's control message waiting up to 20 s when
  the channel is full; with more than 64 results and 4 changes under way both ends
  of the gossip channels can wait for each other (`daemon.rs:1346`). The instances
  are too small for that.

Rendezvous:

- A change between the first publication and the watch's first frame, or one that is
  undone between two polls, is not noticed; on macOS an error in the enumeration ends
  the watch.
- Two beacons of one second have equal numbers, and the later arrival wins
  (`lan.rs:82`). A table full of others refuses the peer (`lan.rs:94`).
- A DHT write after a silent copy may repeat its number; Cloudflare's find-then-create
  may leave two records, one of them old.

Hosts and status:

- A second start of the Android service overwrites `daemonHandle`
  (`HextetVpnService.kt:81`): the first daemon cannot be stopped, and both write
  the same temporary state file. The tunnel's descriptor is never closed.
- FFI and Windows service report a start although `run_async` fails later.
- Probe responder, relay server and HTTP tasks outlive a daemon whose process goes on;
  a quick restart may find ports taken.
- A clock set back makes a dead daemon look alive (`status.rs:35`), and a dead
  daemon's peers stay "connected" with the age they had.

Commands:

- `key_file_ref_for_config` (`core/src/bootstrap.rs:319`) writes a relative key path
  outside the configuration's directory as it is, and loading resolves it there.
- `render_template` does not quote the name it is given.
- `peer add` appends in place, so a kill leaves half a block; the loser of two `join`s
  at once removes the key; `hosts` gives one name twice if two peers have it.
- `doctor`: a lost Unsolicited is not asked for again once the Response is there, and
  an open firewall is called stateful (`core/src/doctor.rs:51`).

## Not modelled

- Cryptography: signatures and MACs are the fields they cover. Bytes, text and JSON:
  decoders are modelled by what they accept.
- System calls, netlink, HTTP and DNS requests, the mainline DHT node, gotatun's data
  plane, `raw_fd.rs`, the mock backend.
- Presentation: TUI, web UI, desktop app, HTTP server, `proto`, the commands `ddns`,
  `dht` and `inspect`, and the word `peer_state_of` writes.
- Channels of results to the main loop are taken as never full.
- Side tasks that no channel ends, and tunnel descriptors.
- Composition of everything: `RelayLink` contains `PunchFsm`, the candidates and the
  cache and relies on `RelayService`, which `RelayNet` implements; `Mesh` and `Node`
  share `on_membership_event` and look at the network and at the machine in turn. One
  product of all modules is out of TLC's reach.
