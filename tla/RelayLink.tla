------------------------------ MODULE RelayLink ------------------------------
(***************************************************************************)
(* One peer of the daemon (PeerRuntime) with its relay link: the punching   *)
(* machine, the candidate list, the endpoint cache, the relay session, and  *)
(* the four handlers of the main loop that change them: tick_once with      *)
(* drive_relay, on_relay_registered, on_discovered and kick.                *)
(*                                                                          *)
(* The registration is a background task whose result comes back through a  *)
(* channel; the relay may restart, the kernel may handshake or roam between *)
(* any two handlers.  A handler is one step here: what the kernel may do in *)
(* the middle of one is in PeerFsm.  Time is counted in ticks.              *)
(***************************************************************************)
EXTENDS PunchFsm, Candidates

CONSTANTS Relays,            \* the endpoints a relay session may get
          Configured,        \* the peer's endpoints in the configuration
          Reports,           \* what the rendezvous layers may report: [src, eps]
          LiveSets,          \* the sets of addresses at which the peer may answer
          Caches,            \* cache entries the daemon may find when it starts
          RotateInterval, HandshakeFresh,
          RegisterInterval,  \* REGISTER_INTERVAL
          RetryCooldown,     \* RELAY_RETRY_COOLDOWN
          RelayAfterRounds,  \* RELAY_AFTER_ROUNDS
          UpgradeMaxRetries, \* UPGRADE_MAX_RETRIES
          CacheSeenMax,      \* CACHE_SEEN_MAX
          MayRestart,        \* whether the relay may lose its sessions
          MaxChanges         \* bound: reports, restarts, timeouts, kicks, renumberings,
                             \* early handshakes, ticks that could not read the status

ASSUME RelaysAssumption == Relays \subseteq Endpoints
ASSUME IntervalsAssumption ==
  /\ {RotateInterval, HandshakeFresh, RegisterInterval, RetryCooldown} \subseteq Nat \ {0}
  /\ RotateInterval < RegisterInterval /\ RegisterInterval < HandshakeFresh
ASSUME LimitsAssumption == {UpgradeMaxRetries, CacheSeenMax, MaxChanges} \subseteq Nat
ASSUME AddressesAssumption ==
  /\ Configured \in Seq(Endpoints)
  /\ \A report \in Reports : report \in [src : {LAN, Gossip, DHT, DDNS}, eps : Seq(Endpoints)]
  /\ \A l \in LiveSets : l \subseteq Endpoints
  /\ \A c \in Caches : c \in [good : Endpoints \cup {NoEndpoint}, seen : Seq(Endpoints)]

VARIABLES
  peer,     \* the PeerRuntime, its cache entry, and the kernel's peer
  jobs,     \* registration tasks running
  results,  \* RelayRegistered results in the channel to the main loop
  srv,      \* the endpoint at which the relay forwards for this pair, if any
  live,     \* where the peer answers directly
  beat,     \* changes with every tick of the interval timer
  changes

vars == <<peer, jobs, results, srv, live, beat, changes>>
relay == <<jobs, results, srv>>

Links == [session : Relays \cup {NoEndpoint}, pending : BOOLEAN,
          upgrade : BOOLEAN, retries : 0..UpgradeMaxRetries,
          regAge : 0..RegisterInterval,   \* RegisterInterval: never, or due again
          cool : 0..RetryCooldown]        \* ticks until retry_after
NoLink == [session |-> NoEndpoint, pending |-> FALSE, upgrade |-> FALSE, retries |-> 0,
           regAge |-> RegisterInterval, cool |-> 0]

-----------------------------------------------------------------------------
(* The endpoint cache entry of the peer; `seen` is newest first. *)
record_good(c, e) ==
  LET seen == <<e>> \o Without(c.seen, e)
  IN  [good |-> e, seen |-> SubSeq(seen, 1, Min({Len(seen), CacheSeenMax}))]
\* Mutant: only the history is cleaned.
evict_keeps_good(c, e) == [c EXCEPT !.seen = Without(@, e)]
evict(c, e) ==
  [good |-> IF c.good = e THEN NoEndpoint ELSE c.good,
   seen |-> Without(c.seen, e)]

sources_for(p) ==
  [last_good |-> p.cache.good, discovered |-> p.discovered, configured |-> Configured,
   cached |-> [i \in 1..Len(p.cache.seen) |->
                 [ep |-> p.cache.seen[i], seen |-> Len(p.cache.seen) - i]],
   relay |-> p.link.session]

candidates_for(p) ==
  IF p.link.session # NoEndpoint /\ ~p.link.upgrade THEN <<p.link.session>>
  ELSE build_candidates(sources_for(p))

-----------------------------------------------------------------------------
(* Running an operation of the machine, without and with its actions. *)
Install(p, out) ==
  [p EXCEPT !.fsm = out.fsm,
            !.hsAfter = @ /\ ~out.transition,
            !.rotAge = IF out.rotate THEN 0 ELSE @]

apply_actions(p, acts) ==
  LET points == {i \in 1..Len(acts) : acts[i].act \in {"SetEndpoint", "Rehandshake"}}
      good == {i \in 1..Len(acts) : acts[i].act = "MarkGood" /\ acts[i].ep # p.link.session}
  IN  [p EXCEPT !.kernel.ep = IF points = {} THEN @ ELSE acts[Max(points)].ep,
                !.kernel.hsAge = IF \E i \in points : acts[i].act = "Rehandshake"
                                 THEN HandshakeFresh ELSE @,
                !.cache = IF good = {} THEN @ ELSE record_good(@, acts[Max(good)].ep)]

Run(p, out) == apply_actions(Install(p, out), out.acts)
SetList(p) == Install(p, set_candidates(p.fsm, candidates_for(p)))
RunList(p) == Run(p, set_candidates(p.fsm, candidates_for(p)))

-----------------------------------------------------------------------------
(* drive_relay: the peer afterwards, and the tasks it spawns. *)
Driven(p, register, unregister) ==
  [peer |-> p, register |-> register, unregister |-> unregister]

Due(link) == link.regAge >= RegisterInterval /\ ~link.pending /\ link.cool = 0

\* Connected at another endpoint than the session's: the direct path works.
Release(p) ==
  Driven(SetList([p EXCEPT !.link = [NoLink EXCEPT !.pending = p.link.pending]]), FALSE, TRUE)

MayRetry(link) == link.upgrade /\ link.retries < UpgradeMaxRetries
\* Mutant: the retries are not counted.
Retried_uncounted(link) == [link EXCEPT !.upgrade = MayRetry(link)]
Retried(link) ==
  [link EXCEPT !.upgrade = MayRetry(link),
               !.retries = IF MayRetry(link) THEN @ + 1 ELSE IF link.upgrade THEN 0 ELSE @]

\* Connected at the session's endpoint: retry the upgrade or give it up, and
\* renew the registration.
StayRelayed(p) ==
  LET link == p.link
      renewed == [p EXCEPT !.link = [Retried(link) EXCEPT !.pending = @ \/ Due(link)]]
      listed == IF link.upgrade THEN SetList(renewed) ELSE renewed
  IN  Driven(IF MayRetry(link) THEN Run(listed, retry_from(listed.fsm, link.session, TRUE))
             ELSE listed, Due(link), FALSE)

\* A session that is not answering is renewed at the pace of renewals; the first
\* one waits for RELAY_AFTER_ROUNDS.  Mutant: only the first one is registered.
Needed_first_only(p) ==
  p.link.session = NoEndpoint /\ p.fsm.state.rounds >= RelayAfterRounds
Needed(p) == IF p.link.session # NoEndpoint THEN p.link.regAge >= RegisterInterval
             ELSE p.fsm.state.rounds >= RelayAfterRounds
\* Mutant: a second task is spawned while one is running.
DriveProbing_ignores_pending(p) ==
  LET register == ~p.link.upgrade /\ p.link.cool = 0 /\ Needed(p)
  IN  Driven([p EXCEPT !.link.pending = @ \/ register], register, FALSE)
DriveProbing(p) ==
  LET register == ~p.link.upgrade /\ ~p.link.pending /\ p.link.cool = 0 /\ Needed(p)
  IN  Driven([p EXCEPT !.link.pending = @ \/ register], register, FALSE)

drive_relay(p) ==
  IF p.fsm.state.tag = "Probing" THEN DriveProbing(p)
  ELSE IF p.link.session = NoEndpoint THEN Driven(p, FALSE, FALSE)
  ELSE IF p.fsm.state.endpoint # p.link.session THEN Release(p)
  ELSE StayRelayed(p)

-----------------------------------------------------------------------------
(* on_discovered *)
Reported(disc, e) == \E i \in 1..Len(disc) : disc[i].ep = e
Authoritative(disc) == Picked(disc, {i \in 1..Len(disc) : disc[i].src # Gossip})
still_reported_by_authoritative_source(disc, e) == Reported(Authoritative(disc), e)
reported_by_reliable_source(disc, e) ==
  Reported(IF Authoritative(disc) # <<>> THEN Authoritative(disc) ELSE disc, e)

\* The source's entries are replaced; the list stays sorted by priority.
Replace(disc, report) ==
  Picked(disc, {i \in 1..Len(disc) : disc[i].src < report.src})
    \o [i \in 1..Len(report.eps) |-> [src |-> report.src, ep |-> report.eps[i]]]
    \o Picked(disc, {i \in 1..Len(disc) : disc[i].src > report.src})

\* On the relay: open the list to direct candidates and leave the relay.
TryUpgrade(p) ==
  LET opened == RunList([p EXCEPT !.link.upgrade = TRUE, !.link.retries = 0])
  IN  Run(opened, retry_from(opened.fsm, p.link.session, TRUE))

\* Connected elsewhere: an address that no authoritative source reports any
\* more is left, and evicted from the cache if no reliable source reports it;
\* neither applies to one in the configuration.
\* Mutant: an address in the configuration is treated like any other.
Stays_unless_reported(disc, e) == still_reported_by_authoritative_source(disc, e)
Stays(disc, e) == e \in Elements(Configured) \/ still_reported_by_authoritative_source(disc, e)
Reconsider(p) ==
  LET e == p.fsm.state.endpoint
      pruned == IF e \in Elements(Configured) \/ reported_by_reliable_source(p.discovered, e)
                THEN p ELSE [p EXCEPT !.cache = evict(@, e)]
      listed == RunList(pruned)
  IN  IF Stays(p.discovered, e) THEN listed ELSE Run(listed, retry_from(listed.fsm, e, FALSE))

on_discovered(p, report) ==
  LET q == [p EXCEPT !.discovered = Replace(@, report)]
  IN  IF q.fsm.state.tag = "Probing" THEN RunList(q)
      ELSE IF q.fsm.state.endpoint = q.link.session THEN TryUpgrade(q)
      ELSE Reconsider(q)

\* on_relay_registered, with a session or with None.
on_relay_registered(p, session) ==
  LET link == [p.link EXCEPT !.pending = FALSE]
      previous == p.link.session
      listed == RunList([p EXCEPT !.link = [link EXCEPT !.session = session,
                                                        !.regAge = 0, !.cool = 0]])
  IN  IF session = NoEndpoint THEN [p EXCEPT !.link = [link EXCEPT !.cool = RetryCooldown]]
      ELSE IF session = previous THEN [p EXCEPT !.link = [link EXCEPT !.regAge = 0, !.cool = 0]]
      ELSE IF previous # NoEndpoint /\ listed.fsm.state.tag = "Connected"
              /\ listed.fsm.state.endpoint = previous
        THEN Run(listed, retry_from(listed.fsm, previous, FALSE))
      ELSE listed

-----------------------------------------------------------------------------
(* The main loop: one handler at a time. *)
Init ==
  /\ \E c \in Caches :
       LET p == [fsm |-> new(<<>>), rotAge |-> 0, discovered |-> <<>>, link |-> NoLink, cache |-> c,
                 kernel |-> [ep |-> Get(Configured, 0), hsAge |-> HandshakeFresh],
                 hsAfter |-> FALSE]
           started == [p EXCEPT !.fsm = new(candidates_for(p))]
       IN  peer = Run(started, kick(started.fsm))
  /\ jobs = 0 /\ results = <<>> /\ srv = NoEndpoint
  /\ live \in LiveSets /\ beat = FALSE /\ changes = 0

Spend == changes < MaxChanges /\ changes' = changes + 1

\* One TICK more on every clock of the peer.
Aged(p) ==
  [p EXCEPT !.rotAge = Min({@ + 1, RotateInterval}),
            !.kernel.hsAge = Min({@ + 1, HandshakeFresh}),
            !.link.regAge = Min({@ + 1, RegisterInterval}),
            !.link.cool = Max({@ - 1, 0})]

Observed(p) == [fresh |-> p.kernel.hsAge < HandshakeFresh, after |-> p.hsAfter, ep |-> p.kernel.ep]

\* An Unregister reaches the relay before the next tick, or is lost.
tick_once ==
  LET p == Aged(peer)
      out == tick(p.fsm, Observed(p), p.rotAge >= RotateInterval)
      driven == drive_relay(Run(p, out))
  IN  /\ peer' = driven.peer
      /\ jobs' = jobs + (IF driven.register THEN 1 ELSE 0)
      /\ srv' \in {srv} \cup (IF driven.unregister THEN {NoEndpoint} ELSE {})
      /\ beat' = ~beat
      /\ UNCHANGED <<results, live, changes>>

\* backend.status failed: the tick is skipped, the time has passed.
SkippedTick ==
  Spend /\ peer' = Aged(peer) /\ beat' = ~beat /\ UNCHANGED <<relay, live>>

OnRelayRegistered ==
  /\ results # <<>>
  /\ peer' = on_relay_registered(peer, Head(results))
  /\ results' = Tail(results)
  /\ UNCHANGED <<jobs, srv, live, beat, changes>>

OnDiscovered ==
  /\ Spend
  /\ \E report \in Reports : peer' = on_discovered(peer, report)
  /\ UNCHANGED <<relay, live, beat>>

\* A change of the local addresses.
Kick ==
  Spend /\ peer' = Run(peer, kick(peer.fsm)) /\ UNCHANGED <<relay, live, beat>>

-----------------------------------------------------------------------------
(* The registration task, and the relay as that task sees it: one session per
   pair, the same endpoint as long as it lives. *)
RegisterAnswered ==
  /\ jobs > 0
  /\ srv' \in IF srv # NoEndpoint THEN {srv} ELSE Relays
  /\ jobs' = jobs - 1 /\ results' = Append(results, srv')
  /\ UNCHANGED <<peer, live, beat, changes>>

\* REGISTER_TIMEOUT passed; the Register may yet have reached the relay.
RegisterTimesOut ==
  /\ jobs > 0 /\ Spend
  /\ srv' \in {srv} \cup (IF srv = NoEndpoint THEN Relays ELSE {})
  /\ jobs' = jobs - 1 /\ results' = Append(results, NoEndpoint)
  /\ UNCHANGED <<peer, live, beat>>

\* The relay restarts, the session expires, or the other side unregisters.
RelayForgets ==
  /\ MayRestart /\ srv # NoEndpoint /\ Spend
  /\ srv' = NoEndpoint
  /\ UNCHANGED <<peer, jobs, results, live, beat>>

-----------------------------------------------------------------------------
(* External: WireGuard and the peer, reached directly or through the relay.
   Once the relay forwards, the other side's packets may come through it before
   the main loop has taken the registration's result: Early, which is bounded. *)
Reachable == live \cup ({srv} \ {NoEndpoint})
Early == {srv} \ {NoEndpoint, peer.link.session}

Handshake(e) ==
  /\ peer' = [peer EXCEPT !.kernel = [ep |-> e, hsAge |-> 0], !.hsAfter = TRUE]
  /\ UNCHANGED <<relay, live, beat>>
InboundHandshake == (\E e \in Reachable \ Early : Handshake(e)) /\ UNCHANGED changes
EarlyHandshake == Spend /\ \E e \in Early : Handshake(e)
OutboundHandshake ==
  /\ peer.kernel.ep \in Reachable
  /\ Handshake(peer.kernel.ep)
  /\ UNCHANGED changes

Roam ==
  /\ peer.kernel.hsAge < HandshakeFresh
  /\ \E e \in (Reachable \ Early) \ {peer.kernel.ep} : peer' = [peer EXCEPT !.kernel.ep = e]
  /\ UNCHANGED <<relay, live, beat, changes>>

Renumber ==
  /\ Spend /\ live' \in LiveSets \ {live}
  /\ UNCHANGED <<peer, relay, beat>>

Next == \/ tick_once \/ SkippedTick \/ OnRelayRegistered \/ OnDiscovered \/ Kick
        \/ RegisterAnswered \/ RegisterTimesOut \/ RelayForgets
        \/ InboundHandshake \/ EarlyHandshake \/ OutboundHandshake \/ Roam \/ Renumber

Spec == Init /\ [][Next]_vars

(***************************************************************************)
(* The interval timer goes on (only ticks change `beat`, and one is always  *)
(* possible) and the loop takes results from its channel (only its handler  *)
(* does); a registration task ends, answered but for the bounded timeouts;  *)
(* and an endpoint that the kernel keeps coming back to, and at which the    *)
(* peer can be reached, completes a handshake: strong fairness of           *)
(* OutboundHandshake, with the states in which it does something spelled out. *)
(***************************************************************************)
Beats == beat' = ~beat
TakesResult == results # <<>> /\ results' = Tail(results)
TaskEnds == jobs > 0 /\ jobs' = jobs - 1
Answers == peer.kernel.ep \in Reachable /\ ~(peer.kernel.hsAge = 0 /\ peer.hsAfter)
Fairness == /\ WF_beat(Beats) /\ WF_results(TakesResult) /\ WF_jobs(TaskEnds)
            /\ []<>Answers => []<><<OutboundHandshake>>_vars
FairSpec == Spec /\ Fairness

-----------------------------------------------------------------------------
Sessions == Relays \cup {NoEndpoint}
Peers == [fsm : [candidates : Seq(Endpoints), state : PunchStates],
          rotAge : 0..RotateInterval,
          discovered : Seq([src : {LAN, Gossip, DHT, DDNS}, ep : Endpoints]),
          link : Links,
          cache : [good : Endpoints \cup {NoEndpoint}, seen : Seq(Endpoints)],
          kernel : [ep : Endpoints \cup {NoEndpoint}, hsAge : 0..HandshakeFresh],
          hsAfter : BOOLEAN]
TypeOK ==
  /\ peer \in Peers
  /\ jobs \in Nat /\ results \in Seq(Sessions) /\ srv \in Sessions
  /\ live \in SUBSET Endpoints /\ beat \in BOOLEAN
  /\ changes \in 0..MaxChanges

\* At most one registration of a pair is under way, from the spawn of the task
\* until the main loop has taken its result, and `pending` says so; timeouts,
\* renewals while connected and releases in between do not break the link.
OneRegistration ==
  jobs + Len(results) = IF peer.link.pending THEN 1 ELSE 0

\* candidates_for's rule holds in every state, not only when the list is
\* computed: with a session and no upgrade under way the list is the relay
\* alone, so both ends stay on it, whichever handler ran last.
RelayOnlyList ==
  peer.link.session # NoEndpoint /\ ~peer.link.upgrade
    => peer.fsm.candidates = <<peer.link.session>>

\* What the handlers maintain between them about one peer and its link.
LinkSound == TypeOK /\ OneRegistration /\ RelayOnlyList

Direct(p) == p.fsm.state.tag = "Connected" /\ p.fsm.state.endpoint # p.link.session
Leaves == peer.fsm.state.tag = "Connected" /\ peer'.fsm.state.tag = "Probing"

\* A direct connection whose handshake is fresh is not interrupted because
\* something was heard: no report, registration result, kick or relay decision
\* makes the machine probe, unless the address is neither configured nor
\* reported by LAN, DHT or DDNS (on_discovered).
HealthyConnectionKept ==
  [][Direct(peer) /\ Leaves /\ peer.kernel.hsAge + 1 < HandshakeFresh
       => /\ peer.fsm.state.endpoint \notin Elements(Configured)
          /\ ~still_reported_by_authoritative_source(peer'.discovered, peer.fsm.state.endpoint)]_vars

\* An address that is left because nobody reports it is not a candidate any
\* more: the cache does not feed it back into the list (on_discovered evicts it
\* before it computes the list).
DeadAddressNotListed ==
  [][Direct(peer) /\ Leaves /\ peer'.discovered # peer.discovered
       /\ ~Reported(peer'.discovered, peer.fsm.state.endpoint)
       => peer.fsm.state.endpoint \notin Elements(peer'.fsm.candidates)]_vars

\* A dead session is registered again: if the peer cannot be reached directly
\* but the relay is up, the peer is connected through it again and again,
\* however the relay restarted, lost the session or let registrations time out
\* before (drive_relay, Probing with a session).
OnRelay == peer.fsm.state.tag = "Connected" /\ peer.fsm.state.endpoint = srv
RelayRecovered == <>[](live = {}) => []<>OnRelay

\* The same as long as no upgrade is under way, and the kernel has not roamed away
\* from an only candidate, which is never set again (on_rotation_due): what
\* drive_relay's renewals guarantee, whatever the relay forgot and whichever
\* upgrades came before.
Strayed == Len(peer.fsm.candidates) = 1 /\ peer.kernel.ep # peer.fsm.candidates[1]
RecoveredUnlessUpgrading == <>[](live = {} /\ ~peer.link.upgrade /\ ~Strayed) => []<>OnRelay

\* An upgrade to a direct path comes to an end: it succeeds, or after
\* UPGRADE_MAX_RETRIES the connection stays on the relay, as long as the relay
\* still forwards for the session the peer came from.
UpgradeEnds == peer.link.upgrade ~> ~peer.link.upgrade \/ srv # peer.link.session
=============================================================================
