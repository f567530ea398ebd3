------------------------------- MODULE Doctor -------------------------------
(***************************************************************************)
(* `hextet doctor`: a node asks a peer's responder to send it one packet   *)
(* that it asked for and one that it did not, and concludes from what      *)
(* arrives what its own firewall lets in (cli/commands/doctor.rs,          *)
(* engine/doctor_client.rs, engine/probe_responder.rs, core/doctor.rs,     *)
(* core/probe.rs).                                                         *)
(*                                                                         *)
(* A probe binds two fresh sockets: s1 sends and receives, s2 only         *)
(* receives.  Packets are lost, or delivered in any order; a packet of an  *)
(* earlier probe may reach a socket of the next one that got its port.     *)
(* Time is in ticks; the durations are constants.                          *)
(***************************************************************************)
EXTENDS Integers, FiniteSets

CONSTANTS
    RequestRetryInterval,   \* REQUEST_RETRY_INTERVAL, 700 ms
    UnsolicitedDelay,       \* UNSOLICITED_DELAY, 300 ms
    MinRequestInterval,     \* MIN_REQUEST_INTERVAL, 1 s
    RateEntryTTL,           \* RATE_ENTRY_TTL, 60 s
    RateTableMax,           \* RATE_TABLE_MAX, 64
    Timeout,                \* --timeout, 5 s
    Flight,                 \* bound: ticks a packet may take
    Others,                 \* other members that ask the same responder
    MaxProbes,              \* bound: probes of the node
    MaxLosses,              \* bound: packets lost
    MaxChanges              \* bound: requests of others, changes of the firewall, restarts

ASSUME DoctorAssumption ==
    /\ {RequestRetryInterval, UnsolicitedDelay, MinRequestInterval, RateEntryTTL,
        RateTableMax, Timeout, MaxProbes} \subseteq Nat \ {0}
    /\ UnsolicitedDelay <= MinRequestInterval /\ MinRequestInterval <= RateEntryTTL
    /\ {Flight, MaxLosses, MaxChanges} \subseteq Nat
    /\ IsFiniteSet(Others) /\ "me" \notin Others

Me == "me"
Ips == {Me} \cup Others
Ports == {1, 2}
Nonces == 1 .. MaxProbes

\* A peer's address where its responder is, an address it has left, or none.
Addresses == {"here", "left", "none"}

VARIABLES
    probe,      \* the running, or last, probe of the client
    packets,    \* in flight
    firewall,   \* what the node's network lets in
    conntrack,  \* local ports from which the responder's port was written to
    helper,     \* the peer asked: "member", "stranger" (another key) or "down"
    seen,       \* RateLimiter::seen: ticks since an address was served
    delayed,    \* the responder's tasks that sleep before the Unsolicited
    since,      \* ticks since the node's last served request, and whether seen was cleared
    events,     \* of this probe: packets lost, "disturbed", "open" (the firewall was)
    losses,
    changes

vars == <<probe, packets, firewall, conntrack, helper, seen, delayed, since, events, losses, changes>>

Absent == RateEntryTTL + 1

Probes == [on: BOOLEAN, nonce: 0 .. MaxProbes, s1: Ports, s2: Ports, target: Addresses,
           global: BOOLEAN, solicited: BOOLEAN, unsolicited: BOOLEAN,
           deadline: 0 .. Timeout, retry: 0 .. RequestRetryInterval,
           verdict: {"none", "no-ipv6", "open", "stateful", "blocked"}]
Packets == [kind: {"Request", "Response", "Unsolicited"}, nonce: Nonces, port: Ports,
            reply_port: {0} \cup Ports, main: BOOLEAN, left: 0 .. Flight]
Tasks == [nonce: Nonces, port: Ports, left: 0 .. UnsolicitedDelay]

DoctorTypeOK ==
    /\ probe \in Probes
    /\ packets \subseteq Packets
    /\ firewall \in {"open", "stateful", "closed"}
    /\ conntrack \subseteq Ports
    /\ helper \in {"member", "stranger", "down"}
    /\ seen \in [Ips -> 0 .. Absent]
    /\ Cardinality({ip \in Ips : seen[ip] # Absent}) <= RateTableMax
    /\ delayed \subseteq Tasks
    /\ since \in [ticks: 0 .. MinRequestInterval, cleared: BOOLEAN]
    /\ events \subseteq {"lost", "lost again", "Unsolicited lost", "disturbed", "open"}
    /\ losses \in 0 .. MaxLosses /\ changes \in 0 .. MaxChanges

-----------------------------------------------------------------------------
(* core/doctor.rs and the target of cli/commands/doctor.rs                  *)

classify(e) ==
    CASE ~e.global -> "no-ipv6"
      [] e.global /\ e.unsolicited -> "open"
      [] e.global /\ ~e.unsolicited /\ e.solicited -> "stateful"
      [] OTHER -> "blocked"

\* --probe-endpoint, else the one peer there is or that --peer names: where the
\* kernel has it, else the first configured address.  "none": the command fails.
resolve_target(args) ==
    CASE args.probe_endpoint # "none" -> args.probe_endpoint
      [] args.probe_endpoint = "none" /\ ~args.one_peer -> "none"
      [] args.probe_endpoint = "none" /\ args.one_peer /\ args.kernel # "none" -> args.kernel
      [] OTHER -> args.configured

Args == [probe_endpoint: Addresses, one_peer: BOOLEAN, kernel: Addresses, configured: Addresses]

-----------------------------------------------------------------------------
(* probe_responder.rs                                                       *)

Tracked(table) == {ip \in Ips : table[ip] # Absent}

\* The table with room for one more: old entries go when it is full, and all
\* of them when that is not enough.
Cleared(table) ==
    Cardinality(Tracked(table)) >= RateTableMax
      /\ Cardinality({ip \in Tracked(table) : table[ip] < RateEntryTTL}) >= RateTableMax

Room(table) ==
    IF Cardinality(Tracked(table)) < RateTableMax THEN table
    ELSE [ip \in Ips |-> IF Cleared(table) \/ table[ip] >= RateEntryTTL THEN Absent ELSE table[ip]]

\* Mutant: the interval is one tick short.
Allowed_early(ip) == seen[ip] >= MinRequestInterval - 1

Allowed(ip) == seen[ip] >= MinRequestInterval

\* Mutant: a refused request counts as a served one.
allow_refreshes(ip) ==
    seen' = [Room(seen) EXCEPT ![ip] = 0]

\* allow: a refused request leaves the table alone.
allow(ip) ==
    seen' = IF Allowed(ip) THEN [Room(seen) EXCEPT ![ip] = 0] ELSE seen

\* A packet between a port of the client and the responder: main tells whether
\* its other end is the socket that the responder listens on.
Packet(kind, nonce, port, reply_port, main) ==
    [kind |-> kind, nonce |-> nonce, port |-> port, reply_port |-> reply_port, main |-> main,
     left |-> Flight]

\* decode: only packets with the MAC of the network's key are looked at.
decodes == helper = "member"

\* serve: the Response from the same socket, and a task for the Unsolicited.
Serve(p) ==
    /\ p \in packets /\ p.kind = "Request"
    /\ IF decodes
       THEN /\ allow(Me)
            /\ packets' = (packets \ {p}) \cup
                 IF Allowed(Me) THEN {Packet("Response", p.nonce, p.port, 0, TRUE)} ELSE {}
            /\ delayed' = delayed \cup
                 IF Allowed(Me) /\ p.reply_port # 0
                 THEN {[nonce |-> p.nonce, port |-> p.reply_port, left |-> UnsolicitedDelay]} ELSE {}
            /\ since' = IF Allowed(Me) THEN [ticks |-> 0, cleared |-> FALSE] ELSE since
       ELSE packets' = packets \ {p} /\ UNCHANGED <<seen, delayed, since>>
    /\ UNCHANGED <<probe, firewall, conntrack, helper, events, losses, changes>>

\* The task wakes and sends from a socket of its own.
UnsolicitedSent(t) ==
    /\ t \in delayed /\ t.left = 0
    /\ delayed' = delayed \ {t}
    /\ packets' = packets \cup {Packet("Unsolicited", t.nonce, t.port, 0, FALSE)}
    /\ UNCHANGED <<probe, firewall, conntrack, helper, seen, since, events, losses, changes>>

Spend == changes < MaxChanges /\ changes' = changes + 1

\* Another member is served, or refused.
OtherAsks(ip) ==
    /\ Spend /\ helper = "member"
    /\ allow(ip)
    /\ since' = [since EXCEPT !.cleared = @ \/ (Allowed(ip) /\ Cleared(seen))]
    /\ UNCHANGED <<probe, packets, firewall, conntrack, helper, delayed, events, losses>>

\* The peer's daemon restarts: an empty table, and no sleeping task.
ResponderRestarts ==
    /\ Spend
    /\ seen' = [ip \in Ips |-> Absent]
    /\ delayed' = {}
    /\ since' = [since EXCEPT !.cleared = TRUE]
    /\ events' = events \cup {"disturbed"}
    /\ UNCHANGED <<probe, packets, firewall, conntrack, helper, losses>>

-----------------------------------------------------------------------------
(* doctor_client.rs                                                         *)

\* probe_peer up to the loop: two sockets, any free ports, and a nonce.
Bound(nonce, s1, target, global) ==
    [on |-> TRUE, nonce |-> nonce, s1 |-> s1, s2 |-> CHOOSE p \in Ports : p # s1,
     target |-> target, global |-> global, solicited |-> FALSE, unsolicited |-> FALSE,
     deadline |-> Timeout, retry |-> 0, verdict |-> "none"]

\* run: the target, the node's global addresses, and the exchange.
Start(s1, global, args) ==
    /\ ~probe.on /\ probe.nonce < MaxProbes
    /\ resolve_target(args) # "none"
    /\ probe' = Bound(probe.nonce + 1, s1, resolve_target(args), global)
    /\ events' = IF firewall = "open" THEN {"open"} ELSE {}
    /\ UNCHANGED <<packets, firewall, conntrack, helper, seen, delayed, since, losses, changes>>

\* The retry branch: a Request unless the Response is there.
RetryTick ==
    /\ probe.on /\ probe.retry = 0
    /\ probe' = [probe EXCEPT !.retry = RequestRetryInterval]
    /\ IF probe.solicited \/ probe.target # "here" THEN UNCHANGED <<packets, conntrack>>
       ELSE /\ packets' = packets \cup {Packet("Request", probe.nonce, probe.s1, probe.s2, TRUE)}
            /\ conntrack' = conntrack \cup {probe.s1}
    /\ UNCHANGED <<firewall, helper, seen, delayed, since, events, losses, changes>>

\* The loop ends when both packets are there.
Concluded(p) == [p EXCEPT !.on = FALSE, !.verdict = classify(p)]

\* The branches of s1 and s2: kind and nonce must match.
Received(p) ==
    LET got == CASE p.port = probe.s1 /\ p.kind = "Response" /\ p.nonce = probe.nonce ->
                       [probe EXCEPT !.solicited = TRUE]
                 [] p.port = probe.s2 /\ p.kind = "Unsolicited" /\ p.nonce = probe.nonce ->
                       [probe EXCEPT !.unsolicited = TRUE]
                 [] OTHER -> probe
    IN  IF got.solicited /\ got.unsolicited THEN Concluded(got) ELSE got

\* A packet from outside passes the firewall if nothing is kept out, or if it
\* answers what was sent from that port.
Admits(p) ==
    firewall = "open" \/ (firewall = "stateful" /\ p.main /\ p.port \in conntrack)

Deliver(p) ==
    /\ p \in packets /\ p.kind # "Request"
    /\ packets' = packets \ {p}
    /\ probe' = IF probe.on /\ Admits(p) THEN Received(p) ELSE probe
    /\ UNCHANGED <<firewall, conntrack, helper, seen, delayed, since, events, losses, changes>>

Deadline ==
    /\ probe.on /\ probe.deadline = 0
    /\ probe' = Concluded(probe)
    /\ UNCHANGED <<packets, firewall, conntrack, helper, seen, delayed, since, events, losses, changes>>

-----------------------------------------------------------------------------
(* The network, the firewall and time                                       *)

Lost(p) ==
    IF p.kind = "Unsolicited" THEN {"Unsolicited lost"}
    ELSE IF "lost" \in events THEN {"lost again"} ELSE {"lost"}

\* A packet is lost.  One that has to go to another probe's socket harms no one.
Lose(p) ==
    /\ p \in packets /\ losses < MaxLosses
    /\ losses' = losses + 1
    /\ packets' = packets \ {p}
    /\ events' = events \cup IF p.nonce # probe.nonce THEN {} ELSE Lost(p)
    /\ UNCHANGED <<probe, firewall, conntrack, helper, seen, delayed, since, changes>>

\* The user changes the router's rules.
FirewallSet(f) ==
    /\ f # firewall /\ Spend
    /\ firewall' = f
    /\ events' = events \cup {"disturbed"} \cup IF f = "open" THEN {"open"} ELSE {}
    /\ UNCHANGED <<probe, packets, conntrack, helper, seen, delayed, since, losses>>

Older(age, cap) == IF age < cap THEN age + 1 ELSE age

\* A tick passes when no timer is due and no packet has to arrive.
Tick ==
    /\ probe.on \/ packets # {} \/ delayed # {}
    /\ ~(probe.on /\ (probe.retry = 0 \/ probe.deadline = 0))
    /\ \A p \in packets : p.left > 0
    /\ \A t \in delayed : t.left > 0
    /\ probe' = IF probe.on THEN [probe EXCEPT !.retry = @ - 1, !.deadline = @ - 1] ELSE probe
    /\ packets' = {[p EXCEPT !.left = @ - 1] : p \in packets}
    /\ delayed' = {[t EXCEPT !.left = @ - 1] : t \in delayed}
    /\ seen' = [ip \in Ips |-> IF seen[ip] = Absent THEN Absent ELSE Older(seen[ip], RateEntryTTL)]
    /\ since' = [since EXCEPT !.ticks = Older(@, MinRequestInterval)]
    /\ UNCHANGED <<firewall, conntrack, helper, events, losses, changes>>

Init ==
    /\ probe = [on |-> FALSE, nonce |-> 0, s1 |-> 1, s2 |-> 2, target |-> "none", global |-> TRUE,
                solicited |-> FALSE, unsolicited |-> FALSE, deadline |-> 0, retry |-> 0,
                verdict |-> "none"]
    /\ packets = {} /\ conntrack = {} /\ delayed = {} /\ events = {}
    /\ firewall \in {"open", "stateful", "closed"}
    /\ helper \in {"member", "stranger", "down"}
    /\ seen = [ip \in Ips |-> Absent]
    /\ since = [ticks |-> MinRequestInterval, cleared |-> FALSE]
    /\ losses = 0 /\ changes = 0

Next ==
    \/ \E s1 \in Ports, global \in BOOLEAN, args \in Args : Start(s1, global, args)
    \/ RetryTick \/ Deadline
    \/ \E p \in packets : Serve(p) \/ Deliver(p) \/ Lose(p)
    \/ \E t \in delayed : UnsolicitedSent(t)
    \/ \E ip \in Others : OtherAsks(ip)
    \/ ResponderRestarts \/ \E f \in {"open", "stateful", "closed"} : FirewallSet(f)
    \/ Tick

Spec == Init /\ [][Next]_vars

-----------------------------------------------------------------------------
(* Properties                                                              *)

\* doctor says "open" only of a firewall that let unasked packets in while the
\* probe ran: a port reused from an earlier probe, whose state the firewall
\* still has, does not pass for one (s2 never sends, and the Unsolicited comes
\* from a port of its own).
OpenMeansOpen ==
    probe.verdict = "open" => "open" \in events

\* A --timeout that leaves time for a Request after an earlier probe's turn at
\* the responder, a Response that is lost, another Request and its Response.
TimeoutSuffices ==
    Timeout >= 2 * MinRequestInterval + 2 * RequestRetryInterval + 5 * Flight

\* With a member asked and the rules left alone, the verdict is right although
\* a Request or a Response is lost and although an earlier probe has used up
\* this second's turn at the responder: a later Request is let through in time.
\* A lost Unsolicited is not asked for again once the Response is there.
RightVerdict ==
    /\ ~probe.on /\ probe.nonce > 0
    /\ helper = "member" /\ probe.target = "here" /\ probe.global
    /\ events \subseteq {"lost", "open"} /\ TimeoutSuffices
    => probe.verdict = [open |-> "open", stateful |-> "stateful", closed |-> "blocked"][firewall]

\* The node is served once per MinRequestInterval, as long as the responder
\* did not have to clear its table.
OncePerInterval ==
    [][(\E p \in packets : Serve(p)) /\ decodes /\ Allowed(Me) =>
         since.ticks >= MinRequestInterval \/ since.cleared]_vars

\* What `hextet doctor` says of the firewall is so.
VerdictRight == DoctorTypeOK /\ OpenMeansOpen /\ RightVerdict
=============================================================================
