---------------------------- MODULE DoctorProofs ------------------------------
(***************************************************************************)
(* For every timing, any number of probes and any number of other members:  *)
(* the responder's rate limit, that `hextet doctor` says "open" only of an   *)
(* open firewall, and that its verdict is right although packets are lost.   *)
(***************************************************************************)
EXTENDS Doctor, FiniteSetTheorems, TLAPS

-----------------------------------------------------------------------------
(* RateLimiter::allow.                                                     *)

\* The table remembers the node's last served request as long as that matters,
\* unless it was cleared: an entry old enough to be pruned allows a request anyway.
Remembered ==
  /\ since.ticks \in Nat /\ DOMAIN since = {"ticks", "cleared"}
  /\ seen \in [Ips -> Nat]
  /\ ~since.cleared => since.ticks >= MinRequestInterval \/ seen[Me] <= since.ticks

\* The constants, one by one.
LEMMA Constants ==
  /\ MinRequestInterval \in Nat \ {0} /\ RateEntryTTL \in Nat \ {0} /\ RateTableMax \in Nat \ {0}
  /\ MinRequestInterval <= RateEntryTTL /\ Absent \in Nat /\ Absent > RateEntryTTL
BY DoctorAssumption DEF Absent

\* Making room leaves an entry alone, or drops one that is old, or drops all.
LEMMA RoomDrops ==
  ASSUME seen \in [Ips -> Nat]
  PROVE  /\ Room(seen) \in [Ips -> Nat]
         /\ \A ip \in Ips : \/ Room(seen)[ip] = seen[ip]
                            \/ seen[ip] >= RateEntryTTL
                            \/ Cleared(seen)
BY Constants, Zenon DEF Room

\* A served or refused request of ip.
LEMMA AllowKeeps ==
  ASSUME seen \in [Ips -> Nat], NEW ip \in Ips, allow(ip)
  PROVE  /\ seen' \in [Ips -> Nat]
         /\ \/ seen'[Me] = seen[Me] \/ seen'[Me] = 0 \/ seen[Me] >= RateEntryTTL
            \/ Allowed(ip) /\ Cleared(seen)
         /\ ip = Me /\ Allowed(Me) => seen'[Me] = 0
<1>1. CASE Allowed(ip)
  BY <1>1, RoomDrops, Zenon DEF allow, Ips
<1>2. CASE ~Allowed(ip)
  BY <1>2, Zenon DEF allow
<1> QED
  BY <1>1, <1>2, Zenon

\* A Request that reaches the responder.
LEMMA ServeRemembers ==
  ASSUME Remembered, NEW p \in packets, Serve(p)
  PROVE  Remembered'
<1>1. CASE decodes /\ Allowed(Me)
  <2>1. allow(Me) /\ since' = [ticks |-> 0, cleared |-> FALSE]
    BY <1>1, Zenon DEF Serve
  <2>2. seen' \in [Ips -> Nat] /\ seen'[Me] = 0
    BY <1>1, <2>1, AllowKeeps, Zenon DEF Remembered, Ips
  <2>3. since'.ticks = 0 /\ DOMAIN since' = {"ticks", "cleared"}
    BY <2>1, Zenon
  <2> QED
    BY <2>2, <2>3 DEF Remembered
<1>2. CASE ~(decodes /\ Allowed(Me))
  <2>1. since' = since /\ seen' = seen
    BY <1>2, Zenon DEF Serve, allow
  <2> QED
    BY <2>1, Zenon DEF Remembered
<1> QED
  BY <1>1, <1>2, Zenon

\* The request of another member.
LEMMA OtherRemembers ==
  ASSUME Remembered, NEW ip \in Others, OtherAsks(ip)
  PROVE  Remembered'
<1>1. allow(ip) /\ since' = [since EXCEPT !.cleared = @ \/ (Allowed(ip) /\ Cleared(seen))]
  BY Zenon DEF OtherAsks
<1>2. since'.ticks = since.ticks /\ DOMAIN since' = {"ticks", "cleared"}
  BY <1>1, Zenon DEF Remembered
<1>3. ~since'.cleared => ~since.cleared /\ ~(Allowed(ip) /\ Cleared(seen))
  BY <1>1, Zenon DEF Remembered
<1>4. /\ seen' \in [Ips -> Nat]
      /\ \/ seen'[Me] = seen[Me] \/ seen'[Me] = 0 \/ seen[Me] >= RateEntryTTL
         \/ Allowed(ip) /\ Cleared(seen)
  BY <1>1, AllowKeeps, Zenon DEF Remembered, Ips
<1>5. ASSUME ~since.cleared, ~(Allowed(ip) /\ Cleared(seen))
      PROVE  since.ticks >= MinRequestInterval \/ seen'[Me] <= since.ticks
  BY <1>4, <1>5, Constants DEF Remembered, Ips
<1> QED
  BY <1>2, <1>3, <1>4, <1>5, Zenon DEF Remembered

\* Time passes for the table and for the node alike.
LEMMA TickRemembers ==
  ASSUME Remembered, Tick
  PROVE  Remembered'
<1>1. /\ seen' = [ip \in Ips |-> IF seen[ip] = Absent THEN Absent ELSE Older(seen[ip], RateEntryTTL)]
      /\ since' = [since EXCEPT !.ticks = Older(@, MinRequestInterval)]
  BY Zenon DEF Tick
<1>2. /\ since'.ticks = Older(since.ticks, MinRequestInterval) /\ since'.cleared = since.cleared
      /\ DOMAIN since' = {"ticks", "cleared"}
  BY <1>1, Zenon DEF Remembered
<1>3. Me \in Ips
  BY Zenon DEF Ips
<1>4. seen' \in [Ips -> Nat] /\ since'.ticks \in Nat
  BY <1>1, <1>2, Constants DEF Remembered, Older
<1>5. since.ticks >= MinRequestInterval => since'.ticks >= MinRequestInterval
  BY <1>2, Constants DEF Remembered, Older
<1>6. seen[Me] <= since.ticks => since'.ticks >= MinRequestInterval \/ seen'[Me] <= since'.ticks
  BY <1>1, <1>2, <1>3, Constants DEF Remembered, Older
<1> QED
  BY <1>2, <1>4, <1>5, <1>6, Zenon DEF Remembered

\* The responder serves a node once per MIN_REQUEST_INTERVAL, whoever else asks
\* and however often entries are pruned, unless RateLimiter::allow had to clear
\* its full table or the daemon was restarted.
THEOREM ServedOncePerInterval == Spec => OncePerInterval
<1>1. Init => Remembered
  BY Constants DEF Init, Remembered
<1>2. Remembered /\ [Next]_vars => Remembered'
  <2> SUFFICES ASSUME Remembered, [Next]_vars PROVE Remembered'
    BY Zenon
  <2>1. CASE ResponderRestarts
    <3>1. since' = [since EXCEPT !.cleared = TRUE] /\ seen' = [ip \in Ips |-> Absent]
      BY <2>1, Zenon DEF ResponderRestarts
    <3>2. since'.cleared /\ since'.ticks = since.ticks /\ DOMAIN since' = {"ticks", "cleared"}
      BY <3>1, Zenon DEF Remembered
    <3> QED
      BY <3>1, <3>2, Constants, Zenon DEF Remembered
  <2>2. ASSUME UNCHANGED <<seen, since>> PROVE Remembered'
    BY <2>2, Zenon DEF Remembered
  <2>3. CASE \/ \E s1 \in Ports, global \in BOOLEAN, args \in Args : Start(s1, global, args)
             \/ RetryTick \/ Deadline \/ (\E p \in packets : Deliver(p) \/ Lose(p))
             \/ (\E t \in delayed : UnsolicitedSent(t))
             \/ (\E f \in {"open", "stateful", "closed"} : FirewallSet(f)) \/ UNCHANGED vars
    BY <2>2, <2>3, Zenon DEF Start, RetryTick, Deadline, Deliver, Lose, UnsolicitedSent, FirewallSet, vars
  <2> QED
    BY <2>1, <2>3, ServeRemembers, OtherRemembers, TickRemembers, Zenon DEF Next
<1>3. Remembered => ((\E p \in packets : Serve(p)) /\ decodes /\ Allowed(Me) =>
                      since.ticks >= MinRequestInterval \/ since.cleared)
  BY Constants DEF Remembered, Allowed, Ips
<1> QED
  BY <1>1, <1>2, <1>3, PTL DEF Spec, OncePerInterval

-----------------------------------------------------------------------------
(* The verdict.                                                            *)

\* An Unsolicited comes from a socket of its own, so that it passes an open
\* firewall only; that it arrived, and the verdict, tell that the firewall was
\* open while this probe ran.
FromOutside(p) ==
  /\ DOMAIN p = {"kind", "nonce", "port", "reply_port", "main", "left"}
  /\ p.kind = "Unsolicited" => ~p.main
Unasked ==
  /\ \A p \in packets : FromOutside(p)
  /\ probe.on /\ firewall = "open" => "open" \in events
  /\ probe.unsolicited => "open" \in events
  /\ probe.verdict = "open" => probe.unsolicited
Fields == DOMAIN probe = {"on", "nonce", "s1", "s2", "target", "global", "solicited", "unsolicited",
                          "deadline", "retry", "verdict"}
OInv == Fields /\ Unasked

\* What a step has to keep: of the packets, of this probe, and of the firewall.
LEMMA SameProbe ==
  ASSUME OInv, probe' = probe, events \subseteq events',
         firewall' = "open" => firewall = "open" \/ "open" \in events',
         \A p \in packets' : FromOutside(p)
  PROVE  OInv'
BY Zenon DEF OInv, Fields, Unasked

\* What is put into the network, by the client or the responder.
LEMMA NewPacket ==
  ASSUME NEW kind, NEW nonce, NEW port, NEW reply_port, NEW main, kind = "Unsolicited" => main = FALSE
  PROVE  FromOutside(Packet(kind, nonce, port, reply_port, main))
<1>1. kind = "Unsolicited" => ~Packet(kind, nonce, port, reply_port, main).main
  BY Zenon DEF Packet
<1> QED
  BY <1>1, Zenon DEF Packet, FromOutside

\* Closing a probe: classify says "open" only where the Unsolicited arrived.
LEMMA ConcludedRight ==
  ASSUME NEW p, DOMAIN p = {"on", "nonce", "s1", "s2", "target", "global", "solicited", "unsolicited",
                            "deadline", "retry", "verdict"}
  PROVE  /\ DOMAIN Concluded(p) = DOMAIN p
         /\ ~Concluded(p).on
         /\ Concluded(p).unsolicited = p.unsolicited
         /\ Concluded(p).verdict = "open" => p.unsolicited
<1>1. classify(p) = "open" => p.unsolicited
  BY Zenon DEF classify
<1>2. Concluded(p).verdict = classify(p)
  BY Zenon DEF Concluded
<1>3. DOMAIN Concluded(p) = DOMAIN p /\ Concluded(p).unsolicited = p.unsolicited
  BY Zenon DEF Concluded
<1>4. ~Concluded(p).on
  BY Zenon DEF Concluded
<1> QED
  BY <1>1, <1>2, <1>3, <1>4, Zenon

\* A packet that reaches a socket of the probe.
LEMMA DeliverKeeps ==
  ASSUME OInv, NEW p \in packets, Deliver(p)
  PROVE  OInv'
<1>1. /\ packets' = packets \ {p} /\ firewall' = firewall /\ events' = events
      /\ probe' = IF probe.on /\ Admits(p) THEN Received(p) ELSE probe
  BY Zenon DEF Deliver
<1>2. CASE ~(probe.on /\ Admits(p))
  BY <1>1, <1>2, SameProbe, Zenon DEF OInv, Unasked
<1>3. CASE probe.on /\ Admits(p)
  <2> DEFINE got == CASE p.port = probe.s1 /\ p.kind = "Response" /\ p.nonce = probe.nonce ->
                           [probe EXCEPT !.solicited = TRUE]
                      [] p.port = probe.s2 /\ p.kind = "Unsolicited" /\ p.nonce = probe.nonce ->
                           [probe EXCEPT !.unsolicited = TRUE]
                      [] OTHER -> probe
  <2>1. p.kind = "Unsolicited" => "open" \in events
    BY <1>3, Zenon DEF OInv, Unasked, FromOutside, Admits
  <2>2. got \in {probe, [probe EXCEPT !.solicited = TRUE]}
        \/ (p.kind = "Unsolicited" /\ got = [probe EXCEPT !.unsolicited = TRUE])
    BY Zenon
  <2>3. /\ DOMAIN got = DOMAIN probe /\ got.verdict = probe.verdict
        /\ got.unsolicited => "open" \in events
        /\ probe.unsolicited => got.unsolicited
    <3>1. CASE got = probe
      BY <3>1, Zenon DEF OInv, Unasked
    <3>2. CASE got = [probe EXCEPT !.solicited = TRUE]
      BY <3>2, Zenon DEF OInv, Unasked, Fields
    <3>3. CASE p.kind = "Unsolicited" /\ got = [probe EXCEPT !.unsolicited = TRUE]
      <4>1. got.unsolicited
        BY <3>3, Zenon DEF OInv, Fields
      <4>2. DOMAIN got = DOMAIN probe /\ got.verdict = probe.verdict
        BY <3>3
      <4> QED
        BY <2>1, <3>3, <4>1, <4>2, Zenon
    <3> QED
      BY <2>2, <3>1, <3>2, <3>3, Zenon
  <2>4. probe' = IF got.solicited /\ got.unsolicited THEN Concluded(got) ELSE got
    BY <1>1, <1>3, Zenon DEF Received
  <2> HIDE DEF got
  <2>5. CASE got.solicited /\ got.unsolicited
    BY <1>1, <2>3, <2>4, <2>5, ConcludedRight, Zenon DEF OInv, Unasked, Fields
  <2>6. CASE ~(got.solicited /\ got.unsolicited)
    BY <1>1, <1>3, <2>3, <2>4, <2>6, Zenon DEF OInv, Unasked, Fields
  <2> QED
    BY <2>5, <2>6, Zenon
<1> QED
  BY <1>2, <1>3, Zenon

\* The steps of the responder, the network and the user.
LEMMA OutsideKeeps ==
  ASSUME OInv, \/ (\E p \in packets : Serve(p) \/ Lose(p)) \/ (\E t \in delayed : UnsolicitedSent(t))
               \/ (\E ip \in Others : OtherAsks(ip)) \/ ResponderRestarts
               \/ (\E f \in {"open", "stateful", "closed"} : FirewallSet(f)) \/ UNCHANGED vars
  PROVE  OInv'
<1>1. probe' = probe
  BY Zenon DEF Serve, Lose, UnsolicitedSent, OtherAsks, ResponderRestarts, FirewallSet, vars
<1>2. events \subseteq events'
  BY Zenon DEF Serve, Lose, UnsolicitedSent, OtherAsks, ResponderRestarts, FirewallSet, vars
<1>3. firewall' = "open" => firewall = "open" \/ "open" \in events'
  BY Zenon DEF Serve, Lose, UnsolicitedSent, OtherAsks, ResponderRestarts, FirewallSet, vars
<1>4. ASSUME NEW q \in packets'
      PROVE  \/ q \in packets
             \/ \E nonce, port : q = Packet("Response", nonce, port, 0, TRUE)
             \/ \E nonce, port : q = Packet("Unsolicited", nonce, port, 0, FALSE)
  BY <1>4, Zenon DEF Serve, Lose, UnsolicitedSent, OtherAsks, ResponderRestarts, FirewallSet, vars
<1>5. \A q \in packets' : FromOutside(q)
  <2> SUFFICES ASSUME NEW q \in packets' PROVE FromOutside(q)
    BY Zenon
  <2>1. CASE q \in packets
    BY <2>1, Zenon DEF OInv, Unasked
  <2>2. CASE \E nonce, port : q = Packet("Response", nonce, port, 0, TRUE)
    BY <2>2, NewPacket, Zenon
  <2>3. CASE \E nonce, port : q = Packet("Unsolicited", nonce, port, 0, FALSE)
    BY <2>3, NewPacket, Zenon
  <2> QED
    BY <1>4, <2>1, <2>2, <2>3, Zenon
<1> QED
  BY <1>1, <1>2, <1>3, <1>5, SameProbe, Zenon

\* The steps of the client, and time.
LEMMA ClientKeeps ==
  ASSUME OInv, \/ (\E s1 \in Ports, global \in BOOLEAN, args \in Args : Start(s1, global, args))
               \/ RetryTick \/ Deadline \/ Tick
  PROVE  OInv'
<1>1. CASE \E s1 \in Ports, global \in BOOLEAN, args \in Args : Start(s1, global, args)
  <2>1. PICK n, s1, target, global : probe' = Bound(n, s1, target, global)
    BY <1>1, Zenon DEF Start
  <2>2. /\ packets' = packets /\ firewall' = firewall
        /\ events' = IF firewall = "open" THEN {"open"} ELSE {}
    BY <1>1, Zenon DEF Start
  <2>3. probe'.verdict = "none" /\ Fields'
    BY <2>1, Zenon DEF Bound, Fields
  <2>4. ~probe'.unsolicited
    BY <2>1, Zenon DEF Bound
  <2> QED
    BY <2>2, <2>3, <2>4, Zenon DEF OInv, Unasked
<1>2. CASE RetryTick
  <2>1. /\ firewall' = firewall /\ events' = events
        /\ probe' = [probe EXCEPT !.retry = RequestRetryInterval]
        /\ packets' \subseteq packets \cup {Packet("Request", probe.nonce, probe.s1, probe.s2, TRUE)}
    BY <1>2, Zenon DEF RetryTick
  <2>2. \A q \in packets' : FromOutside(q)
    BY <2>1, NewPacket, Zenon DEF OInv, Unasked
  <2> QED
    BY <2>1, <2>2, Zenon DEF OInv, Unasked, Fields
<1>3. CASE Deadline
  <2>1. /\ packets' = packets /\ firewall' = firewall /\ events' = events /\ probe' = Concluded(probe)
    BY <1>3, Zenon DEF Deadline
  <2> QED
    BY <2>1, ConcludedRight, Zenon DEF OInv, Unasked, Fields
<1>4. CASE Tick
  <2>1. /\ firewall' = firewall /\ events' = events
        /\ packets' = {[p EXCEPT !.left = @ - 1] : p \in packets}
    BY <1>4, Zenon DEF Tick
  <2>2. ASSUME NEW p, FromOutside(p) PROVE FromOutside([p EXCEPT !.left = @ - 1])
    BY <2>2, Zenon DEF FromOutside
  <2>3. \A q \in packets' : FromOutside(q)
    BY <2>1, <2>2, Zenon DEF OInv, Unasked
  <2>4. CASE ~probe.on
    <3>1. probe' = probe
      BY <1>4, <2>4, Zenon DEF Tick
    <3> QED
      BY <2>1, <2>3, <3>1, SameProbe, Zenon
  <2>5. CASE probe.on
    <3>1. probe' = [probe EXCEPT !.retry = @ - 1, !.deadline = @ - 1]
      BY <1>4, <2>5, Zenon DEF Tick
    <3>2. /\ Fields' /\ probe'.verdict = probe.verdict /\ probe'.unsolicited = probe.unsolicited
          /\ probe'.on = probe.on
      BY <3>1, Zenon DEF OInv, Fields
    <3> QED
      BY <2>1, <2>3, <3>2, Zenon DEF OInv, Unasked
  <2> QED
    BY <2>4, <2>5, Zenon
<1> QED
  BY <1>1, <1>2, <1>3, <1>4, Zenon

\* doctor says "open" only of a firewall that let unasked packets in while the
\* probe ran (probe_peer, Responder::serve, classify), however many probes came
\* before it on whichever ports, and however packets are lost and reordered.
THEOREM OpenAlwaysMeansOpen == Spec => []OpenMeansOpen
<1>1. Init => OInv
  <2> SUFFICES ASSUME Init PROVE OInv
    BY Zenon
  <2>1. ~probe.on /\ ~probe.unsolicited
    BY Zenon DEF Init
  <2>2. packets = {} /\ probe.verdict = "none" /\ Fields
    BY Zenon DEF Init, Fields
  <2> QED
    BY <2>1, <2>2, Zenon DEF OInv, Unasked
<1>2. OInv /\ [Next]_vars => OInv'
  BY DeliverKeeps, OutsideKeeps, ClientKeeps, Zenon DEF Next
<1>3. OInv => OpenMeansOpen
  BY Zenon DEF OInv, Unasked, OpenMeansOpen
<1> QED
  BY <1>1, <1>2, <1>3, PTL DEF Spec

-----------------------------------------------------------------------------
(* The right verdict in time.                                              *)

\* Ticks since the probe began.
elapsed == Timeout - probe.deadline

\* Packets and tasks of this probe belong to its ports; the port it asks from is
\* known to the firewall.  A Request of an earlier probe was sent before it began.
Ours(p) ==
  p.nonce = probe.nonce =>
    /\ p.kind # "Unsolicited" => p.port = probe.s1 /\ p.main = TRUE /\ probe.s1 \in conntrack
    /\ p.kind = "Request" => p.reply_port = probe.s2
    /\ p.kind = "Unsolicited" => p.port = probe.s2 /\ p.main = FALSE
Earlier(p) == p.kind = "Request" /\ p.nonce # probe.nonce => elapsed + p.left <= Flight
Labelled ==
  /\ probe.s1 # probe.s2
  /\ \A p \in packets : p.nonce <= probe.nonce /\ Ours(p) /\ Earlier(p)
  /\ \A t \in delayed : t.nonce <= probe.nonce /\ (t.nonce = probe.nonce => t.port = probe.s2)

\* What arrived was let in by the firewall as it is, unless that was changed.
LetIn == "disturbed" \notin events =>
  /\ probe.solicited => firewall # "closed"
  /\ probe.unsolicited => firewall = "open"

\* The case of RightVerdict.
Calm == helper = "member" /\ probe.target = "here" /\ events \subseteq {"lost", "open"}

\* From S + MinRequestInterval on the responder serves the node, and a Request
\* is sent or is on its way by RequestRetryInterval later.
Turn(S) == seen[Me] >= MinRequestInterval \/ elapsed <= seen[Me] + S
Asking(S) ==
  \/ elapsed + probe.retry < S + MinRequestInterval + RequestRetryInterval
  \/ \E p \in packets : /\ p.kind = "Request" /\ p.nonce = probe.nonce
                        /\ elapsed + p.left < S + MinRequestInterval + RequestRetryInterval + Flight

\* Then the Response is on its way, and the Unsolicited.
Answered(S) ==
  \E p \in packets : /\ p.kind = "Response" /\ p.nonce = probe.nonce
                     /\ elapsed + p.left < S + MinRequestInterval + RequestRetryInterval + 2 * Flight
Coming(S) ==
  \/ \E t \in delayed :
       /\ t.nonce = probe.nonce
       /\ elapsed + t.left < S + MinRequestInterval + RequestRetryInterval + Flight + UnsolicitedDelay
  \/ \E p \in packets :
       /\ p.kind = "Unsolicited" /\ p.nonce = probe.nonce
       /\ elapsed + p.left < S + MinRequestInterval + RequestRetryInterval + 2 * Flight + UnsolicitedDelay

\* The responder's first answer: a Request of an earlier probe is served within
\* Flight.  A loss has to be made good: of a Response by its latest arrival.
Late == "lost" \in events
ResponseBy(S) == (Turn(S) /\ Asking(S)) \/ Answered(S)
AwaitsResponse == probe.on /\ Calm /\ firewall # "closed" /\ ~probe.solicited
ResponseDue ==
  AwaitsResponse =>
    /\ ~Late => ResponseBy(Flight)
    /\ Late => ResponseBy(3 * Flight + MinRequestInterval + RequestRetryInterval)

\* The same for the Unsolicited, which is promised with the first Response.
Unheard == ~probe.solicited /\ \A p \in packets : ~(p.kind = "Response" /\ p.nonce = probe.nonce)
UnsolicitedBy(S) == (Turn(S) /\ Asking(S) /\ Unheard) \/ Coming(S)
AwaitsUnsolicited == probe.on /\ Calm /\ firewall = "open" /\ ~probe.unsolicited
UnsolicitedDue ==
  AwaitsUnsolicited =>
    /\ ~Late => UnsolicitedBy(Flight)
    /\ Late => UnsolicitedBy(2 * Flight + RequestRetryInterval)

\* A running probe has a nonce.
Begun == probe.on => probe.nonce # 0

Due == ResponseDue /\ UnsolicitedDue
VInv == DoctorTypeOK /\ Begun /\ Labelled /\ LetIn /\ Due /\ RightVerdict

\* The constants, for the arithmetic below.
LEMMA Timings ==
  /\ Flight \in Nat /\ MinRequestInterval \in Nat /\ RequestRetryInterval \in Nat /\ UnsolicitedDelay \in Nat
  /\ Timeout \in Nat /\ MaxProbes \in Nat /\ MaxLosses \in Nat /\ MaxChanges \in Nat
  /\ MinRequestInterval > 0 /\ RequestRetryInterval > 0 /\ UnsolicitedDelay <= MinRequestInterval
BY DoctorAssumption

\* What a packet is made of.
LEMMA PacketFields ==
  ASSUME NEW p \in Packets
  PROVE  /\ p.kind \in {"Request", "Response", "Unsolicited"} /\ p.nonce \in Nonces /\ p.port \in Ports
         /\ p.reply_port \in {0} \cup Ports /\ p.left \in 0 .. Flight
         /\ DOMAIN p = {"kind", "nonce", "port", "reply_port", "main", "left"}
BY Zenon DEF Packets

\* What a task of the responder is made of.
LEMMA TaskFields ==
  ASSUME NEW t \in Tasks
  PROVE  t.nonce \in Nonces /\ t.port \in Ports /\ t.left \in 0 .. UnsolicitedDelay
BY Zenon DEF Tasks

\* What a probe is made of.
LEMMA ProbeFields ==
  ASSUME NEW q \in Probes
  PROVE  /\ q.nonce \in 0 .. MaxProbes /\ q.s1 \in Ports /\ q.s2 \in Ports /\ q.target \in Addresses
         /\ q.deadline \in 0 .. Timeout /\ q.retry \in 0 .. RequestRetryInterval
         /\ DOMAIN q = {"on", "nonce", "s1", "s2", "target", "global", "solicited", "unsolicited",
                        "deadline", "retry", "verdict"}
BY Zenon DEF Probes

\* The changes of a probe: of time, of what arrived, and its end.
LEMMA ProbeChanges ==
  ASSUME NEW q \in Probes
  PROVE  /\ \A r \in 0 .. RequestRetryInterval : [q EXCEPT !.retry = r] \in Probes
         /\ \A r \in 0 .. RequestRetryInterval, d \in 0 .. Timeout :
              [q EXCEPT !.retry = r, !.deadline = d] \in Probes
         /\ [q EXCEPT !.solicited = TRUE] \in Probes
         /\ [q EXCEPT !.unsolicited = TRUE] \in Probes
         /\ Concluded(q) \in Probes
<1>1. \A r \in 0 .. RequestRetryInterval : [q EXCEPT !.retry = r] \in Probes
  BY Zenon DEF Probes
<1>2. \A r \in 0 .. RequestRetryInterval, d \in 0 .. Timeout :
        [q EXCEPT !.retry = r, !.deadline = d] \in Probes
  BY Zenon DEF Probes
<1>3. [q EXCEPT !.solicited = TRUE] \in Probes
  BY Zenon DEF Probes
<1>4. [q EXCEPT !.unsolicited = TRUE] \in Probes
  BY Zenon DEF Probes
<1>5. Concluded(q) \in Probes
  <2>1. classify(q) \in {"none", "no-ipv6", "open", "stateful", "blocked"}
    BY Zenon DEF classify
  <2> QED
    BY <2>1, Zenon DEF Probes, Concluded
<1> QED
  BY <1>1, <1>2, <1>3, <1>4, <1>5, Zenon

\* A new probe has two ports.
LEMMA BoundFields ==
  ASSUME NEW n \in 1 .. MaxProbes, NEW s1 \in Ports, NEW target \in Addresses, NEW global \in BOOLEAN
  PROVE  /\ Bound(n, s1, target, global) \in Probes
         /\ Bound(n, s1, target, global).s1 # Bound(n, s1, target, global).s2
<1>1. PICK s2 \in Ports : s2 # s1 /\ s2 = CHOOSE p \in Ports : p # s1
  BY DEF Ports
<1>2. Bound(n, s1, target, global) =
        [on |-> TRUE, nonce |-> n, s1 |-> s1, s2 |-> s2, target |-> target, global |-> global,
         solicited |-> FALSE, unsolicited |-> FALSE, deadline |-> Timeout, retry |-> 0, verdict |-> "none"]
  BY <1>1, Zenon DEF Bound
<1>3. 0 \in 0 .. RequestRetryInterval /\ Timeout \in 0 .. Timeout /\ n \in 0 .. MaxProbes
  BY Timings
<1>4. Bound(n, s1, target, global) \in Probes
  BY <1>2, <1>3 DEF Probes
<1> QED
  BY <1>1, <1>2, <1>4

\* What is sent is a packet.
LEMMA PacketType ==
  ASSUME NEW kind \in {"Request", "Response", "Unsolicited"}, NEW n \in Nonces, NEW port \in Ports,
         NEW reply \in {0} \cup Ports, NEW main \in BOOLEAN
  PROVE  /\ Packet(kind, n, port, reply, main) \in Packets
         /\ Packet(kind, n, port, reply, main).kind = kind
         /\ Packet(kind, n, port, reply, main).nonce = n
         /\ Packet(kind, n, port, reply, main).port = port
         /\ Packet(kind, n, port, reply, main).reply_port = reply
         /\ Packet(kind, n, port, reply, main).main = main
         /\ Packet(kind, n, port, reply, main).left = Flight
<1>1. Flight \in 0 .. Flight
  BY Timings
<1> QED
  BY <1>1, Zenon DEF Packet, Packets

\* RateLimiter::allow never lets the table exceed RateTableMax.
LEMMA TableBounded ==
  ASSUME seen \in [Ips -> 0 .. Absent], Cardinality(Tracked(seen)) <= RateTableMax, NEW ip \in Ips, allow(ip)
  PROVE  seen' \in [Ips -> 0 .. Absent] /\ Cardinality(Tracked(seen')) <= RateTableMax
<1>0. RateTableMax \in Nat \ {0} /\ 0 \in 0 .. Absent /\ Absent \in 0 .. Absent /\ Absent # 0
  BY Constants
<1>1. IsFiniteSet(Ips)
  <2>1. IsFiniteSet({Me})
    BY FS_Singleton, Zenon
  <2> QED
    BY <2>1, DoctorAssumption, FS_Union, Zenon DEF Ips
<1>2. ASSUME ~Allowed(ip) PROVE seen' = seen
  BY <1>2, Zenon DEF allow
<1>3. CASE Allowed(ip)
  <2>1. Room(seen) \in [Ips -> 0 .. Absent]
    BY <1>0, Zenon DEF Room
  <2>2. seen' = [Room(seen) EXCEPT ![ip] = 0]
    BY <1>3, Zenon DEF allow
  <2>3. seen' \in [Ips -> 0 .. Absent]
    BY <1>0, <2>1, <2>2, Zenon
  <2>4. Tracked(seen') \subseteq Tracked(Room(seen)) \cup {ip}
    BY <2>1, <2>2, Zenon DEF Tracked
  <2>5. IsFiniteSet(Tracked(Room(seen))) /\ Cardinality(Tracked(Room(seen))) < RateTableMax
    <3>1. CASE Cardinality(Tracked(seen)) < RateTableMax
      BY <1>1, <3>1, FS_Subset, Zenon DEF Room, Tracked
    <3>2. CASE ~(Cardinality(Tracked(seen)) < RateTableMax) /\ Cleared(seen)
      <4>1. Tracked(Room(seen)) = {}
        BY <3>2, Zenon DEF Room, Tracked
      <4> QED
        BY <1>0, <4>1, FS_EmptySet
    <3>3. CASE ~(Cardinality(Tracked(seen)) < RateTableMax) /\ ~Cleared(seen)
      <4> DEFINE young == {i \in Tracked(seen) : seen[i] < RateEntryTTL}
      <4>1. IsFiniteSet(Tracked(seen)) /\ IsFiniteSet(young)
        BY <1>1, FS_Subset, Zenon DEF Tracked
      <4>2. Cardinality(Tracked(seen)) \in Nat /\ Cardinality(young) \in Nat
        BY <4>1, FS_CardinalityType, Zenon
      <4>3. Cardinality(young) < RateTableMax
        BY <1>0, <3>3, <4>2 DEF Cleared
      <4>4. Tracked(Room(seen)) \subseteq young
        BY <3>3, Constants DEF Room, Tracked
      <4>5. IsFiniteSet(Tracked(Room(seen))) /\ Cardinality(Tracked(Room(seen))) <= Cardinality(young)
        BY <4>1, <4>4, FS_Subset, Zenon
      <4>6. Cardinality(Tracked(Room(seen))) \in Nat
        BY <4>5, FS_CardinalityType, Zenon
      <4> QED
        BY <1>0, <4>2, <4>3, <4>5, <4>6
    <3> QED
      BY <3>1, <3>2, <3>3, Zenon
  <2>6. /\ IsFiniteSet(Tracked(Room(seen)) \cup {ip})
        /\ Cardinality(Tracked(Room(seen)) \cup {ip}) <= Cardinality(Tracked(Room(seen))) + 1
    <3>1. Cardinality(Tracked(Room(seen))) \in Nat
      BY <2>5, FS_CardinalityType, Zenon
    <3>2. /\ IsFiniteSet(Tracked(Room(seen)) \cup {ip})
          /\ Cardinality(Tracked(Room(seen)) \cup {ip}) =
               IF ip \in Tracked(Room(seen)) THEN Cardinality(Tracked(Room(seen)))
               ELSE Cardinality(Tracked(Room(seen))) + 1
      BY <2>5, FS_AddElement, Zenon
    <3> QED
      BY <3>1, <3>2
  <2>7. IsFiniteSet(Tracked(seen')) /\ Cardinality(Tracked(seen')) <= Cardinality(Tracked(Room(seen)) \cup {ip})
    BY <2>4, <2>6, FS_Subset, Zenon
  <2>8. /\ Cardinality(Tracked(seen')) \in Nat /\ Cardinality(Tracked(Room(seen))) \in Nat
        /\ Cardinality(Tracked(Room(seen)) \cup {ip}) \in Nat
    BY <2>5, <2>6, <2>7, FS_CardinalityType, Zenon
  <2> QED
    BY <1>0, <2>3, <2>5, <2>6, <2>7, <2>8
<1> QED
  BY <1>2, <1>3, Zenon

\* The client's and the network's steps keep the types of what they change.
LEMMA ProbeTyped ==
  ASSUME DoctorTypeOK, [Next]_vars
  PROVE  probe' \in Probes
<1>0. probe \in Probes /\ probe.nonce \in 0 .. MaxProbes /\ probe.retry \in 0 .. RequestRetryInterval
      /\ probe.deadline \in 0 .. Timeout
  BY ProbeFields, Zenon DEF DoctorTypeOK
<1>1. CASE probe' = probe
  BY <1>0, <1>1, Zenon
<1>2. ASSUME NEW s1 \in Ports, NEW global \in BOOLEAN, NEW args \in Args, Start(s1, global, args)
      PROVE  probe' \in Probes
  <2>1. probe.nonce + 1 \in 1 .. MaxProbes
    BY <1>0, <1>2, Timings DEF Start
  <2>2. resolve_target(args) \in Addresses
    BY Zenon DEF resolve_target, Args
  <2> QED
    BY <1>2, <2>1, <2>2, BoundFields, Zenon DEF Start
<1>3. CASE RetryTick
  <2>1. RequestRetryInterval \in 0 .. RequestRetryInterval
    BY Timings
  <2> QED
    BY <1>0, <1>3, <2>1, ProbeChanges, Zenon DEF RetryTick
<1>4. CASE Deadline
  BY <1>0, <1>4, ProbeChanges, Zenon DEF Deadline
<1>5. ASSUME NEW p \in packets, Deliver(p) PROVE probe' \in Probes
  <2>1. Received(p) \in Probes
    <3>1. ASSUME NEW got \in Probes
          PROVE  (IF got.solicited /\ got.unsolicited THEN Concluded(got) ELSE got) \in Probes
      BY ProbeChanges, Zenon
    <3>2. /\ probe \in Probes /\ [probe EXCEPT !.solicited = TRUE] \in Probes
          /\ [probe EXCEPT !.unsolicited = TRUE] \in Probes
      BY <1>0, ProbeChanges, Zenon
    <3> QED
      BY <3>1, <3>2, Zenon DEF Received
  <2> QED
    BY <1>0, <1>5, <2>1, Zenon DEF Deliver
<1>6. CASE Tick
  <2>1. CASE probe.on
    <3>1. probe.retry - 1 \in 0 .. RequestRetryInterval /\ probe.deadline - 1 \in 0 .. Timeout
      BY <1>0, <1>6, <2>1, Timings DEF Tick
    <3>2. probe' = [probe EXCEPT !.retry = probe.retry - 1, !.deadline = probe.deadline - 1]
      BY <1>6, <2>1, Zenon DEF Tick
    <3> QED
      BY <1>0, <3>1, <3>2, ProbeChanges, Zenon
  <2>2. CASE ~probe.on
    BY <1>0, <1>6, <2>2, Zenon DEF Tick
  <2> QED
    BY <2>1, <2>2, Zenon
<1> QED
  BY <1>1, <1>2, <1>3, <1>4, <1>5, <1>6, Zenon
     DEF Next, vars, Serve, Lose, UnsolicitedSent, OtherAsks, ResponderRestarts, FirewallSet

\* A tick takes one from the flight of every packet, and from every task's sleep.
LEMMA TickPackets ==
  ASSUME DoctorTypeOK, Tick
  PROVE  /\ \A q \in packets' : q \in Packets
         /\ \A p \in packets : p.left > 0 /\ \E q \in packets' :
              q.kind = p.kind /\ q.nonce = p.nonce /\ q.left = p.left - 1
         /\ \A q \in packets' : \E p \in packets :
              /\ p.left > 0 /\ q.left = p.left - 1 /\ q.kind = p.kind /\ q.nonce = p.nonce /\ q.port = p.port
              /\ q.reply_port = p.reply_port /\ q.main = p.main
<1>1. packets' = {[p EXCEPT !.left = p.left - 1] : p \in packets}
  BY Zenon DEF Tick
<1>2. \A p \in packets : p.left > 0
  BY Zenon DEF Tick
<1>3. ASSUME NEW p \in packets
      PROVE  /\ [p EXCEPT !.left = p.left - 1] \in Packets
             /\ [p EXCEPT !.left = p.left - 1].left = p.left - 1
             /\ [p EXCEPT !.left = p.left - 1].kind = p.kind
             /\ [p EXCEPT !.left = p.left - 1].nonce = p.nonce
             /\ [p EXCEPT !.left = p.left - 1].port = p.port
             /\ [p EXCEPT !.left = p.left - 1].reply_port = p.reply_port
             /\ [p EXCEPT !.left = p.left - 1].main = p.main
  <2>1. p \in Packets /\ p.left \in 0 .. Flight /\ p.left > 0
    BY <1>2, PacketFields, Zenon DEF DoctorTypeOK
  <2>2. p.left - 1 \in 0 .. Flight
    BY <2>1, Timings
  <2>3. DOMAIN p = {"kind", "nonce", "port", "reply_port", "main", "left"}
    BY <2>1, PacketFields, Zenon
  <2>4. [p EXCEPT !.left = p.left - 1] \in Packets
    BY <2>1, <2>2, Zenon DEF Packets
  <2> QED
    BY <2>3, <2>4, Zenon
<1>4. \A q \in packets' : q \in Packets
  BY <1>1, <1>3, Zenon
<1>5. ASSUME NEW q \in packets'
      PROVE  \E p \in packets :
               /\ p.left > 0 /\ q.left = p.left - 1 /\ q.kind = p.kind /\ q.nonce = p.nonce /\ q.port = p.port
               /\ q.reply_port = p.reply_port /\ q.main = p.main
  <2>1. PICK p \in packets : q = [p EXCEPT !.left = p.left - 1]
    BY <1>1, Zenon
  <2> QED
    BY <1>2, <1>3, <2>1, Zenon
<1>6. ASSUME NEW p \in packets
      PROVE  p.left > 0 /\ \E q \in packets' : q.kind = p.kind /\ q.nonce = p.nonce /\ q.left = p.left - 1
  <2>1. [p EXCEPT !.left = p.left - 1] \in packets'
    BY <1>1, Zenon
  <2> QED
    BY <1>2, <1>3, <2>1, Zenon
<1> QED
  BY <1>4, <1>5, <1>6, Zenon

\* The same for the sleeping tasks.
LEMMA TickTasks ==
  ASSUME DoctorTypeOK, Tick
  PROVE  /\ \A q \in delayed' : q \in Tasks
         /\ \A t \in delayed : t.left > 0 /\ \E q \in delayed' : q.nonce = t.nonce /\ q.left = t.left - 1
         /\ \A q \in delayed' : \E t \in delayed : q.nonce = t.nonce /\ q.port = t.port
<1>1. delayed' = {[t EXCEPT !.left = t.left - 1] : t \in delayed} /\ \A t \in delayed : t.left > 0
  BY Zenon DEF Tick
<1>2. ASSUME NEW t \in delayed
      PROVE  /\ [t EXCEPT !.left = t.left - 1] \in Tasks
             /\ [t EXCEPT !.left = t.left - 1].left = t.left - 1
             /\ [t EXCEPT !.left = t.left - 1].nonce = t.nonce
             /\ [t EXCEPT !.left = t.left - 1].port = t.port
  <2>1. t \in Tasks /\ t.left \in 0 .. UnsolicitedDelay /\ t.left > 0
    BY <1>1, TaskFields, Zenon DEF DoctorTypeOK
  <2>2. t.left - 1 \in 0 .. UnsolicitedDelay
    BY <2>1, Timings
  <2> QED
    BY <2>1, <2>2, Zenon DEF Tasks
<1> QED
  BY <1>1, <1>2, Zenon

\* DoctorTypeOK is inductive.
LEMMA DoctorTyped ==
  ASSUME DoctorTypeOK, Begun, [Next]_vars
  PROVE  DoctorTypeOK'
<1>0. /\ packets \subseteq Packets /\ delayed \subseteq Tasks /\ conntrack \subseteq Ports
      /\ seen \in [Ips -> 0 .. Absent] /\ Cardinality(Tracked(seen)) <= RateTableMax
      /\ since \in [ticks: 0 .. MinRequestInterval, cleared: BOOLEAN]
  BY Zenon DEF DoctorTypeOK, Tracked
<1>1. probe' \in Probes
  BY ProbeTyped, Zenon
<1>2. packets' \subseteq Packets /\ conntrack' \subseteq Ports
  <2>1. CASE UNCHANGED <<packets, conntrack>>
    BY <1>0, <2>1, Zenon
  <2>2. CASE Tick
    BY <1>0, <2>2, TickPackets, Zenon DEF Tick
  <2>3. CASE RetryTick
    <3>1. CASE UNCHANGED <<packets, conntrack>>
      BY <1>0, <3>1, Zenon
    <3>2. CASE /\ packets' = packets \cup {Packet("Request", probe.nonce, probe.s1, probe.s2, TRUE)}
               /\ conntrack' = conntrack \cup {probe.s1}
      <4>1. probe.nonce \in Nonces /\ probe.s1 \in Ports /\ probe.s2 \in Ports
        <5>1. probe.nonce \in 0 .. MaxProbes /\ probe.nonce # 0
          BY <2>3, ProbeFields, Zenon DEF DoctorTypeOK, RetryTick, Begun
        <5>2. probe.nonce \in 1 .. MaxProbes
          BY <5>1, Timings
        <5>3. probe.s1 \in Ports /\ probe.s2 \in Ports
          BY ProbeFields, Zenon DEF DoctorTypeOK
        <5> QED
          BY <5>2, <5>3, Zenon DEF Nonces
      <4>2. Packet("Request", probe.nonce, probe.s1, probe.s2, TRUE) \in Packets
        BY <4>1, PacketType, Zenon
      <4> QED
        BY <1>0, <3>2, <4>1, <4>2, Zenon
    <3> QED
      BY <2>3, <3>1, <3>2, Zenon DEF RetryTick
  <2>4. ASSUME NEW p \in packets, Serve(p) PROVE packets' \subseteq Packets /\ conntrack' = conntrack
    <3>1. p.nonce \in Nonces /\ p.port \in Ports
      BY <1>0, PacketFields, Zenon
    <3>2. Packet("Response", p.nonce, p.port, 0, TRUE) \in Packets
      BY <3>1, PacketType, Zenon
    <3> QED
      BY <1>0, <2>4, <3>2, Zenon DEF Serve
  <2>5. ASSUME NEW t \in delayed, UnsolicitedSent(t) PROVE packets' \subseteq Packets /\ conntrack' = conntrack
    <3>1. t.nonce \in Nonces /\ t.port \in Ports
      BY <1>0, TaskFields, Zenon
    <3>2. Packet("Unsolicited", t.nonce, t.port, 0, FALSE) \in Packets
      BY <3>1, PacketType, Zenon
    <3> QED
      BY <1>0, <2>5, <3>2, Zenon DEF UnsolicitedSent
  <2>6. ASSUME NEW p \in packets, Deliver(p) \/ Lose(p) PROVE packets' \subseteq Packets /\ conntrack' = conntrack
    BY <1>0, <2>6, Zenon DEF Deliver, Lose
  <2> QED
    BY <1>0, <2>1, <2>2, <2>3, <2>4, <2>5, <2>6, Zenon
       DEF Next, vars, Start, Deadline, OtherAsks, ResponderRestarts, FirewallSet
<1>3. delayed' \subseteq Tasks
  <2>1. ASSUME NEW p \in packets, Serve(p) PROVE delayed' \subseteq Tasks
    <3>1. p.nonce \in Nonces /\ p.reply_port \in {0} \cup Ports /\ UnsolicitedDelay \in 0 .. UnsolicitedDelay
      BY <1>0, PacketFields, Timings
    <3>2. p.reply_port # 0 => [nonce |-> p.nonce, port |-> p.reply_port, left |-> UnsolicitedDelay] \in Tasks
      BY <3>1, Zenon DEF Tasks
    <3> QED
      BY <1>0, <2>1, <3>2, Zenon DEF Serve
  <2>2. CASE Tick
    BY <2>2, TickTasks, Zenon
  <2>3. CASE delayed' \subseteq delayed
    BY <1>0, <2>3, Zenon
  <2> QED
    BY <2>1, <2>2, <2>3, Zenon DEF Next, vars, Start, RetryTick, Deadline, Deliver, Lose, UnsolicitedSent,
                            OtherAsks, ResponderRestarts, FirewallSet
<1>4. seen' \in [Ips -> 0 .. Absent] /\ Cardinality(Tracked(seen')) <= RateTableMax
  <2>1. CASE seen' = seen
    BY <1>0, <2>1, Zenon
  <2>2. CASE \E ip \in Ips : allow(ip)
    BY <1>0, <2>2, TableBounded, Zenon
  <2>3. CASE ResponderRestarts
    <3>1. seen' = [ip \in Ips |-> Absent]
      BY <2>3, Zenon DEF ResponderRestarts
    <3>2. Tracked(seen') = {} /\ seen' \in [Ips -> 0 .. Absent]
      BY <3>1, Constants DEF Tracked
    <3> QED
      BY <3>2, FS_EmptySet, Constants
  <2>4. CASE Tick
    <3>1. seen' = [ip \in Ips |-> IF seen[ip] = Absent THEN Absent ELSE Older(seen[ip], RateEntryTTL)]
      BY <2>4, Zenon DEF Tick
    <3>2. seen' \in [Ips -> 0 .. Absent] /\ Tracked(seen') \subseteq Tracked(seen)
      <4>1. ASSUME NEW ip \in Ips
            PROVE  seen'[ip] \in 0 .. Absent /\ (seen'[ip] # Absent => seen[ip] # Absent)
        BY <1>0, <3>1, Constants DEF Older
      <4> QED
        BY <3>1, <4>1, Zenon DEF Tracked
    <3>3. IsFiniteSet(Ips)
      <4>1. IsFiniteSet({Me})
        BY FS_Singleton, Zenon
      <4> QED
        BY <4>1, DoctorAssumption, FS_Union, Zenon DEF Ips
    <3>4. IsFiniteSet(Tracked(seen))
      BY <3>3, FS_Subset, Zenon DEF Tracked
    <3>5. IsFiniteSet(Tracked(seen')) /\ Cardinality(Tracked(seen')) <= Cardinality(Tracked(seen))
      BY <3>2, <3>4, FS_Subset, Zenon
    <3>6. Cardinality(Tracked(seen')) \in Nat /\ Cardinality(Tracked(seen)) \in Nat
      BY <3>4, <3>5, FS_CardinalityType, Zenon
    <3> QED
      BY <1>0, <3>2, <3>5, <3>6, Constants
  <2>5. Me \in Ips /\ Others \subseteq Ips
    BY Zenon DEF Ips
  <2> QED
    BY <2>1, <2>2, <2>3, <2>4, <2>5, Zenon DEF Next, vars, Start, RetryTick, Deadline, Serve, Deliver, Lose,
                                        UnsolicitedSent, OtherAsks, FirewallSet
<1>5. since' \in [ticks: 0 .. MinRequestInterval, cleared: BOOLEAN]
  <2>1. since.ticks \in 0 .. MinRequestInterval /\ 0 \in 0 .. MinRequestInterval
    BY <1>0, Constants
  <2>2. Older(since.ticks, MinRequestInterval) \in 0 .. MinRequestInterval
    BY <2>1, Constants DEF Older
  <2>3. [ticks |-> 0, cleared |-> FALSE] \in [ticks: 0 .. MinRequestInterval, cleared: BOOLEAN]
    BY <2>1, Zenon
  <2>4. \A c \in BOOLEAN : [since EXCEPT !.cleared = c] \in [ticks: 0 .. MinRequestInterval, cleared: BOOLEAN]
    BY <1>0, Zenon
  <2>5. CASE Tick
    BY <1>0, <2>2, <2>5, Zenon DEF Tick
  <2>6. CASE \E ip \in Others : OtherAsks(ip)
    <3>1. PICK ip \in Others : OtherAsks(ip)
      BY <2>6, Zenon
    <3>2. (since.cleared \/ (Allowed(ip) /\ Cleared(seen))) \in BOOLEAN
      BY Zenon
    <3>3. since' = [since EXCEPT !.cleared = since.cleared \/ (Allowed(ip) /\ Cleared(seen))]
      BY <3>1, Zenon DEF OtherAsks
    <3> QED
      BY <2>4, <3>2, <3>3, Zenon
  <2>7. CASE ResponderRestarts
    BY <2>4, <2>7, Zenon DEF ResponderRestarts
  <2>8. CASE since' = since
    BY <1>0, <2>8, Zenon
  <2>9. CASE \E p \in packets : Serve(p)
    BY <1>0, <2>3, <2>9, Zenon DEF Serve
  <2> QED
    BY <2>5, <2>6, <2>7, <2>8, <2>9, Zenon
       DEF Next, vars, Start, RetryTick, Deadline, Deliver, Lose, UnsolicitedSent, FirewallSet
<1>6. firewall' \in {"open", "stateful", "closed"} /\ helper' \in {"member", "stranger", "down"}
  BY Zenon DEF DoctorTypeOK, Next, vars, Start, RetryTick, Deadline, Serve, Deliver, Lose, UnsolicitedSent,
         OtherAsks, ResponderRestarts, FirewallSet, Tick
<1>7. events' \subseteq {"lost", "lost again", "Unsolicited lost", "disturbed", "open"}
  BY Zenon DEF DoctorTypeOK, Next, vars, Start, RetryTick, Deadline, Serve, Deliver, Lose, Lost, UnsolicitedSent,
         OtherAsks, ResponderRestarts, FirewallSet, Tick
<1>8. losses' \in 0 .. MaxLosses /\ changes' \in 0 .. MaxChanges
  <2>1. losses \in 0 .. MaxLosses /\ changes \in 0 .. MaxChanges
    BY Zenon DEF DoctorTypeOK
  <2>2. /\ UNCHANGED losses \/ (losses < MaxLosses /\ losses' = losses + 1)
        /\ UNCHANGED changes \/ (changes < MaxChanges /\ changes' = changes + 1)
    BY Zenon DEF Next, vars, Start, RetryTick, Deadline, Serve, Deliver, Lose, UnsolicitedSent,
           OtherAsks, ResponderRestarts, FirewallSet, Tick, Spend
  <2> QED
    BY <2>1, <2>2, Timings
<1> QED
  BY <1>1, <1>2, <1>3, <1>4, <1>5, <1>6, <1>7, <1>8, Zenon DEF DoctorTypeOK, Tracked

\* The numbers of a state.
LEMMA Quantities ==
  ASSUME DoctorTypeOK
  PROVE  /\ elapsed \in Nat /\ probe.retry \in Nat /\ probe.retry <= RequestRetryInterval
         /\ seen[Me] \in Nat /\ probe.nonce \in Nat
         /\ \A p \in packets : p.left \in Nat /\ p.left <= Flight /\ p.nonce \in Nat
         /\ \A t \in delayed : t.left \in Nat /\ t.left <= UnsolicitedDelay /\ t.nonce \in Nat
<1>1. probe.deadline \in 0 .. Timeout /\ probe.retry \in 0 .. RequestRetryInterval /\ probe.nonce \in 0 .. MaxProbes
  BY ProbeFields, Zenon DEF DoctorTypeOK
<1>2. seen[Me] \in 0 .. Absent
  BY Zenon DEF DoctorTypeOK, Ips
<1>3. \A p \in packets : p.left \in 0 .. Flight /\ p.nonce \in 1 .. MaxProbes
  BY PacketFields, Zenon DEF DoctorTypeOK, Nonces
<1>4. \A t \in delayed : t.left \in 0 .. UnsolicitedDelay /\ t.nonce \in 1 .. MaxProbes
  BY TaskFields, Zenon DEF DoctorTypeOK, Nonces
<1> QED
  BY <1>1, <1>2, <1>3, <1>4, Timings, Constants DEF elapsed

\* A step that keeps the promises and no one's wait begins by, keeps them.
LEMMA DueKept ==
  ASSUME Due, UNCHANGED events, AwaitsResponse' => AwaitsResponse, AwaitsUnsolicited' => AwaitsUnsolicited,
         \A S \in Nat : Flight <= S /\ AwaitsResponse' /\ ResponseBy(S) => ResponseBy(S)',
         \A S \in Nat : Flight <= S /\ AwaitsUnsolicited' /\ UnsolicitedBy(S) => UnsolicitedBy(S)'
  PROVE  Due'
<1>1. Late' = Late
  BY Zenon DEF Late
<1>2. /\ Flight \in Nat /\ 3 * Flight + MinRequestInterval + RequestRetryInterval \in Nat
      /\ 2 * Flight + RequestRetryInterval \in Nat
      /\ Flight <= 3 * Flight + MinRequestInterval + RequestRetryInterval
      /\ Flight <= 2 * Flight + RequestRetryInterval /\ Flight <= Flight
  BY Timings
<1> QED
  BY <1>1, <1>2, Zenon DEF Due, ResponseDue, UnsolicitedDue

\* Another's request only makes the node's own turn come.
LEMMA OtherWaits ==
  ASSUME VInv, DoctorTypeOK', NEW ip \in Others, OtherAsks(ip)
  PROVE  VInv'
<1>1. UNCHANGED <<probe, packets, firewall, conntrack, helper, delayed, events>> /\ allow(ip)
  BY Zenon DEF OtherAsks
<1>2. seen'[Me] = seen[Me] \/ seen'[Me] >= MinRequestInterval
  <2>1. seen \in [Ips -> 0 .. Absent] /\ ip \in Ips /\ Me \in Ips /\ ip # Me
    BY DoctorAssumption, Zenon DEF VInv, DoctorTypeOK, Ips, Me
  <2>2. Room(seen)[Me] = seen[Me] \/ Room(seen)[Me] = Absent
    BY <2>1, Zenon DEF Room
  <2>3. Room(seen) \in [Ips -> 0 .. Absent]
    BY <2>1, Constants DEF Room
  <2>4. seen'[Me] = seen[Me] \/ seen'[Me] = Room(seen)[Me]
    BY <1>1, <2>1, <2>3, Zenon DEF allow
  <2> QED
    BY <2>2, <2>4, Constants
<1>3. elapsed' = elapsed
  BY <1>1, Zenon DEF elapsed
<1>4. ASSUME NEW S \in Nat PROVE Turn(S) => Turn(S)'
  BY <1>2, <1>3, Zenon DEF Turn
<1>5. ASSUME NEW S \in Nat
      PROVE  /\ Asking(S) => Asking(S)'
             /\ Answered(S) => Answered(S)'
             /\ Coming(S) => Coming(S)'
             /\ Unheard => Unheard'
  BY <1>1, <1>3, Zenon DEF Asking, Answered, Coming, Unheard
<1>6. ASSUME NEW S \in Nat PROVE (ResponseBy(S) => ResponseBy(S)') /\ (UnsolicitedBy(S) => UnsolicitedBy(S)')
  BY <1>4, <1>5, Zenon DEF ResponseBy, UnsolicitedBy
<1>7. /\ AwaitsResponse' => AwaitsResponse
      /\ AwaitsUnsolicited' => AwaitsUnsolicited
  BY <1>1, Zenon DEF AwaitsResponse, AwaitsUnsolicited, Calm
<1>8. Due'
  BY <1>1, <1>6, <1>7, DueKept, Zenon DEF VInv
<1>9. Begun' /\ Labelled' /\ LetIn' /\ RightVerdict'
  BY <1>1, <1>3, Zenon DEF VInv, Begun, Labelled, Ours, Earlier, LetIn, RightVerdict
<1> QED
  BY <1>8, <1>9, Zenon DEF VInv

\* Nothing is promised once the rules have been changed or the responder restarted.
LEMMA DisturbedKeeps ==
  ASSUME VInv, DoctorTypeOK', ResponderRestarts \/ \E f \in {"open", "stateful", "closed"} : FirewallSet(f)
  PROVE  VInv'
<1>1. UNCHANGED <<probe, packets, conntrack>> /\ delayed' \subseteq delayed /\ "disturbed" \in events'
  BY Zenon DEF ResponderRestarts, FirewallSet
<1>2. ~Calm'
  BY <1>1, Zenon DEF Calm
<1>3. Due'
  BY <1>2, Zenon DEF Due, ResponseDue, UnsolicitedDue, AwaitsResponse, AwaitsUnsolicited
<1>4. RightVerdict' /\ LetIn'
  BY <1>1, Zenon DEF RightVerdict, LetIn
<1>5. elapsed' = elapsed
  BY <1>1, Zenon DEF elapsed
<1>6. Begun' /\ Labelled'
  BY <1>1, <1>5, Zenon DEF VInv, Begun, Labelled, Ours, Earlier
<1> QED
  BY <1>3, <1>4, <1>6, Zenon DEF VInv

\* The task's packet is on its way within the promised time.
LEMMA SentKeeps ==
  ASSUME VInv, DoctorTypeOK', NEW t \in delayed, UnsolicitedSent(t)
  PROVE  VInv'
<1> DEFINE P == Packet("Unsolicited", t.nonce, t.port, 0, FALSE)
<1>1. UNCHANGED <<probe, firewall, conntrack, helper, seen, events>> /\ packets' = packets \cup {P}
      /\ delayed' = delayed \ {t} /\ t.left = 0
  BY Zenon DEF UnsolicitedSent
<1>2. P.kind = "Unsolicited" /\ P.nonce = t.nonce /\ P.port = t.port /\ P.main = FALSE /\ P.left = Flight
  BY Zenon DEF Packet
<1> HIDE DEF P
<1>3. elapsed' = elapsed
  BY <1>1, Zenon DEF elapsed
<1>4. Labelled'
  <2>1. t.nonce <= probe.nonce /\ (t.nonce = probe.nonce => t.port = probe.s2)
    BY Zenon DEF VInv, Labelled
  <2>2. P.nonce <= probe.nonce /\ Ours(P) /\ Earlier(P)
    BY <1>2, <2>1, Zenon DEF Ours, Earlier
  <2>3. \A p : (Ours(p)' <=> Ours(p)) /\ (Earlier(p)' <=> Earlier(p))
    BY <1>1, <1>3, Zenon DEF Ours, Earlier
  <2> QED
    BY <1>1, <2>2, <2>3, Zenon DEF VInv, Labelled
<1>5. ASSUME NEW S \in Nat PROVE /\ Turn(S)' <=> Turn(S)
                                 /\ Asking(S) => Asking(S)'
                                 /\ Answered(S) => Answered(S)'
                                 /\ Unheard => Unheard'
  BY <1>1, <1>2, <1>3, Zenon DEF Turn, Asking, Answered, Unheard
<1>6. ASSUME NEW S \in Nat, Coming(S) PROVE Coming(S)'
  <2>1. CASE \E u \in delayed :
               /\ u # t /\ u.nonce = probe.nonce
               /\ elapsed + u.left < S + MinRequestInterval + RequestRetryInterval + Flight + UnsolicitedDelay
    BY <1>1, <1>3, <2>1, Zenon DEF Coming
  <2>2. CASE /\ t.nonce = probe.nonce
             /\ elapsed + t.left < S + MinRequestInterval + RequestRetryInterval + Flight + UnsolicitedDelay
    <3>1. elapsed + P.left < S + MinRequestInterval + RequestRetryInterval + 2 * Flight + UnsolicitedDelay
      BY <1>1, <1>2, <2>2, Timings, Quantities DEF VInv
    <3> QED
      BY <1>1, <1>2, <1>3, <2>2, <3>1, Zenon DEF Coming
  <2>3. CASE \E p \in packets :
               /\ p.kind = "Unsolicited" /\ p.nonce = probe.nonce
               /\ elapsed + p.left < S + MinRequestInterval + RequestRetryInterval + 2 * Flight + UnsolicitedDelay
    BY <1>1, <1>3, <2>3, Zenon DEF Coming
  <2> QED
    BY <1>6, <2>1, <2>2, <2>3, Zenon DEF Coming
<1>7. ASSUME NEW S \in Nat PROVE (ResponseBy(S) => ResponseBy(S)') /\ (UnsolicitedBy(S) => UnsolicitedBy(S)')
  BY <1>5, <1>6, Zenon DEF ResponseBy, UnsolicitedBy
<1>8. /\ AwaitsResponse' => AwaitsResponse
      /\ AwaitsUnsolicited' => AwaitsUnsolicited
  BY <1>1, Zenon DEF AwaitsResponse, AwaitsUnsolicited, Calm
<1>9. Due'
  BY <1>1, <1>7, <1>8, DueKept, Zenon DEF VInv
<1>10. Begun' /\ LetIn' /\ RightVerdict'
  BY <1>1, Zenon DEF VInv, Begun, LetIn, RightVerdict
<1> QED
  BY <1>4, <1>9, <1>10, Zenon DEF VInv

\* A tick brings everything on its way nearer by one.
LEMMA TickKeeps ==
  ASSUME VInv, DoctorTypeOK', Tick
  PROVE  VInv'
<1>0. DoctorTypeOK
  BY Zenon DEF VInv
<1>1. UNCHANGED <<firewall, conntrack, helper, events>>
  BY Zenon DEF Tick
<1>2. /\ UNCHANGED <<probe.on, probe.nonce, probe.s1, probe.s2, probe.target, probe.global,
                     probe.solicited, probe.unsolicited, probe.verdict>>
      /\ probe.on => probe.retry > 0 /\ elapsed' = elapsed + 1 /\ probe'.retry = probe.retry - 1
      /\ ~probe.on => elapsed' = elapsed
  <2>1. /\ DOMAIN probe = {"on", "nonce", "s1", "s2", "target", "global", "solicited", "unsolicited",
                           "deadline", "retry", "verdict"}
        /\ probe.deadline \in 0 .. Timeout /\ probe.retry \in 0 .. RequestRetryInterval
    BY <1>0, ProbeFields, Zenon DEF DoctorTypeOK
  <2>2. CASE ~probe.on
    <3>1. probe' = probe
      BY <2>2, Zenon DEF Tick
    <3> QED
      BY <2>2, <3>1, Zenon DEF elapsed
  <2>3. CASE probe.on
    <3>1. probe' = [probe EXCEPT !.retry = probe.retry - 1, !.deadline = probe.deadline - 1]
          /\ probe.retry # 0
      BY <2>3, Zenon DEF Tick
    <3>2. UNCHANGED <<probe.on, probe.nonce, probe.s1, probe.s2, probe.target, probe.global,
                      probe.solicited, probe.unsolicited, probe.verdict>>
      BY <2>1, <3>1, Zenon
    <3>3. probe'.retry = probe.retry - 1 /\ probe'.deadline = probe.deadline - 1
      BY <2>1, <3>1, Zenon
    <3>4. elapsed' = elapsed + 1 /\ probe.retry > 0
      BY <2>1, <3>1, <3>3, Timings DEF elapsed
    <3> QED
      BY <2>3, <3>2, <3>3, <3>4, Zenon
  <2> QED
    BY <2>2, <2>3, Zenon
<1>3. seen'[Me] \in Nat /\ (seen'[Me] >= seen[Me] + 1 \/ seen'[Me] >= MinRequestInterval)
  <2>1. seen[Me] \in 0 .. Absent
        /\ seen'[Me] = IF seen[Me] = Absent THEN Absent ELSE Older(seen[Me], RateEntryTTL)
    BY <1>0, Zenon DEF DoctorTypeOK, Tick, Ips
  <2> QED
    BY <2>1, Constants DEF Older
<1>4. /\ \A q \in packets' : \E p \in packets :
           /\ q.kind = p.kind /\ q.nonce = p.nonce /\ q.port = p.port /\ q.reply_port = p.reply_port
           /\ q.main = p.main /\ q.left = p.left - 1
      /\ \A p \in packets : p.left > 0 /\ \E q \in packets' :
           q.kind = p.kind /\ q.nonce = p.nonce /\ q.left = p.left - 1
  BY <1>0, TickPackets, Zenon
<1>5. /\ \A u \in delayed' : \E t \in delayed : u.nonce = t.nonce /\ u.port = t.port
      /\ \A t \in delayed : \E u \in delayed' : u.nonce = t.nonce /\ u.left = t.left - 1
  BY <1>0, TickTasks, Zenon
<1>6. /\ elapsed \in Nat /\ elapsed' \in Nat /\ elapsed' <= elapsed + 1 /\ seen[Me] \in Nat
      /\ probe.retry \in Nat
      /\ \A p \in packets : p.left \in Nat
      /\ \A t \in delayed : t.left \in Nat
  BY <1>0, <1>2, Quantities
<1>7. Labelled'
  <2>1. ASSUME NEW q \in packets' PROVE q.nonce <= probe'.nonce /\ Ours(q)' /\ Earlier(q)'
    <3>1. PICK p \in packets :
            /\ q.kind = p.kind /\ q.nonce = p.nonce /\ q.port = p.port /\ q.reply_port = p.reply_port
            /\ q.main = p.main /\ q.left = p.left - 1
      BY <1>4, Zenon
    <3>2. p.nonce <= probe.nonce /\ Ours(p) /\ Earlier(p)
      BY Zenon DEF VInv, Labelled
    <3>3. q.nonce <= probe'.nonce /\ Ours(q)'
      BY <1>1, <1>2, <3>1, <3>2, Zenon DEF Ours
    <3>4. p.left \in Nat /\ elapsed' + q.left <= elapsed + p.left
      BY <1>6, <3>1
    <3>5. elapsed + p.left <= Flight => elapsed' + q.left <= Flight
      BY <1>6, <3>1, <3>4, Timings
    <3>6. Earlier(q)'
      BY <1>2, <3>1, <3>2, <3>5, Zenon DEF Earlier
    <3> QED
      BY <3>3, <3>6, Zenon
  <2>2. ASSUME NEW u \in delayed' PROVE u.nonce <= probe'.nonce /\ (u.nonce = probe'.nonce => u.port = probe'.s2)
    BY <1>2, <1>5 DEF VInv, Labelled
  <2> QED
    BY <1>2, <2>1, <2>2, Zenon DEF VInv, Labelled
<1>8. ASSUME NEW S \in Nat, probe.on
      PROVE  /\ Turn(S) => Turn(S)'
             /\ Asking(S) => Asking(S)'
             /\ Answered(S) => Answered(S)'
             /\ Coming(S) => Coming(S)'
             /\ Unheard => Unheard'
  <2>1. elapsed' = elapsed + 1 /\ probe'.retry = probe.retry - 1 /\ probe'.nonce = probe.nonce
    BY <1>2, <1>8, Zenon
  <2>2. Turn(S) => Turn(S)'
    BY <1>3, <1>6, <2>1, Timings DEF Turn
  <2>3. \A p \in packets, B \in Nat : elapsed + p.left < B =>
          \E q \in packets' : q.kind = p.kind /\ q.nonce = p.nonce /\ elapsed' + q.left < B
    BY <1>4, <1>6, <2>1
  <2>4. Asking(S) => Asking(S)'
    <3>1. elapsed' + probe'.retry = elapsed + probe.retry
      BY <1>6, <2>1
    <3>2. S + MinRequestInterval + RequestRetryInterval + Flight \in Nat
      BY Timings
    <3> QED
      BY <2>1, <2>3, <3>1, <3>2 DEF Asking
  <2>5. Answered(S) => Answered(S)'
    <3>1. S + MinRequestInterval + RequestRetryInterval + 2 * Flight \in Nat
      BY Timings
    <3> QED
      BY <2>1, <2>3, <3>1, Zenon DEF Answered
  <2>6. Coming(S) => Coming(S)'
    <3>1. S + MinRequestInterval + RequestRetryInterval + 2 * Flight + UnsolicitedDelay \in Nat
      BY Timings
    <3>2. ASSUME NEW t \in delayed, NEW B \in Nat, elapsed + t.left < B
          PROVE  \E u \in delayed' : u.nonce = t.nonce /\ elapsed' + u.left < B
      <4>1. PICK u \in delayed' : u.nonce = t.nonce /\ u.left = t.left - 1
        BY <1>5, Zenon
      <4>2. t.left \in Nat /\ elapsed \in Nat /\ elapsed' = elapsed + 1
        BY <1>6, <2>1, Zenon
      <4>3. elapsed' + u.left < B
        BY <3>2, <4>1, <4>2
      <4> QED
        BY <4>1, <4>3, Zenon
    <3>3. S + MinRequestInterval + RequestRetryInterval + Flight + UnsolicitedDelay \in Nat
      BY Timings
    <3> QED
      BY <2>1, <2>3, <3>1, <3>2, <3>3 DEF Coming
  <2>7. Unheard => Unheard'
    BY <1>2, <1>4 DEF Unheard
  <2> QED
    BY <2>2, <2>4, <2>5, <2>6, <2>7, Zenon
<1>9. /\ AwaitsResponse' => AwaitsResponse /\ probe.on
      /\ AwaitsUnsolicited' => AwaitsUnsolicited /\ probe.on
  BY <1>1, <1>2, Zenon DEF AwaitsResponse, AwaitsUnsolicited, Calm
<1>10. ASSUME NEW S \in Nat, probe.on
       PROVE  (ResponseBy(S) => ResponseBy(S)') /\ (UnsolicitedBy(S) => UnsolicitedBy(S)')
  BY <1>8, <1>10, Zenon DEF ResponseBy, UnsolicitedBy
<1>11. Due'
  BY <1>1, <1>9, <1>10, DueKept, Zenon DEF VInv
<1>12. Begun' /\ LetIn' /\ RightVerdict'
  <2>1. Begun' /\ LetIn'
    BY <1>1, <1>2, Zenon DEF VInv, Begun, LetIn
  <2>2. RightVerdict'
    BY <1>1, <1>2, Zenon DEF VInv, RightVerdict
  <2> QED
    BY <2>1, <2>2, Zenon
<1> QED
  BY <1>7, <1>11, <1>12, Zenon DEF VInv

\* A probe begins with everything before it.
LEMMA StartKeeps ==
  ASSUME VInv, DoctorTypeOK', NEW s1 \in Ports, NEW global \in BOOLEAN, NEW args \in Args, Start(s1, global, args)
  PROVE  VInv'
<1>0. DoctorTypeOK /\ Labelled
  BY Zenon DEF VInv
<1>1. /\ UNCHANGED <<packets, delayed, seen>> /\ Late' = FALSE
      /\ probe' = Bound(probe.nonce + 1, s1, resolve_target(args), global)
      /\ events' \subseteq {"open"}
  BY DEF Start, Late
<1>2. /\ probe'.on = TRUE /\ probe'.nonce = probe.nonce + 1 /\ probe'.solicited = FALSE
      /\ probe'.unsolicited = FALSE /\ probe'.deadline = Timeout /\ probe'.retry = 0
  BY <1>1, Zenon DEF Bound
<1>3. probe'.s1 # probe'.s2
  BY <1>1 DEF Bound, Ports
<1>4. elapsed' = 0
  BY <1>2, Timings DEF elapsed
<1>5. /\ probe.nonce \in Nat
      /\ \A p \in packets : p.nonce \in Nat /\ p.nonce <= probe.nonce /\ p.left \in Nat /\ p.left <= Flight
      /\ \A t \in delayed : t.nonce \in Nat /\ t.nonce <= probe.nonce
  BY <1>0, Quantities, Zenon DEF Labelled
<1>6. /\ \A p \in packets' : p.nonce # probe'.nonce /\ p.nonce <= probe'.nonce /\ elapsed' + p.left <= Flight
      /\ \A t \in delayed' : t.nonce # probe'.nonce /\ t.nonce <= probe'.nonce
  BY <1>1, <1>2, <1>4, <1>5
<1>7. Labelled'
  BY <1>3, <1>6, Zenon DEF Labelled, Ours, Earlier
<1>8. LetIn' /\ RightVerdict'
  BY <1>2, Zenon DEF LetIn, RightVerdict
<1>9. Begun'
  BY <1>2, <1>5 DEF Begun
<1>10. Turn(Flight)' /\ Asking(Flight)' /\ Unheard'
  <2>1. Turn(Flight)'
    BY <1>0, <1>1, <1>4, Quantities, Timings DEF Turn
  <2>2. Asking(Flight)'
    BY <1>2, <1>4, Timings DEF Asking
  <2>3. Unheard'
    BY <1>2, <1>6, Zenon DEF Unheard
  <2> QED
    BY <2>1, <2>2, <2>3, Zenon
<1>11. Due'
  BY <1>1, <1>10, Zenon DEF Due, ResponseDue, UnsolicitedDue, ResponseBy, UnsolicitedBy
<1> QED
  BY <1>7, <1>8, <1>9, <1>11, Zenon DEF VInv

\* A Request goes out when the retry timer ends.
LEMMA RetryKeeps ==
  ASSUME VInv, DoctorTypeOK', RetryTick
  PROVE  VInv'
<1>a. PICK P : P = Packet("Request", probe.nonce, probe.s1, probe.s2, TRUE)
  BY Zenon
<1>0. DoctorTypeOK /\ Labelled
  BY Zenon DEF VInv
<1>1. UNCHANGED <<firewall, helper, seen, delayed, events>> /\ probe.retry = 0
      /\ (UNCHANGED <<packets, conntrack>> \/ (packets' = packets \cup {P} /\ conntrack' = conntrack \cup {probe.s1}))
      /\ (~probe.solicited /\ probe.target = "here" => packets' = packets \cup {P})
  BY <1>a, Zenon DEF RetryTick
<1>2. P.kind = "Request" /\ P.nonce = probe.nonce /\ P.port = probe.s1 /\ P.reply_port = probe.s2
      /\ P.main = TRUE /\ P.left = Flight
  BY <1>a, Zenon DEF Packet
<1>3. UNCHANGED <<probe.on, probe.nonce, probe.s1, probe.s2, probe.target, probe.global, probe.deadline,
                  probe.solicited, probe.unsolicited, probe.verdict>>
  <2>1. DOMAIN probe = {"on", "nonce", "s1", "s2", "target", "global", "solicited", "unsolicited",
                        "deadline", "retry", "verdict"}
    BY <1>0, ProbeFields, Zenon DEF DoctorTypeOK
  <2> QED
    BY <2>1, Zenon DEF RetryTick
<1>4. elapsed' = elapsed /\ elapsed \in Nat /\ probe.nonce \in Nat
  BY <1>0, <1>3, Quantities, Zenon DEF elapsed
<1>5. Labelled'
  <2>1. ASSUME NEW p \in packets PROVE p.nonce <= probe'.nonce /\ Ours(p)' /\ Earlier(p)'
    BY <1>0, <1>1, <1>3, <1>4, Zenon DEF Labelled, Ours, Earlier
  <2>2. packets' # packets => P.nonce <= probe'.nonce /\ Ours(P)' /\ Earlier(P)'
    BY <1>1, <1>2, <1>3, <1>4 DEF Ours, Earlier
  <2> QED
    BY <1>0, <1>1, <1>3, <2>1, <2>2, Zenon DEF Labelled
<1>6. ASSUME NEW S \in Nat, ~probe.solicited, probe.target = "here" PROVE Asking(S) => Asking(S)'
  <2>1. elapsed + probe.retry < S + MinRequestInterval + RequestRetryInterval =>
          elapsed + P.left < S + MinRequestInterval + RequestRetryInterval + Flight
    BY <1>1, <1>2, <1>4, Timings
  <2>2. packets' = packets \cup {P}
    BY <1>1, <1>6, Zenon
  <2> QED
    BY <1>2, <1>3, <1>4, <2>1, <2>2, Zenon DEF Asking
<1>7. ASSUME NEW S \in Nat
      PROVE  /\ Turn(S) => Turn(S)'
             /\ Answered(S) => Answered(S)'
             /\ Coming(S) => Coming(S)'
             /\ Unheard => Unheard' /\ ~probe.solicited
  BY <1>1, <1>2, <1>3, <1>4, Zenon DEF Turn, Answered, Coming, Unheard
<1>8. /\ AwaitsResponse' => AwaitsResponse /\ ~probe.solicited /\ probe.target = "here"
      /\ AwaitsUnsolicited' => AwaitsUnsolicited /\ probe.target = "here"
  BY <1>1, <1>3, Zenon DEF AwaitsResponse, AwaitsUnsolicited, Calm
<1>9. ASSUME NEW S \in Nat
      PROVE  /\ AwaitsResponse' /\ ResponseBy(S) => ResponseBy(S)'
             /\ AwaitsUnsolicited' /\ UnsolicitedBy(S) => UnsolicitedBy(S)'
  BY <1>6, <1>7, <1>8, Zenon DEF ResponseBy, UnsolicitedBy
<1>10. Due'
  BY <1>1, <1>8, <1>9, DueKept, Zenon DEF VInv
<1>11. Begun' /\ LetIn' /\ RightVerdict'
  <2>1. Begun' /\ LetIn'
    BY <1>1, <1>3, Zenon DEF VInv, Begun, LetIn
  <2>2. RightVerdict'
    BY <1>1, <1>3, Zenon DEF VInv, RightVerdict
  <2> QED
    BY <2>1, <2>2, Zenon
<1> QED
  BY <1>5, <1>10, <1>11, Zenon DEF VInv

\* What a delivered packet does to the probe.
LEMMA Arrival ==
  ASSUME DoctorTypeOK, NEW p \in packets, Deliver(p)
  PROVE  /\ UNCHANGED <<probe.nonce, probe.s1, probe.s2, probe.target, probe.global, probe.deadline, probe.retry>>
         /\ probe'.on => probe.on
         /\ probe.solicited => probe'.solicited
         /\ probe.unsolicited => probe'.unsolicited
         /\ probe'.solicited => \/ probe.solicited
                                \/ Admits(p) /\ p.kind = "Response" /\ p.nonce = probe.nonce
         /\ probe'.unsolicited => \/ probe.unsolicited
                                  \/ Admits(p) /\ p.kind = "Unsolicited" /\ p.nonce = probe.nonce
         /\ probe.on /\ Admits(p) /\ p.nonce = probe.nonce =>
              /\ p.kind = "Response" /\ p.port = probe.s1 => probe'.solicited
              /\ p.kind = "Unsolicited" /\ p.port = probe.s2 => probe'.unsolicited
         /\ probe' = probe \/ probe'.on \/ (probe'.unsolicited /\ (probe'.global => probe'.verdict = "open"))
<1>1. DOMAIN probe = {"on", "nonce", "s1", "s2", "target", "global", "solicited", "unsolicited",
                      "deadline", "retry", "verdict"}
  BY ProbeFields, Zenon DEF DoctorTypeOK
<1>2. CASE ~(probe.on /\ Admits(p))
  <2>1. probe' = probe
    BY <1>2, Zenon DEF Deliver
  <2> QED
    BY <1>2, <2>1, Zenon
<1>3. CASE probe.on /\ Admits(p)
  <2>1. PICK got :
          /\ got = CASE p.port = probe.s1 /\ p.kind = "Response" /\ p.nonce = probe.nonce ->
                          [probe EXCEPT !.solicited = TRUE]
                     [] p.port = probe.s2 /\ p.kind = "Unsolicited" /\ p.nonce = probe.nonce ->
                          [probe EXCEPT !.unsolicited = TRUE]
                     [] OTHER -> probe
          /\ probe' = IF got.solicited /\ got.unsolicited THEN Concluded(got) ELSE got
    BY <1>3, Zenon DEF Deliver, Received
  <2> DEFINE Asked == p.port = probe.s1 /\ p.kind = "Response" /\ p.nonce = probe.nonce
             Unsought == p.port = probe.s2 /\ p.kind = "Unsolicited" /\ p.nonce = probe.nonce
  <2>2. /\ got.on = probe.on /\ got.nonce = probe.nonce /\ got.s1 = probe.s1 /\ got.s2 = probe.s2
        /\ got.target = probe.target /\ got.global = probe.global /\ got.deadline = probe.deadline
        /\ got.retry = probe.retry /\ DOMAIN got = DOMAIN probe
        /\ Asked => got.solicited = TRUE /\ got.unsolicited = probe.unsolicited
        /\ Unsought => got.unsolicited = TRUE /\ got.solicited = probe.solicited
        /\ ~Asked /\ ~Unsought => got = probe
    <3>1. CASE Asked
      <4>1. got = [probe EXCEPT !.solicited = TRUE]
        BY <2>1, <3>1, Zenon
      <4> QED
        BY <1>1, <3>1, <4>1, Zenon
    <3>2. CASE Unsought
      <4>1. got = [probe EXCEPT !.unsolicited = TRUE]
        BY <2>1, <3>2, Zenon
      <4> QED
        BY <1>1, <3>2, <4>1, Zenon
    <3>3. CASE ~Asked /\ ~Unsought
      <4>1. got = probe
        BY <2>1, <3>3, Zenon
      <4> QED
        BY <3>3, <4>1, Zenon
    <3> QED
      BY <3>1, <3>2, <3>3, Zenon
  <2>3. CASE ~(got.solicited /\ got.unsolicited)
    <3>1. probe' = got
      BY <2>1, <2>3, Zenon
    <3> QED
      BY <1>3, <2>2, <3>1, Zenon
  <2>4. CASE got.solicited /\ got.unsolicited
    <3>1. probe' = [got EXCEPT !.on = FALSE, !.verdict = classify(got)]
      BY <2>1, <2>4, Zenon DEF Concluded
    <3>2. /\ probe'.nonce = got.nonce /\ probe'.s1 = got.s1 /\ probe'.s2 = got.s2
          /\ probe'.target = got.target /\ probe'.global = got.global /\ probe'.deadline = got.deadline
          /\ probe'.retry = got.retry /\ probe'.solicited = got.solicited
          /\ probe'.unsolicited = got.unsolicited /\ probe'.verdict = classify(got) /\ probe'.on = FALSE
      BY <1>1, <2>2, <3>1, Zenon
    <3>3. got.global => classify(got) = "open"
      BY <2>4, Zenon DEF classify
    <3> QED
      BY <1>3, <2>2, <2>4, <3>2, <3>3, Zenon
  <2> QED
    BY <2>3, <2>4, Zenon
<1> QED
  BY <1>2, <1>3, Zenon

\* What arrives in time ends its wait.
LEMMA DeliverKeepsDue ==
  ASSUME VInv, DoctorTypeOK', NEW p \in packets, Deliver(p)
  PROVE  VInv'
<1>0. DoctorTypeOK /\ Labelled /\ LetIn /\ Ours(p)
  BY Zenon DEF VInv, Labelled
<1>1. /\ UNCHANGED <<firewall, conntrack, helper, seen, delayed, events>>
      /\ packets' = packets \ {p} /\ p.kind # "Request"
  BY Zenon DEF Deliver
<1>2. UNCHANGED <<probe.nonce, probe.s1, probe.s2, probe.target, probe.global, probe.deadline, probe.retry>>
  BY <1>0, Arrival, Zenon
<1>3. elapsed' = elapsed
  BY <1>2, Zenon DEF elapsed
<1>4. Labelled'
  BY <1>0, <1>1, <1>2, <1>3, Zenon DEF Labelled, Ours, Earlier
<1>5. LetIn'
  <2>1. Admits(p) => firewall # "closed"
    BY Zenon DEF Admits
  <2>2. Admits(p) /\ p.kind = "Unsolicited" /\ p.nonce = probe.nonce => firewall = "open"
    BY <1>0, Zenon DEF Admits, Ours
  <2> QED
    BY <1>0, <1>1, <2>1, <2>2, Arrival, Zenon DEF LetIn
<1>6. RightVerdict'
  <2>1. probe' = probe \/ probe'.on \/ (probe'.unsolicited /\ (probe'.global => probe'.verdict = "open"))
    BY <1>0, Arrival, Zenon
  <2>2. events' \subseteq {"lost", "open"} => "disturbed" \notin events'
    BY Zenon
  <2>3. [open |-> "open", stateful |-> "stateful", closed |-> "blocked"].open = "open"
    BY Zenon
  <2>4. CASE probe' = probe
    BY <1>1, <2>4, Zenon DEF VInv, RightVerdict
  <2>5. CASE probe'.on
    BY <2>5, Zenon DEF RightVerdict
  <2>6. CASE probe'.unsolicited /\ (probe'.global => probe'.verdict = "open")
    BY <1>5, <2>2, <2>3, <2>6, Zenon DEF LetIn, RightVerdict
  <2> QED
    BY <2>1, <2>4, <2>5, <2>6, Zenon
<1>a. Begun'
  BY <1>0, <1>2, Arrival, Zenon DEF VInv, Begun
<1>7. /\ AwaitsResponse' => AwaitsResponse
      /\ AwaitsUnsolicited' => AwaitsUnsolicited
  BY <1>0, <1>1, <1>2, Arrival, Zenon DEF AwaitsResponse, AwaitsUnsolicited, Calm
<1>8. AwaitsResponse' => ~(p.kind = "Response" /\ p.nonce = probe.nonce)
  <2>1. SUFFICES ASSUME AwaitsResponse', p.kind = "Response", p.nonce = probe.nonce PROVE FALSE
    BY Zenon
  <2>2. p.port = probe.s1 /\ p.main = TRUE /\ probe.s1 \in conntrack
    BY <1>0, <2>1, Zenon DEF Ours
  <2>3. firewall # "closed" /\ firewall \in {"open", "stateful", "closed"} /\ probe.on
    BY <1>0, <1>7, <2>1, Zenon DEF AwaitsResponse, DoctorTypeOK
  <2>4. Admits(p)
    BY <2>2, <2>3, Zenon DEF Admits
  <2>5. probe'.solicited
    BY <1>0, <2>1, <2>2, <2>3, <2>4, Arrival, Zenon
  <2> QED
    BY <2>1, <2>5, Zenon DEF AwaitsResponse
<1>9. AwaitsUnsolicited' => ~(p.kind = "Unsolicited" /\ p.nonce = probe.nonce)
  <2>1. SUFFICES ASSUME AwaitsUnsolicited', p.kind = "Unsolicited", p.nonce = probe.nonce PROVE FALSE
    BY Zenon
  <2>2. p.port = probe.s2
    BY <1>0, <2>1, Zenon DEF Ours
  <2>3. Admits(p) /\ probe.on
    BY <1>7, <2>1, Zenon DEF AwaitsUnsolicited, Admits
  <2>4. probe'.unsolicited
    BY <1>0, <2>1, <2>2, <2>3, Arrival, Zenon
  <2> QED
    BY <2>1, <2>4, Zenon DEF AwaitsUnsolicited
<1>10. ASSUME NEW S \in Nat
       PROVE  /\ Turn(S) => Turn(S)'
              /\ Asking(S) => Asking(S)'
  BY <1>1, <1>2, <1>3, Zenon DEF Turn, Asking
<1>11. ASSUME NEW S \in Nat
       PROVE  /\ AwaitsResponse' /\ Answered(S) => Answered(S)'
              /\ AwaitsUnsolicited' /\ Coming(S) => Coming(S)'
  BY <1>1, <1>2, <1>3, <1>8, <1>9, Zenon DEF Answered, Coming
<1>12. Unheard => Unheard'
  <2>1. Unheard => ~probe'.solicited
    BY <1>0, Arrival, Zenon DEF Unheard
  <2> QED
    BY <1>1, <1>2, <2>1, Zenon DEF Unheard
<1>13. ASSUME NEW S \in Nat
       PROVE  /\ AwaitsResponse' /\ ResponseBy(S) => ResponseBy(S)'
              /\ AwaitsUnsolicited' /\ UnsolicitedBy(S) => UnsolicitedBy(S)'
  BY <1>10, <1>11, <1>12, Zenon DEF ResponseBy, UnsolicitedBy
<1>14. Due'
  BY <1>1, <1>7, <1>13, DueKept, Zenon DEF VInv
<1> QED
  BY <1>4, <1>5, <1>6, <1>14, <1>a, Zenon DEF VInv

\* The responder serves the node when its turn has come, and the retries see to it.
LEMMA ServeKeeps ==
  ASSUME VInv, DoctorTypeOK', NEW p \in packets, Serve(p)
  PROVE  VInv'
<1>0. DoctorTypeOK /\ Labelled /\ Ours(p) /\ Earlier(p) /\ p.nonce <= probe.nonce
  BY Zenon DEF VInv, Labelled
<1>1. /\ UNCHANGED <<probe, firewall, conntrack, helper, events>> /\ p.kind = "Request"
      /\ ~decodes => packets' = packets \ {p} /\ delayed' = delayed
  BY Zenon DEF Serve
<1>2. elapsed' = elapsed
  BY <1>1, Zenon DEF elapsed
<1>3. Begun' /\ LetIn' /\ RightVerdict'
  BY <1>1, Zenon DEF VInv, Begun, LetIn, RightVerdict
<1>4. /\ AwaitsResponse' => AwaitsResponse /\ decodes
      /\ AwaitsUnsolicited' => AwaitsUnsolicited /\ decodes
  BY <1>1, Zenon DEF AwaitsResponse, AwaitsUnsolicited, Calm, decodes
<1>5. \A q : (Ours(q)' <=> Ours(q)) /\ (Earlier(q)' <=> Earlier(q))
  BY <1>1, <1>2, Zenon DEF Ours, Earlier
<1>6. /\ elapsed \in Nat /\ probe.retry \in Nat /\ probe.retry <= RequestRetryInterval /\ seen[Me] \in Nat
      /\ \A q \in packets : q.left \in Nat
      /\ p.left \in Nat
  BY <1>0, Quantities, Zenon
<1>7. CASE ~decodes
  <2>1. Due'
    BY <1>4, <1>7, Zenon DEF Due, ResponseDue, UnsolicitedDue
  <2>2. Labelled'
    BY <1>0, <1>1, <1>5, <1>7, Zenon DEF Labelled
  <2> QED
    BY <1>3, <2>1, <2>2, Zenon DEF VInv
<1>8. CASE decodes /\ ~Allowed(Me)
  <2>1. UNCHANGED <<seen, delayed>> /\ packets' = packets \ {p}
    BY <1>8, Zenon DEF Serve, allow
  <2>2. Labelled'
    BY <1>0, <1>1, <1>5, <2>1, Zenon DEF Labelled
  <2>3. ASSUME NEW S \in Nat
        PROVE  /\ Turn(S) => Turn(S)' /\ Asking(S)'
               /\ Answered(S) => Answered(S)'
               /\ Coming(S) => Coming(S)'
               /\ Unheard => Unheard'
    <3>1. Turn(S) => Turn(S)'
      BY <1>2, <2>1, Zenon DEF Turn
    <3>2. Turn(S) => elapsed + probe.retry < S + MinRequestInterval + RequestRetryInterval
      BY <1>6, <1>8, Timings DEF Turn, Allowed
    <3>3. Turn(S) => Asking(S)'
      BY <1>1, <1>2, <3>2, Zenon DEF Asking
    <3>4. /\ Answered(S) => Answered(S)'
          /\ Coming(S) => Coming(S)'
          /\ Unheard => Unheard'
      BY <1>1, <1>2, <2>1, Zenon DEF Answered, Coming, Unheard
    <3> QED
      BY <3>1, <3>3, <3>4, Zenon
  <2>4. ASSUME NEW S \in Nat PROVE (ResponseBy(S) => ResponseBy(S)') /\ (UnsolicitedBy(S) => UnsolicitedBy(S)')
    BY <2>3, Zenon DEF ResponseBy, UnsolicitedBy
  <2>5. Due'
    BY <1>1, <1>4, <2>4, DueKept, Zenon DEF VInv
  <2> QED
    BY <1>3, <2>2, <2>5, Zenon DEF VInv
<1>9. CASE decodes /\ Allowed(Me)
  <2>1. PICK P, T : /\ P = Packet("Response", p.nonce, p.port, 0, TRUE)
                    /\ T = [nonce |-> p.nonce, port |-> p.reply_port, left |-> UnsolicitedDelay]
    BY Zenon
  <2>2. /\ packets' = (packets \ {p}) \cup {P}
        /\ delayed' = delayed \cup IF p.reply_port # 0 THEN {T} ELSE {}
    BY <1>9, <2>1, Zenon DEF Serve
  <2>3. seen'[Me] = 0
    <3>1. seen' = [Room(seen) EXCEPT ![Me] = 0]
      BY <1>9, Zenon DEF Serve, allow
    <3>2. Me \in DOMAIN Room(seen)
      <4>1. seen \in [Ips -> 0 .. Absent] /\ Me \in Ips
        BY <1>0, Zenon DEF DoctorTypeOK, Ips
      <4> QED
        BY <4>1, Zenon DEF Room
    <3> QED
      BY <3>1, <3>2, Zenon
  <2>4. /\ P.kind = "Response" /\ P.nonce = p.nonce /\ P.port = p.port /\ P.main = TRUE /\ P.left = Flight
        /\ T.nonce = p.nonce /\ T.port = p.reply_port /\ T.left = UnsolicitedDelay
    BY <2>1, Zenon DEF Packet
  <2>5. Labelled'
    <3>1. P.nonce <= probe.nonce /\ Ours(P) /\ Earlier(P)
      BY <1>0, <1>1, <2>4, Zenon DEF Ours, Earlier
    <3>2. T.nonce <= probe.nonce /\ (T.nonce = probe.nonce => T.port = probe.s2)
      BY <1>0, <1>1, <2>4, Zenon DEF Ours
    <3> QED
      BY <1>0, <1>1, <1>5, <2>2, <3>1, <3>2, Zenon DEF Labelled
  <2>6. ASSUME NEW S \in Nat
        PROVE  /\ Answered(S) => Answered(S)'
               /\ Coming(S) => Coming(S)'
    BY <1>1, <1>2, <2>2, Zenon DEF Answered, Coming
  <2>7. CASE p.nonce = probe.nonce
    <3>1. ASSUME NEW S \in Nat, Asking(S) PROVE elapsed < S + MinRequestInterval + RequestRetryInterval + Flight
      BY <1>6, <3>1, Timings DEF Asking
    <3>2. ASSUME NEW S \in Nat PROVE Asking(S) => Answered(S)'
      <4>1. Asking(S) => elapsed + P.left < S + MinRequestInterval + RequestRetryInterval + 2 * Flight
        BY <1>6, <2>4, <3>1, Timings
      <4> QED
        BY <1>1, <1>2, <2>2, <2>4, <2>7, <4>1, Zenon DEF Answered
    <3>3. ASSUME NEW S \in Nat PROVE Asking(S) => Coming(S)'
      <4>1. Asking(S) =>
              elapsed + T.left < S + MinRequestInterval + RequestRetryInterval + Flight + UnsolicitedDelay
        BY <1>6, <2>4, <3>1, Timings
      <4>2. p.reply_port # 0
        <5>1. p.reply_port = probe.s2 /\ probe.s2 \in Ports
          BY <1>0, <1>1, <2>7, ProbeFields, Zenon DEF Ours, DoctorTypeOK
        <5> QED
          BY <5>1 DEF Ports
      <4> QED
        BY <1>1, <1>2, <2>2, <2>4, <2>7, <4>1, <4>2, Zenon DEF Coming
    <3>4. ASSUME NEW S \in Nat PROVE (ResponseBy(S) => ResponseBy(S)') /\ (UnsolicitedBy(S) => UnsolicitedBy(S)')
      BY <2>6, <3>2, <3>3, Zenon DEF ResponseBy, UnsolicitedBy
    <3>5. Due'
      BY <1>1, <1>4, <3>4, DueKept, Zenon DEF VInv
    <3> QED
      BY <1>3, <2>5, <3>5, Zenon DEF VInv
  <2>8. CASE p.nonce # probe.nonce
    <3>1. ASSUME NEW S \in Nat, Flight <= S PROVE Turn(S)'
      <4>1. elapsed + p.left <= Flight
        BY <1>0, <1>1, <2>8, Zenon DEF Earlier
      <4> QED
        BY <1>2, <1>6, <2>3, <3>1, <4>1, Timings DEF Turn
    <3>2. ASSUME NEW S \in Nat PROVE Asking(S) => Asking(S)'
      BY <1>1, <1>2, <2>2, <2>8, Zenon DEF Asking
    <3>3. Unheard => Unheard'
      BY <1>1, <2>2, <2>4, <2>8, Zenon DEF Unheard
    <3>4. ASSUME NEW S \in Nat, Flight <= S
          PROVE  (ResponseBy(S) => ResponseBy(S)') /\ (UnsolicitedBy(S) => UnsolicitedBy(S)')
      BY <2>6, <3>1, <3>2, <3>3, <3>4, Zenon DEF ResponseBy, UnsolicitedBy
    <3>5. Due'
      BY <1>1, <1>4, <3>4, DueKept, Zenon DEF VInv
    <3> QED
      BY <1>3, <2>5, <3>5, Zenon DEF VInv
  <2> QED
    BY <2>7, <2>8, Zenon
<1> QED
  BY <1>7, <1>8, <1>9, Zenon

\* One lost Request or Response is made good.
LEMMA LoseKeeps ==
  ASSUME VInv, DoctorTypeOK', NEW p \in packets, Lose(p)
  PROVE  VInv'
<1>0. DoctorTypeOK /\ Labelled
  BY Zenon DEF VInv
<1>1. /\ UNCHANGED <<probe, firewall, conntrack, helper, seen, delayed>> /\ packets' = packets \ {p}
      /\ events \subseteq events'
  BY Zenon DEF Lose
<1>2. elapsed' = elapsed
  BY <1>1, Zenon DEF elapsed
<1>3. Labelled' /\ Begun'
  BY <1>0, <1>1, <1>2, Zenon DEF VInv, Begun, Labelled, Ours, Earlier
<1>4. LetIn' /\ RightVerdict'
  BY <1>1, Zenon DEF VInv, LetIn, RightVerdict
<1>5. /\ AwaitsResponse' => AwaitsResponse /\ Calm'
      /\ AwaitsUnsolicited' => AwaitsUnsolicited /\ Calm'
  BY <1>1, Zenon DEF AwaitsResponse, AwaitsUnsolicited, Calm
<1>6. /\ elapsed \in Nat /\ probe.retry \in Nat /\ probe.retry <= RequestRetryInterval /\ seen[Me] \in Nat
      /\ \A q \in packets : q.left \in Nat
  BY <1>0, Quantities, Zenon
<1>7. CASE p.nonce # probe.nonce
  <2>1. ASSUME NEW S \in Nat PROVE /\ Turn(S) => Turn(S)'
                                   /\ Asking(S) => Asking(S)'
                                   /\ Answered(S) => Answered(S)'
                                   /\ Coming(S) => Coming(S)'
                                   /\ Unheard => Unheard'
    BY <1>1, <1>2, <1>7, Zenon DEF Turn, Asking, Answered, Coming, Unheard
  <2>2. ASSUME NEW S \in Nat PROVE (ResponseBy(S) => ResponseBy(S)') /\ (UnsolicitedBy(S) => UnsolicitedBy(S)')
    BY <2>1, Zenon DEF ResponseBy, UnsolicitedBy
  <2>3. events' = events
    BY <1>7, Zenon DEF Lose
  <2> QED
    BY <1>3, <1>4, <1>5, <2>2, <2>3, DueKept, Zenon DEF VInv
<1>8. CASE p.nonce = probe.nonce
  <2>1. Calm' => ~Late /\ Late' /\ p.kind # "Unsolicited"
    <3>1. events' = events \cup Lost(p)
      BY <1>8, Zenon DEF Lose
    <3> QED
      BY <3>1, Zenon DEF Calm, Late, Lost
  <2> DEFINE S1 == 3 * Flight + MinRequestInterval + RequestRetryInterval
             S2 == 2 * Flight + RequestRetryInterval
  <2>2. ASSUME p.kind # "Unsolicited"
        PROVE  /\ Turn(Flight) => Turn(S1)' /\ Turn(S2)'
               /\ Asking(Flight) => Asking(S1)' /\ Asking(S2)'
               /\ Coming(Flight) => Coming(S2)'
               /\ Unheard => Unheard'
    <3>1. Turn(Flight) => Turn(S1)' /\ Turn(S2)'
      BY <1>1, <1>2, <1>6, Timings DEF Turn
    <3>2. /\ Flight <= S1 /\ Flight <= S2 /\ S1 \in Nat /\ S2 \in Nat
          /\ Flight + Flight + RequestRetryInterval <= S1 /\ Flight + Flight + RequestRetryInterval <= S2
      BY Timings
    <3> HIDE DEF S1, S2
    <3>3. ASSUME elapsed + probe.retry < Flight + MinRequestInterval + RequestRetryInterval
          PROVE  Asking(S1)' /\ Asking(S2)'
      <4>1. /\ elapsed + probe.retry < S1 + MinRequestInterval + RequestRetryInterval
            /\ elapsed + probe.retry < S2 + MinRequestInterval + RequestRetryInterval
        BY <1>6, <3>2, <3>3, Timings
      <4> QED
        BY <1>1, <1>2, <4>1, Zenon DEF Asking
    <3>4. ASSUME NEW q \in packets, q.kind = "Request", q.nonce = probe.nonce,
                 elapsed + q.left < Flight + MinRequestInterval + RequestRetryInterval + Flight
          PROVE  Asking(S1)' /\ Asking(S2)'
      <4>1. /\ elapsed + probe.retry < S1 + MinRequestInterval + RequestRetryInterval
            /\ elapsed + probe.retry < S2 + MinRequestInterval + RequestRetryInterval
        BY <1>6, <3>2, <3>4, Timings
      <4> QED
        BY <1>1, <1>2, <4>1, Zenon DEF Asking
    <3>5. Asking(Flight) => Asking(S1)' /\ Asking(S2)'
      BY <3>3, <3>4, Zenon DEF Asking
    <3>6. Coming(Flight) => Coming(S2)'
      <4>1. ASSUME NEW t \in delayed, t.nonce = probe.nonce,
                   elapsed + t.left < Flight + MinRequestInterval + RequestRetryInterval + Flight + UnsolicitedDelay
            PROVE  Coming(S2)'
        <5>1. t.left \in Nat
          BY <1>0, Quantities, Zenon
        <5>2. elapsed + t.left < S2 + MinRequestInterval + RequestRetryInterval + Flight + UnsolicitedDelay
          BY <1>6, <3>2, <4>1, <5>1, Timings
        <5> QED
          BY <1>1, <1>2, <4>1, <5>2, Zenon DEF Coming
      <4>2. ASSUME NEW q \in packets, q.kind = "Unsolicited", q.nonce = probe.nonce,
                   elapsed + q.left <
                     Flight + MinRequestInterval + RequestRetryInterval + 2 * Flight + UnsolicitedDelay
            PROVE  Coming(S2)'
        <5>1. elapsed + q.left < S2 + MinRequestInterval + RequestRetryInterval + 2 * Flight + UnsolicitedDelay
          BY <1>6, <3>2, <4>2, Timings
        <5>2. q \in packets'
          BY <1>1, <2>2, <4>2, Zenon
        <5> QED
          BY <1>1, <1>2, <4>2, <5>1, <5>2, Zenon DEF Coming
      <4> QED
        BY <4>1, <4>2, Zenon DEF Coming
    <3>7. Unheard => Unheard'
      BY <1>1, Zenon DEF Unheard
    <3> QED
      BY <3>1, <3>5, <3>6, <3>7, Zenon
  <2>3. Answered(Flight) => Turn(S1)' /\ Asking(S1)'
    <3>1. ASSUME NEW q \in packets,
                 elapsed + q.left < Flight + MinRequestInterval + RequestRetryInterval + 2 * Flight
          PROVE  elapsed < S1 /\ elapsed + probe.retry < S1 + MinRequestInterval + RequestRetryInterval
      BY <1>6, <3>1, Timings
    <3>2. S1 \in Nat
      BY Timings
    <3> HIDE DEF S1
    <3>3. Answered(Flight) => elapsed < S1 /\ elapsed + probe.retry < S1 + MinRequestInterval + RequestRetryInterval
      BY <3>1, Zenon DEF Answered
    <3>4. elapsed < S1 => elapsed <= seen[Me] + S1
      BY <1>6, <3>2
    <3> QED
      BY <1>1, <1>2, <3>3, <3>4, Zenon DEF Turn, Asking
  <2>4. ASSUME p.kind # "Unsolicited"
        PROVE  (ResponseBy(Flight) => ResponseBy(S1)') /\ (UnsolicitedBy(Flight) => UnsolicitedBy(S2)')
    <3> HIDE DEF S1, S2
    <3> QED
      BY <2>2, <2>3, <2>4, Zenon DEF ResponseBy, UnsolicitedBy
  <2>5. Due'
    <3>1. AwaitsResponse' => ResponseBy(S1)' /\ Late'
      BY <1>5, <2>1, <2>4, Zenon DEF VInv, Due, ResponseDue
    <3>2. AwaitsUnsolicited' => UnsolicitedBy(S2)' /\ Late'
      BY <1>5, <2>1, <2>4, Zenon DEF VInv, Due, UnsolicitedDue
    <3> QED
      BY <3>1, <3>2, Zenon DEF Due, ResponseDue, UnsolicitedDue
  <2> QED
    BY <1>3, <1>4, <2>5, Zenon DEF VInv
<1> QED
  BY <1>7, <1>8, Zenon

\* With such a timeout the deadline finds no one waiting.
LEMMA NothingOverdue ==
  ASSUME VInv, TimeoutSuffices, elapsed = Timeout
  PROVE  ~AwaitsResponse /\ ~AwaitsUnsolicited
<1>0. DoctorTypeOK /\ Timeout >= 2 * MinRequestInterval + 2 * RequestRetryInterval + 5 * Flight
  BY Zenon DEF VInv, TimeoutSuffices
<1>1. /\ elapsed \in Nat /\ probe.retry \in Nat
      /\ \A q \in packets : q.left \in Nat
      /\ \A t \in delayed : t.left \in Nat
  BY <1>0, Quantities, Zenon
<1>2. ASSUME NEW S \in Nat, S <= 3 * Flight + MinRequestInterval + RequestRetryInterval
      PROVE  ~ResponseBy(S)
  <2>1. ~Asking(S)
    BY <1>0, <1>1, <1>2, Timings DEF Asking
  <2>2. ~Answered(S)
    BY <1>0, <1>1, <1>2, Timings DEF Answered
  <2> QED
    BY <2>1, <2>2, Zenon DEF ResponseBy
<1>3. ASSUME NEW S \in Nat, S <= 2 * Flight + RequestRetryInterval
      PROVE  ~UnsolicitedBy(S)
  <2>1. ~Asking(S)
    BY <1>0, <1>1, <1>3, Timings, SMTT(30) DEF Asking
  <2>2. ~Coming(S)
    BY <1>0, <1>1, <1>3, Timings DEF Coming
  <2> QED
    BY <2>1, <2>2, Zenon DEF UnsolicitedBy
<1>4. /\ Flight \in Nat /\ 3 * Flight + MinRequestInterval + RequestRetryInterval \in Nat
      /\ 2 * Flight + RequestRetryInterval \in Nat
      /\ Flight <= 3 * Flight + MinRequestInterval + RequestRetryInterval
      /\ Flight <= 2 * Flight + RequestRetryInterval
      /\ 3 * Flight + MinRequestInterval + RequestRetryInterval <=
           3 * Flight + MinRequestInterval + RequestRetryInterval
      /\ 2 * Flight + RequestRetryInterval <= 2 * Flight + RequestRetryInterval
  BY Timings
<1> QED
  BY <1>2, <1>3, <1>4, Zenon DEF VInv, Due, ResponseDue, UnsolicitedDue

\* At the deadline the verdict is the firewall's.
LEMMA DeadlineKeeps ==
  ASSUME VInv, DoctorTypeOK', Deadline
  PROVE  VInv'
<1>0. DoctorTypeOK /\ Labelled /\ LetIn /\ probe.on
  BY Zenon DEF VInv, Deadline
<1>1. /\ UNCHANGED <<packets, firewall, conntrack, helper, seen, delayed, events>>
      /\ probe' = [probe EXCEPT !.on = FALSE, !.verdict = classify(probe)] /\ probe.deadline = 0
  BY Zenon DEF Deadline, Concluded
<1>2. /\ UNCHANGED <<probe.nonce, probe.s1, probe.s2, probe.target, probe.global, probe.deadline,
                     probe.solicited, probe.unsolicited>>
      /\ probe'.on = FALSE /\ probe'.verdict = classify(probe)
  <2>1. DOMAIN probe = {"on", "nonce", "s1", "s2", "target", "global", "solicited", "unsolicited",
                        "deadline", "retry", "verdict"}
    BY <1>0, ProbeFields, Zenon DEF DoctorTypeOK
  <2> QED
    BY <1>1, <2>1, Zenon
<1>3. elapsed' = elapsed /\ elapsed = Timeout
  BY <1>1, <1>2, Timings DEF elapsed
<1>4. Labelled'
  BY <1>0, <1>1, <1>2, <1>3 DEF Labelled, Ours, Earlier
<1>5. LetIn'
  BY <1>0, <1>1, <1>2, Zenon DEF LetIn
<1>6. Due' /\ Begun'
  BY <1>2, Zenon DEF Due, ResponseDue, UnsolicitedDue, AwaitsResponse, AwaitsUnsolicited, Begun
<1>7. RightVerdict'
  <2>1. SUFFICES ASSUME helper = "member", probe.target = "here", probe.global,
                        events \subseteq {"lost", "open"}, TimeoutSuffices
                 PROVE  classify(probe) =
                          [open |-> "open", stateful |-> "stateful", closed |-> "blocked"][firewall]
    BY <1>1, <1>2, Zenon DEF RightVerdict
  <2>2. ~AwaitsResponse /\ ~AwaitsUnsolicited
    BY <1>3, <2>1, NothingOverdue, Zenon
  <2>3. (probe.solicited => firewall # "closed") /\ (probe.unsolicited => firewall = "open")
    BY <1>0, <2>1, Zenon DEF LetIn
  <2>4. (firewall # "closed" => probe.solicited) /\ (firewall = "open" => probe.unsolicited)
    BY <1>0, <2>1, <2>2, Zenon DEF AwaitsResponse, AwaitsUnsolicited, Calm
  <2>5. firewall \in {"open", "stateful", "closed"}
    BY <1>0, Zenon DEF DoctorTypeOK
  <2>6. CASE firewall = "open"
    BY <2>1, <2>4, <2>6, Zenon DEF classify
  <2>7. CASE firewall = "stateful"
    BY <2>1, <2>3, <2>4, <2>7, Zenon DEF classify
  <2>8. CASE firewall = "closed"
    BY <2>1, <2>3, <2>8, Zenon DEF classify
  <2> QED
    BY <2>5, <2>6, <2>7, <2>8, Zenon
<1> QED
  BY <1>4, <1>5, <1>6, <1>7, Zenon DEF VInv

\* Nothing changes.
LEMMA StutterKeeps ==
  ASSUME VInv, DoctorTypeOK', UNCHANGED vars
  PROVE  VInv'
<1>1. UNCHANGED <<probe, packets, firewall, conntrack, helper, seen, delayed, events>>
  BY Zenon DEF vars
<1>2. elapsed' = elapsed
  BY <1>1, Zenon DEF elapsed
<1>3. Begun' /\ Labelled' /\ LetIn' /\ RightVerdict'
  BY <1>1, <1>2, Zenon DEF VInv, Begun, Labelled, Ours, Earlier, LetIn, RightVerdict
<1>4. ASSUME NEW S \in Nat PROVE (ResponseBy(S) => ResponseBy(S)') /\ (UnsolicitedBy(S) => UnsolicitedBy(S)')
  BY <1>1, <1>2, Zenon DEF ResponseBy, UnsolicitedBy, Turn, Asking, Answered, Coming, Unheard
<1>5. /\ AwaitsResponse' => AwaitsResponse
      /\ AwaitsUnsolicited' => AwaitsUnsolicited
  BY <1>1, Zenon DEF AwaitsResponse, AwaitsUnsolicited, Calm
<1> QED
  BY <1>1, <1>3, <1>4, <1>5, DueKept, Zenon DEF VInv

\* The first probe has not begun.
LEMMA AtFirst == Init => VInv
<1> SUFFICES ASSUME Init PROVE VInv
  BY Zenon
<1>1. DoctorTypeOK
  <2>1. probe \in Probes
    BY Timings DEF Init, Probes, Ports, Addresses
  <2>2. seen \in [Ips -> 0 .. Absent] /\ Tracked(seen) = {}
    BY Constants DEF Init, Tracked
  <2>3. Cardinality(Tracked(seen)) <= RateTableMax
    BY <2>2, FS_EmptySet, Constants
  <2>4. since \in [ticks: 0 .. MinRequestInterval, cleared: BOOLEAN]
    BY Timings DEF Init
  <2>5. losses \in 0 .. MaxLosses /\ changes \in 0 .. MaxChanges
    BY Timings DEF Init
  <2> QED
    BY <2>1, <2>2, <2>3, <2>4, <2>5, Zenon DEF Init, DoctorTypeOK, Tracked
<1>2. /\ probe.on = FALSE /\ probe.nonce = 0 /\ probe.s1 = 1 /\ probe.s2 = 2
      /\ probe.solicited = FALSE /\ probe.unsolicited = FALSE /\ packets = {} /\ delayed = {}
  BY Zenon DEF Init
<1>3. Begun /\ Due
  BY <1>2, Zenon DEF Begun, Due, ResponseDue, UnsolicitedDue, AwaitsResponse, AwaitsUnsolicited
<1>4. Labelled
  BY <1>2 DEF Labelled
<1>5. LetIn
  BY <1>2, Zenon DEF LetIn
<1>6. RightVerdict
  BY Zenon DEF Init, RightVerdict
<1> QED
  BY <1>1, <1>3, <1>4, <1>5, <1>6, Zenon DEF VInv

\* `hextet doctor` is right about the firewall (classify, doctor.rs): whatever
\* an earlier probe used up of the responder's rate, and although one Request or
\* Response is lost, the Response and the Unsolicited that the firewall lets in
\* are there before the deadline, for every timing that TimeoutSuffices covers.
THEOREM VerdictAlwaysRight == Spec => []VerdictRight
<1>1. Init => VInv
  BY AtFirst, Zenon
<1>2. VInv /\ [Next]_vars => VInv'
  <2> SUFFICES ASSUME VInv, [Next]_vars PROVE VInv'
    BY Zenon
  <2>1. DoctorTypeOK'
    BY DoctorTyped, Zenon DEF VInv
  <2> QED
    BY <2>1, StartKeeps, RetryKeeps, DeadlineKeeps, ServeKeeps, DeliverKeepsDue, LoseKeeps, SentKeeps,
       OtherWaits, DisturbedKeeps, TickKeeps, StutterKeeps, Zenon DEF Next
<1>3. VInv /\ OpenMeansOpen => VerdictRight
  BY Zenon DEF VInv, VerdictRight
<1>4. Spec => []VInv
  BY <1>1, <1>2, PTL DEF Spec
<1> QED
  BY <1>3, <1>4, OpenAlwaysMeansOpen, PTL
=============================================================================
