--------------------------- MODULE RelayLinkProofs ---------------------------
(***************************************************************************)
(* One registration at a time, the relay alone in a relayed list, types,    *)
(* and what a report or a result may do to a direct connection: for all     *)
(* addresses, reports, caches, intervals and limits.                        *)
(***************************************************************************)
EXTENDS RelayLink, EngineProofs

\* A PeerRuntime with its link; nothing else of it matters here.
Shape(p) ==
  /\ DOMAIN p = {"fsm", "rotAge", "discovered", "link", "cache", "kernel", "hsAfter"}
  /\ DOMAIN p.link = {"session", "pending", "upgrade", "retries", "regAge", "cool"}
  /\ p.link.pending \in BOOLEAN /\ p.link.upgrade \in BOOLEAN
\* RelayOnlyList of a peer.
Alone(p) ==
  p.link.session # NoEndpoint /\ ~p.link.upgrade => p.fsm.candidates = <<p.link.session>>

IInv ==
  /\ Shape(peer) /\ Alone(peer)
  /\ jobs \in Nat /\ results \in Seq(Sessions) /\ srv \in Sessions
  /\ OneRegistration

-----------------------------------------------------------------------------
\* Only set_candidates changes the list of a machine: a kick keeps it.
LEMMA ListOfMachine ==
  ASSUME NEW f
  PROVE  /\ kick(f).fsm.candidates = f.candidates
         /\ \A l : set_candidates(f, l).fsm.candidates = l
<1>1. kick(f).fsm.candidates = f.candidates
  BY Zenon DEF kick, Outcome
<1>2. ASSUME NEW l PROVE set_candidates(f, l).fsm.candidates = l
  BY Zenon DEF set_candidates, Outcome, Nothing
<1> QED
  BY <1>1, <1>2, Zenon

\* Running an operation of the machine, with its actions or without, leaves the
\* link as it is.
LEMMA RunKeepsLink ==
  ASSUME NEW p, Shape(p), NEW out
  PROVE  /\ Shape(Install(p, out)) /\ Install(p, out).link = p.link
         /\ Install(p, out).fsm = out.fsm
         /\ Shape(Run(p, out)) /\ Run(p, out).link = p.link /\ Run(p, out).fsm = out.fsm
<1> DEFINE q == Install(p, out)
<1>1. Shape(q) /\ q.link = p.link /\ q.fsm = out.fsm
  BY Zenon DEF Shape, Install
<1> HIDE DEF q
<1>2. ASSUME NEW acts
      PROVE  LET r == apply_actions(q, acts)
             IN  Shape(r) /\ r.link = q.link /\ r.fsm = q.fsm
  BY <1>1, Zenon DEF Shape, apply_actions
<1> QED
  BY <1>1, <1>2, Zenon DEF Run, q

\* After the list has been computed anew it obeys candidates_for's rule.
LEMMA ListedIsAlone ==
  ASSUME NEW p, Shape(p)
  PROVE  /\ Shape(SetList(p)) /\ SetList(p).link = p.link /\ Alone(SetList(p))
         /\ Shape(RunList(p)) /\ RunList(p).link = p.link /\ Alone(RunList(p))
<1> DEFINE out == set_candidates(p.fsm, candidates_for(p))
<1>1. out.fsm.candidates = candidates_for(p)
  BY ListOfMachine, Zenon
<1>2. p.link.session # NoEndpoint /\ ~p.link.upgrade => candidates_for(p) = <<p.link.session>>
  BY Zenon DEF candidates_for
<1> HIDE DEF out
<1>3. SetList(p) = Install(p, out) /\ RunList(p) = Run(p, out)
  BY Zenon DEF SetList, RunList, out
<1> QED
  BY <1>1, <1>2, <1>3, RunKeepsLink DEF Alone

\* The same after a retry_from, which keeps the list.
LEMMA RetryIsAlone ==
  ASSUME NEW p, Shape(p), Alone(p), NEW e, NEW flush
  PROVE  LET q == Run(p, retry_from(p.fsm, e, flush))
         IN  Shape(q) /\ q.link = p.link /\ Alone(q)
<1> DEFINE out == retry_from(p.fsm, e, flush)
<1>1. out.fsm.candidates = p.fsm.candidates
  BY Zenon DEF retry_from, Outcome, Nothing
<1> HIDE DEF out
<1>2. Shape(Run(p, out)) /\ Run(p, out).link = p.link /\ Run(p, out).fsm = out.fsm
  BY RunKeepsLink, Zenon
<1>3. Alone(Run(p, out))
  BY <1>1, <1>2, Zenon DEF Alone
<1> QED
  BY <1>2, <1>3, Zenon DEF out

\* The tick of the timers.
LEMMA AgedIsAlone ==
  ASSUME NEW p, Shape(p), Alone(p)
  PROVE  /\ Shape(Aged(p)) /\ Alone(Aged(p))
         /\ Aged(p).link.pending = p.link.pending /\ Aged(p).fsm = p.fsm
BY Zenon DEF Shape, Alone, Aged

\* drive_relay: a task is spawned only while none is pending, and then one is.
LEMMA DriveRelaySound ==
  ASSUME NEW p, Shape(p), Alone(p)
  PROVE  LET d == drive_relay(p)
         IN  /\ Shape(d.peer) /\ Alone(d.peer)
             /\ d.register \in BOOLEAN
             /\ IF d.register THEN ~p.link.pending /\ d.peer.link.pending
                ELSE d.peer.link.pending = p.link.pending
<1> DEFINE Good(d) == /\ Shape(d.peer) /\ Alone(d.peer)
                      /\ d.register \in BOOLEAN
                      /\ IF d.register THEN ~p.link.pending /\ d.peer.link.pending
                         ELSE d.peer.link.pending = p.link.pending
<1>1. Good(DriveProbing(p))
  <2> DEFINE register == ~p.link.upgrade /\ ~p.link.pending /\ p.link.cool = 0 /\ Needed(p)
             q == [p EXCEPT !.link.pending = @ \/ register]
  <2>1. register \in BOOLEAN /\ (register => ~p.link.pending)
    BY Zenon
  <2> HIDE DEF register
  <2>2. Shape(q) /\ Alone(q) /\ q.link.pending = (p.link.pending \/ register)
    BY <2>1, Zenon DEF Shape, Alone
  <2>3. DriveProbing(p) = [peer |-> q, register |-> register, unregister |-> FALSE]
    BY Zenon DEF DriveProbing, Driven, register
  <2> HIDE DEF q
  <2> QED
    BY <2>1, <2>2, <2>3 DEF Shape
<1>2. Good(Driven(p, FALSE, FALSE))
  BY Zenon DEF Driven
<1>3. Good(Release(p))
  <2> DEFINE q == [p EXCEPT !.link = [NoLink EXCEPT !.pending = p.link.pending]]
  <2>1. Shape(q) /\ q.link.pending = p.link.pending
    BY Zenon DEF Shape, NoLink
  <2>2. Release(p) = [peer |-> SetList(q), register |-> FALSE, unregister |-> TRUE]
    BY Zenon DEF Release, Driven
  <2> HIDE DEF q
  <2> QED
    BY <2>1, <2>2, ListedIsAlone
<1>4. Good(StayRelayed(p))
  <2> DEFINE link == p.link
             renewed == [p EXCEPT !.link = [Retried(link) EXCEPT !.pending = @ \/ Due(link)]]
             listed == IF link.upgrade THEN SetList(renewed) ELSE renewed
             done == IF MayRetry(link) THEN Run(listed, retry_from(listed.fsm, link.session, TRUE))
                     ELSE listed
  <2>1. Due(link) \in BOOLEAN /\ (Due(link) => ~link.pending) /\ MayRetry(link) \in BOOLEAN
    BY Zenon DEF Due, MayRetry
  <2>2. StayRelayed(p) = [peer |-> done, register |-> Due(link), unregister |-> FALSE]
    BY Zenon DEF StayRelayed, Driven
  <2>3. /\ Shape(renewed) /\ renewed.link.pending = (link.pending \/ Due(link))
        /\ renewed.link.session = link.session /\ renewed.link.upgrade = MayRetry(link)
        /\ renewed.fsm = p.fsm
    BY <2>1, Zenon DEF Shape, Retried
  <2>4. ~link.upgrade => Alone(renewed)
    BY <2>3, Zenon DEF Alone, MayRetry
  <2> HIDE DEF renewed
  <2>5. Shape(listed) /\ Alone(listed) /\ listed.link.pending = renewed.link.pending
    BY <2>3, <2>4, ListedIsAlone, Zenon
  <2> HIDE DEF listed
  <2>6. Shape(done) /\ Alone(done) /\ done.link.pending = listed.link.pending
    BY <2>5, RetryIsAlone, Zenon
  <2> HIDE DEF done
  <2> QED
    BY <2>1, <2>2, <2>3, <2>5, <2>6 DEF Shape
<1> QED
  BY <1>1, <1>2, <1>3, <1>4, Zenon DEF drive_relay

\* A report never touches the registration.
LEMMA DiscoveredSound ==
  ASSUME NEW p, Shape(p), Alone(p), NEW report
  PROVE  LET q == on_discovered(p, report)
         IN  Shape(q) /\ Alone(q) /\ q.link.pending = p.link.pending
<1> DEFINE q == [p EXCEPT !.discovered = Replace(@, report)]
           Good(r) == Shape(r) /\ Alone(r) /\ r.link.pending = p.link.pending
<1>1. Shape(q) /\ q.link = p.link /\ Alone(q)
  BY Zenon DEF Shape, Alone
<1>2. on_discovered(p, report) = IF q.fsm.state.tag = "Probing" THEN RunList(q)
                                 ELSE IF q.fsm.state.endpoint = q.link.session THEN TryUpgrade(q)
                                 ELSE Reconsider(q)
  BY Zenon DEF on_discovered
<1> HIDE DEF q
<1>3. Good(RunList(q))
  BY <1>1, ListedIsAlone, Zenon
<1>4. Good(TryUpgrade(q))
  <2> DEFINE o == [q EXCEPT !.link.upgrade = TRUE, !.link.retries = 0]
             opened == RunList(o)
  <2>1. Shape(o) /\ o.link.pending = p.link.pending
    BY <1>1, Zenon DEF Shape
  <2> HIDE DEF o
  <2>2. Shape(opened) /\ Alone(opened) /\ opened.link.pending = p.link.pending
    BY <2>1, ListedIsAlone, Zenon
  <2>3. TryUpgrade(q) = Run(opened, retry_from(opened.fsm, q.link.session, TRUE))
    BY Zenon DEF TryUpgrade, o
  <2> HIDE DEF opened
  <2> DEFINE r == Run(opened, retry_from(opened.fsm, q.link.session, TRUE))
  <2>4. Shape(r) /\ r.link = opened.link /\ Alone(r)
    BY <2>2, RetryIsAlone, Zenon
  <2> HIDE DEF r
  <2>5. Good(r)
    BY <2>2, <2>4, Zenon
  <2> QED
    BY <2>3, <2>5, Zenon DEF r
<1>5. Good(Reconsider(q))
  <2> DEFINE e == q.fsm.state.endpoint
             pruned == IF e \in Elements(Configured) \/ reported_by_reliable_source(q.discovered, e)
                       THEN q ELSE [q EXCEPT !.cache = evict(@, e)]
             listed == RunList(pruned)
  <2>1. Shape(pruned) /\ pruned.link.pending = p.link.pending
    BY <1>1, Zenon DEF Shape
  <2>2. Reconsider(q) = IF Stays(q.discovered, e) THEN listed
                        ELSE Run(listed, retry_from(listed.fsm, e, FALSE))
    BY Zenon DEF Reconsider
  <2> HIDE DEF pruned
  <2>3. Good(listed)
    BY <2>1, ListedIsAlone, Zenon
  <2> HIDE DEF listed, e
  <2> DEFINE r == Run(listed, retry_from(listed.fsm, e, FALSE))
  <2>4. Shape(r) /\ r.link = listed.link /\ Alone(r)
    BY <2>3, RetryIsAlone, Zenon
  <2> HIDE DEF r
  <2>5. Good(r)
    BY <2>3, <2>4, Zenon
  <2> QED
    BY <2>2, <2>3, <2>5, Zenon DEF r
<1> QED
  BY <1>2, <1>3, <1>4, <1>5, Zenon

\* Taking a result ends the registration.
LEMMA RegisteredSound ==
  ASSUME NEW p, Shape(p), Alone(p), NEW session
  PROVE  LET q == on_relay_registered(p, session)
         IN  Shape(q) /\ Alone(q) /\ q.link.pending = FALSE
<1> DEFINE link == [p.link EXCEPT !.pending = FALSE]
           previous == p.link.session
           failed == [p EXCEPT !.link = [link EXCEPT !.cool = RetryCooldown]]
           same == [p EXCEPT !.link = [link EXCEPT !.regAge = 0, !.cool = 0]]
           other == [p EXCEPT !.link = [link EXCEPT !.session = session, !.regAge = 0, !.cool = 0]]
           listed == RunList(other)
           Good(q) == Shape(q) /\ Alone(q) /\ q.link.pending = FALSE
<1>1. Good(failed) /\ Good(same)
  BY Zenon DEF Shape, Alone
<1>2. Shape(other) /\ other.link.pending = FALSE
  BY Zenon DEF Shape
<1>3. on_relay_registered(p, session) \in
        {failed, same, listed, Run(listed, retry_from(listed.fsm, previous, FALSE))}
  BY Zenon DEF on_relay_registered
<1> HIDE DEF failed, same, other, previous
<1>4. Good(listed)
  BY <1>2, ListedIsAlone, Zenon
<1> HIDE DEF listed
<1>5. Good(Run(listed, retry_from(listed.fsm, previous, FALSE)))
  BY <1>4, RetryIsAlone, Zenon
<1> QED
  BY <1>1, <1>3, <1>4, <1>5, Zenon

-----------------------------------------------------------------------------
\* A step of which the link's `pending` and the tasks know nothing.
LEMMA QuietStep ==
  ASSUME IInv, UNCHANGED <<jobs, results>>, srv' \in Sessions,
         Shape(peer'), Alone(peer'), peer'.link.pending = peer.link.pending
  PROVE  IInv'
BY Zenon DEF IInv, OneRegistration

\* The invariant holds when the daemon starts: new, then kick.
LEMMA InitSound == Init => IInv
<1> SUFFICES ASSUME Init PROVE IInv
  BY Zenon
<1>1. PICK c \in Caches :
        LET p == [fsm |-> new(<<>>), rotAge |-> 0, discovered |-> <<>>, link |-> NoLink, cache |-> c,
                  kernel |-> [ep |-> Get(Configured, 0), hsAge |-> HandshakeFresh],
                  hsAfter |-> FALSE]
            started == [p EXCEPT !.fsm = new(candidates_for(p))]
        IN  peer = Run(started, kick(started.fsm))
  BY Zenon DEF Init
<1> DEFINE p == [fsm |-> new(<<>>), rotAge |-> 0, discovered |-> <<>>, link |-> NoLink, cache |-> c,
                 kernel |-> [ep |-> Get(Configured, 0), hsAge |-> HandshakeFresh],
                 hsAfter |-> FALSE]
           started == [p EXCEPT !.fsm = new(candidates_for(p))]
<1>2. Shape(started) /\ started.link = NoLink
  BY Zenon DEF Shape, NoLink
<1>3. peer = Run(started, kick(started.fsm))
  BY <1>1, Zenon
<1> HIDE DEF started
<1>4. Shape(peer) /\ peer.link = NoLink
  BY <1>2, <1>3, RunKeepsLink, Zenon
<1>5. Alone(peer) /\ peer.link.pending = FALSE
  BY <1>4 DEF Alone, NoLink
<1> QED
  BY <1>4, <1>5 DEF IInv, Init, OneRegistration, Sessions

\* Every handler of the main loop, and everything that comes between two of
\* them, keeps the invariant.
LEMMA NextKeeps ==
  ASSUME IInv, [Next]_vars
  PROVE  IInv'
<1> USE DEF IInv
<1>1. CASE tick_once
  <2> DEFINE p == Aged(peer)
             obs == Observed(p)
             due == p.rotAge >= RotateInterval
             out == tick(p.fsm, obs, due)
             ran == Run(p, out)
             d == drive_relay(ran)
  <2>1. Shape(p) /\ Alone(p) /\ p.link.pending = peer.link.pending
    BY AgedIsAlone, Zenon
  <2>2. out.fsm.candidates = p.fsm.candidates
    <3> HIDE DEF p, obs, due
    <3>1. /\ Connect(p.fsm, obs).fsm.candidates = p.fsm.candidates
          /\ Rotate(p.fsm).fsm.candidates = p.fsm.candidates
          /\ TickConnected(p.fsm, obs).fsm.candidates = p.fsm.candidates
      BY Zenon DEF Connect, Rotate, TickConnected, Outcome, Nothing
    <3>2. TickProbing(p.fsm, obs, due).fsm.candidates = p.fsm.candidates
      BY <3>1, Zenon DEF TickProbing, Outcome, Nothing
    <3> QED
      BY <3>1, <3>2, Zenon DEF tick
  <2>3. /\ peer' = d.peer /\ jobs' = jobs + (IF d.register THEN 1 ELSE 0)
        /\ srv' \in Sessions /\ results' = results
    BY <1>1, Zenon DEF tick_once, Sessions
  <2> HIDE DEF p, out
  <2>4. Shape(ran) /\ Alone(ran) /\ ran.link.pending = peer.link.pending
    BY <2>1, <2>2, RunKeepsLink DEF Alone
  <2> HIDE DEF ran
  <2>5. /\ Shape(d.peer) /\ Alone(d.peer) /\ d.register \in BOOLEAN
        /\ IF d.register THEN ~ran.link.pending /\ d.peer.link.pending
           ELSE d.peer.link.pending = ran.link.pending
    BY <2>4, DriveRelaySound, Zenon
  <2> HIDE DEF d
  <2>6. CASE d.register
    BY <2>3, <2>4, <2>5, <2>6 DEF OneRegistration
  <2>7. CASE ~d.register
    BY <2>3, <2>4, <2>5, <2>7 DEF OneRegistration
  <2> QED
    BY <2>5, <2>6, <2>7, Zenon
<1>2. CASE SkippedTick
  BY <1>2, AgedIsAlone, QuietStep, Zenon DEF SkippedTick, relay
<1>3. CASE OnRelayRegistered
  <2>1. /\ results # <<>> /\ results' = Tail(results) /\ jobs' = jobs /\ srv' = srv
        /\ peer' = on_relay_registered(peer, Head(results))
    BY <1>3, Zenon DEF OnRelayRegistered
  <2>2. Shape(peer') /\ Alone(peer') /\ peer'.link.pending = FALSE
    BY <2>1, RegisteredSound, Zenon
  <2>3. results' \in Seq(Sessions) /\ Len(results') = Len(results) - 1 /\ Len(results) \in Nat \ {0}
    BY <2>1
  <2>4. peer.link.pending /\ jobs + Len(results) = 1
    BY <2>3 DEF OneRegistration, Shape
  <2> QED
    BY <2>1, <2>2, <2>3, <2>4 DEF OneRegistration
<1>4. CASE OnDiscovered
  BY <1>4, DiscoveredSound, QuietStep, Zenon DEF OnDiscovered, relay
<1>5. CASE Kick
  <2> DEFINE out == kick(peer.fsm)
  <2>1. out.fsm.candidates = peer.fsm.candidates
    BY ListOfMachine, Zenon
  <2>2. peer' = Run(peer, out) /\ UNCHANGED <<jobs, results, srv>>
    BY <1>5, Zenon DEF Kick, relay
  <2> HIDE DEF out
  <2>3. Shape(peer') /\ peer'.link = peer.link /\ peer'.fsm = out.fsm
    BY <2>2, RunKeepsLink, Zenon
  <2> QED
    BY <2>1, <2>2, <2>3, QuietStep, Zenon DEF Alone
<1>6. CASE RegisterAnswered \/ RegisterTimesOut
  <2>1. /\ jobs > 0 /\ jobs' = jobs - 1 /\ peer' = peer /\ srv' \in Sessions
        /\ \E s \in Sessions : results' = Append(results, s)
    BY <1>6, Zenon DEF RegisterAnswered, RegisterTimesOut, Sessions
  <2>2. results' \in Seq(Sessions) /\ Len(results') = Len(results) + 1
    BY <2>1
  <2> QED
    BY <2>1, <2>2 DEF OneRegistration
<1>7. CASE RelayForgets
  BY <1>7, QuietStep, Zenon DEF RelayForgets, Sessions
<1>8. CASE InboundHandshake \/ EarlyHandshake \/ OutboundHandshake \/ Roam
  <2>1. /\ UNCHANGED <<jobs, results, srv>>
        /\ \/ \E e : peer' = [peer EXCEPT !.kernel = [ep |-> e, hsAge |-> 0], !.hsAfter = TRUE]
           \/ \E e : peer' = [peer EXCEPT !.kernel.ep = e]
    BY <1>8, Zenon DEF InboundHandshake, EarlyHandshake, OutboundHandshake, Roam, Handshake, relay
  <2>2. Shape(peer') /\ peer'.link = peer.link /\ peer'.fsm = peer.fsm
    BY <2>1, Zenon DEF Shape
  <2> QED
    BY <2>1, <2>2, QuietStep, Zenon DEF Alone
<1>9. CASE Renumber \/ UNCHANGED vars
  BY <1>9, QuietStep, Zenon DEF Renumber, relay, vars
<1> QED
  BY <1>1, <1>2, <1>3, <1>4, <1>5, <1>6, <1>7, <1>8, <1>9, Zenon DEF Next

\* At most one registration of a pair is under way, and `pending` says so.
THEOREM OneRegistrationAlways == Spec => []OneRegistration
<1>1. IInv => OneRegistration
  BY Zenon DEF IInv
<1> QED
  BY <1>1, InitSound, NextKeeps, PTL DEF Spec

\* With a session and no upgrade under way the list is the relay alone, whichever
\* handler ran last.
THEOREM RelayAloneAlways == Spec => []RelayOnlyList
<1>1. IInv => RelayOnlyList
  BY Zenon DEF IInv, Alone, RelayOnlyList
<1> QED
  BY <1>1, InitSound, NextKeeps, PTL DEF Spec
-----------------------------------------------------------------------------
(* The handlers keep the types: the machine's index is in its list, the list  *)
(* and the cache hold endpoints, the clocks and the retries are bounded.      *)
Founds == Seq([src : {LAN, Gossip, DHT, DDNS}, ep : Endpoints])
Entries == [good : Endpoints \cup {NoEndpoint}, seen : Seq(Endpoints)]
Kernels == [ep : Endpoints \cup {NoEndpoint}, hsAge : 0..HandshakeFresh]
Typed(p) == p \in Peers /\ Bounded(p.fsm)

\* The fields of a peer.
LEMMA PeerFields ==
  ASSUME NEW p \in Peers
  PROVE  /\ p.fsm \in Fsms /\ p.rotAge \in 0..RotateInterval /\ p.discovered \in Founds
         /\ p.link \in Links /\ p.cache \in Entries /\ p.kernel \in Kernels
         /\ p.hsAfter \in BOOLEAN
         /\ Shape(p)
<1>1. /\ p.fsm \in Fsms /\ p.rotAge \in 0..RotateInterval /\ p.discovered \in Founds
      /\ p.link \in Links /\ p.cache \in Entries /\ p.kernel \in Kernels
      /\ p.hsAfter \in BOOLEAN
  BY Zenon DEF Peers, Fsms, Founds, Entries, Kernels
<1>2. Shape(p)
  BY Zenon DEF Shape, Peers, Links
<1> QED
  BY <1>1, <1>2, Zenon

\* Changing a field of a peer.
LEMMA PeerWith ==
  ASSUME NEW p \in Peers
  PROVE  /\ \A d \in Founds : [p EXCEPT !.discovered = d] \in Peers
         /\ \A l \in Links : [p EXCEPT !.link = l] \in Peers
         /\ \A c \in Entries : [p EXCEPT !.cache = c] \in Peers
         /\ \A f \in Fsms : [p EXCEPT !.fsm = f] \in Peers
  BY Zenon DEF Peers, Fsms, Founds, Entries

\* An address taken out of the history, and one put at its head.
LEMMA HistoryTyped ==
  ASSUME NEW s \in Seq(Endpoints), NEW e \in Endpoints
  PROVE  /\ Without(s, e) \in Seq(Endpoints) /\ e \notin Elements(Without(s, e))
         /\ \A n \in Nat : n =< Len(<<e>> \o Without(s, e)) =>
              SubSeq(<<e>> \o Without(s, e), 1, n) \in Seq(Endpoints)
<1> DEFINE I == {i \in 1..Len(s) : s[i] # e}
           w == Without(s, e)
<1>1. I \in SUBSET (1..Len(s)) /\ w = Picked(s, I)
  BY Zenon DEF Without
<1> HIDE DEF w
<1>2. w \in Seq(Endpoints) /\ \A k \in 1..Len(w) : \E i \in I : w[k] = s[i]
  <2> HIDE DEF I
  <2> QED
    BY <1>1, PickedFacts, Zenon
<1>3. e \notin Elements(w)
  BY <1>2, Zenon DEF Elements
<1>4. <<e>> \o w \in Seq(Endpoints)
  BY <1>2
<1> QED
  BY <1>2, <1>3, <1>4 DEF w

\* The cache entry after record_good and evict.
LEMMA CacheTyped ==
  ASSUME NEW c \in Entries, NEW e \in Endpoints
  PROVE  record_good(c, e) \in Entries /\ evict(c, e) \in Entries
<1>1. c.seen \in Seq(Endpoints) /\ c.good \in Endpoints \cup {NoEndpoint}
  BY Zenon DEF Entries
<1> DEFINE w == <<e>> \o Without(c.seen, e)
           n == Min({Len(w), CacheSeenMax})
<1>2. Without(c.seen, e) \in Seq(Endpoints)
  BY <1>1, HistoryTyped, Zenon
<1>3. w \in Seq(Endpoints) /\ Len(w) \in Nat /\ CacheSeenMax \in Nat
  BY <1>2, LimitsAssumption
<1>4. n \in Nat /\ n =< Len(w)
  <2>1. \A x \in Nat : \A y \in Nat : Min({x, y}) \in {x, y} /\ Min({x, y}) =< y
    BY MinOfTwo, Zenon
  <2>2. {Len(w), CacheSeenMax} = {CacheSeenMax, Len(w)}
    BY Zenon
  <2> HIDE DEF w
  <2> QED
    BY <1>3, <2>1, <2>2, Zenon
<1>5. SubSeq(w, 1, n) \in Seq(Endpoints)
  BY <1>1, <1>4, HistoryTyped, Zenon
<1>6. record_good(c, e) = [good |-> e, seen |-> SubSeq(w, 1, n)]
  BY Zenon DEF record_good
<1> HIDE DEF w, n
<1>7. record_good(c, e) \in Entries
  BY <1>5, <1>6 DEF Entries
<1>8. evict(c, e) \in Entries
  BY <1>1, <1>2, Zenon DEF evict, Entries
<1> QED
  BY <1>7, <1>8, Zenon

\* What the actions of an operation do to the peer: they may point the kernel
\* elsewhere, forget its handshake, and record a good address.
LEMMA ActionsTyped ==
  ASSUME NEW p \in Peers, NEW acts \in ActLists
  PROVE  LET q == apply_actions(p, acts)
         IN  /\ q \in Peers /\ q.fsm = p.fsm /\ q.link = p.link
             /\ q.discovered = p.discovered /\ q.rotAge = p.rotAge
<1> DEFINE points == {i \in 1..Len(acts) : acts[i].act \in {"SetEndpoint", "Rehandshake"}}
           good == {i \in 1..Len(acts) : acts[i].act = "MarkGood" /\ acts[i].ep # p.link.session}
           ep == IF points = {} THEN p.kernel.ep ELSE acts[Max(points)].ep
           age == IF \E i \in points : acts[i].act = "Rehandshake"
                  THEN HandshakeFresh ELSE p.kernel.hsAge
           entry == IF good = {} THEN p.cache ELSE record_good(p.cache, acts[Max(good)].ep)
           q == apply_actions(p, acts)
<1>1. /\ p.cache \in Entries
      /\ p.kernel.ep \in Endpoints \cup {NoEndpoint} /\ p.kernel.hsAge \in 0..HandshakeFresh
      /\ HandshakeFresh \in 0..HandshakeFresh
  <2>1. p.kernel \in Kernels /\ p.cache \in Entries
    BY PeerFields, Zenon
  <2>2. p.kernel.ep \in Endpoints \cup {NoEndpoint} /\ p.kernel.hsAge \in 0..HandshakeFresh
    BY <2>1, Zenon DEF Kernels
  <2>3. HandshakeFresh \in 0..HandshakeFresh
    BY IntervalsAssumption
  <2> QED
    BY <2>1, <2>2, <2>3, Zenon
<1>2. Max({1}) = 1
  BY DEF Max
<1>3. age \in 0..HandshakeFresh
  BY <1>1, Zenon
<1>4. ep \in Endpoints \cup {NoEndpoint} /\ entry \in Entries
  <2>1. CASE acts \in {<<>>, <<Nudge>>}
    <3>1. points = {} /\ good = {}
      BY <2>1 DEF Nudge
    <3> QED
      BY <1>1, <3>1, Zenon
  <2>2. CASE \E e \in Endpoints : acts = <<MarkGood(e)>>
    <3>1. PICK e \in Endpoints : acts = <<MarkGood(e)>>
      BY <2>2, Zenon
    <3>2. points = {} /\ acts[1].ep = e /\ (good = {} \/ good = {1})
      BY <3>1 DEF MarkGood
    <3> QED
      BY <1>1, <1>2, <3>2, CacheTyped, Zenon
  <2>3. CASE \E e \in Endpoints : acts \in {<<SetEndpoint(e), Nudge>>, <<Rehandshake(e), Nudge>>}
    <3>1. PICK e \in Endpoints : acts \in {<<SetEndpoint(e), Nudge>>, <<Rehandshake(e), Nudge>>}
      BY <2>3, Zenon
    <3>2. points = {1} /\ good = {} /\ acts[1].ep = e
      BY <3>1 DEF SetEndpoint, Rehandshake, Nudge
    <3> QED
      BY <1>1, <1>2, <3>1, <3>2, Zenon
  <2> QED
    BY <2>1, <2>2, <2>3, Zenon DEF ActLists
<1>5. q = [p EXCEPT !.kernel = [[p.kernel EXCEPT !.ep = ep] EXCEPT !.hsAge = age], !.cache = entry]
  BY Zenon DEF apply_actions
<1> HIDE DEF ep, age, entry, q
<1> DEFINE k == [[p.kernel EXCEPT !.ep = ep] EXCEPT !.hsAge = age]
<1>6. k \in Kernels
  <2>1. p.kernel \in Kernels
    BY PeerFields, Zenon
  <2> QED
    BY <1>1, <1>3, <1>4, <2>1, Zenon DEF Kernels
<1>7. q = [p EXCEPT !.kernel = k, !.cache = entry]
  BY <1>5, Zenon
<1> HIDE DEF k
<1>8. q \in Peers
  BY <1>4, <1>6, <1>7, Zenon DEF Peers, Kernels, Entries
<1>9. /\ q.fsm = p.fsm /\ q.link = p.link /\ q.discovered = p.discovered /\ q.rotAge = p.rotAge
  BY <1>7, Zenon DEF Peers
<1> QED
  BY <1>8, <1>9, Zenon DEF q

\* q is p after an operation of the machine that returned out.
Ran(p, out, q) ==
  Typed(q) /\ q.fsm = out.fsm /\ q.link = p.link /\ q.discovered = p.discovered

\* Running a sound operation, with its actions or without.
LEMMA RunTyped ==
  ASSUME NEW p \in Peers, NEW f, NEW out, Sound(f, out)
  PROVE  Ran(p, out, Install(p, out)) /\ Ran(p, out, Run(p, out))
<1> DEFINE q == Install(p, out)
           age == IF out.rotate THEN 0 ELSE p.rotAge
<1>1. /\ out.fsm \in Fsms /\ Bounded(out.fsm) /\ out.acts \in ActLists
      /\ out.transition \in BOOLEAN /\ out.rotate \in BOOLEAN
  BY Zenon DEF Sound
<1>2. age \in 0..RotateInterval
  <2>1. 0 \in 0..RotateInterval /\ p.rotAge \in 0..RotateInterval
    BY IntervalsAssumption, PeerFields
  <2> QED
    BY <2>1, Zenon
<1>3. q = [p EXCEPT !.fsm = out.fsm, !.hsAfter = @ /\ ~out.transition, !.rotAge = age]
  BY Zenon DEF Install
<1> HIDE DEF q, age
<1>4. q \in Peers
  BY <1>1, <1>2, <1>3, Zenon DEF Peers, Fsms
<1>5. q.fsm = out.fsm /\ q.link = p.link /\ q.discovered = p.discovered
  BY <1>3, Zenon DEF Peers
<1>6. Ran(p, out, q)
  BY <1>1, <1>4, <1>5, Zenon DEF Ran, Typed
<1>7. Ran(p, out, apply_actions(q, out.acts))
  BY <1>1, <1>4, <1>5, ActionsTyped, Zenon DEF Ran, Typed
<1> QED
  BY <1>6, <1>7, Zenon DEF Run, q

\* The sources of a peer's list, and the list.
LEMMA SourcesTyped ==
  ASSUME NEW p \in Peers
  PROVE  sources_for(p) \in Sources /\ candidates_for(p) \in Seq(Endpoints)
<1> DEFINE s == sources_for(p)
           seen == p.cache.seen
           cached == [i \in 1..Len(seen) |-> [ep |-> seen[i], seen |-> Len(seen) - i]]
<1>1. /\ p.discovered \in Founds /\ p.cache.good \in Endpoints \cup {NoEndpoint}
      /\ seen \in Seq(Endpoints) /\ p.link.session \in Endpoints \cup {NoEndpoint}
  <2>1. p.discovered \in Founds /\ p.link \in Links /\ p.cache \in Entries
    BY PeerFields, Zenon
  <2>2. p.link.session \in Endpoints \cup {NoEndpoint}
    BY <2>1, RelaysAssumption, Zenon DEF Links
  <2>3. p.cache.good \in Endpoints \cup {NoEndpoint} /\ seen \in Seq(Endpoints)
    BY <2>1, Zenon DEF Entries
  <2> QED
    BY <2>1, <2>2, <2>3, Zenon
<1>2. cached \in Seq([ep : Endpoints, seen : Nat])
  <2>1. Len(seen) \in Nat /\ \A i \in 1..Len(seen) : seen[i] \in Endpoints /\ Len(seen) - i \in Nat
    BY <1>1
  <2>2. cached \in [1..Len(seen) -> [ep : Endpoints, seen : Nat]]
    BY <2>1, Zenon
  <2> QED
    BY <2>1, <2>2, EntriesTyped
<1>3. s = [last_good |-> p.cache.good, discovered |-> p.discovered, configured |-> Configured,
           cached |-> cached, relay |-> p.link.session]
  BY Zenon DEF sources_for
<1>4. Configured \in Seq(Endpoints)
  BY AddressesAssumption, Zenon
<1> HIDE DEF cached, s
<1>5. s \in Sources
  BY <1>1, <1>2, <1>3, <1>4, Zenon DEF Sources, Founds
<1>6. build_candidates(s) \in Seq(Endpoints)
  BY <1>5, ListMembers, Zenon
<1>7. p.link.session # NoEndpoint => <<p.link.session>> \in Seq(Endpoints)
  BY <1>1
<1> QED
  BY <1>5, <1>6, <1>7, Zenon DEF candidates_for, s

\* q is p after its list has been computed anew: a connection stays, a search goes on.
Listed(p, q) ==
  /\ Typed(q) /\ q.link = p.link /\ q.discovered = p.discovered
  /\ q.fsm.candidates = candidates_for(p)
  /\ q.fsm.state.tag = p.fsm.state.tag
  /\ p.fsm.state.tag = "Connected" => q.fsm.state = p.fsm.state

\* Computing the list anew.
LEMMA ListTyped ==
  ASSUME NEW p, Typed(p)
  PROVE  Listed(p, SetList(p)) /\ Listed(p, RunList(p))
<1> DEFINE f == p.fsm
           list == candidates_for(p)
           out == set_candidates(f, list)
<1>1. p \in Peers /\ f \in Fsms /\ Bounded(f) /\ list \in Seq(Endpoints)
  BY PeerFields, SourcesTyped, Zenon DEF Typed
<1> HIDE DEF f, list
<1>2. Sound(f, out)
  BY <1>1, SetCandidatesSound, Zenon
<1>3. out.fsm.candidates = list
  BY <1>1, SetCandidatesKeeps, Zenon
<1>4. out.fsm.state.tag = f.state.tag /\ (f.state.tag = "Connected" => out.fsm.state = f.state)
  <2>1. CASE f.state.tag = "Connected"
    BY <2>1, Zenon DEF set_candidates, Nothing, Outcome
  <2>2. CASE f.state.tag # "Connected"
    BY <1>1, <2>2, FsmFacts, Zenon DEF set_candidates, Nothing, Outcome, Probing
  <2> QED
    BY <2>1, <2>2, Zenon
<1> HIDE DEF out
<1>5. Ran(p, out, Install(p, out)) /\ Ran(p, out, Run(p, out))
  BY <1>1, <1>2, RunTyped, Zenon
<1>6. SetList(p) = Install(p, out) /\ RunList(p) = Run(p, out)
  BY Zenon DEF SetList, RunList, out, f, list
<1>7. ASSUME NEW q, Ran(p, out, q) PROVE Listed(p, q)
  BY <1>3, <1>4, <1>7, Zenon DEF Listed, Ran, f, list
<1> QED
  BY <1>5, <1>6, <1>7, Zenon

\* q is p after retry_from(e): it leaves a connection if the list has anything but e.
Retries(p, e, q) ==
  /\ Typed(q) /\ q.link = p.link /\ q.discovered = p.discovered
  /\ q.fsm.candidates = p.fsm.candidates
  /\ q.fsm.state.tag = "Connected" => q.fsm.state = p.fsm.state
  /\ p.fsm.state.tag = "Probing" => q.fsm.state.tag = "Probing"
  /\ (\E x \in Elements(p.fsm.candidates) : x # e) => q.fsm.state.tag = "Probing"

\* Trying the other candidates.
LEMMA RetryTyped ==
  ASSUME NEW p, Typed(p), NEW e, NEW flush \in BOOLEAN
  PROVE  Retries(p, e, Run(p, retry_from(p.fsm, e, flush)))
<1> DEFINE f == p.fsm
           out == retry_from(f, e, flush)
           others == {i \in 1..Len(f.candidates) : f.candidates[i] # e}
<1>1. p \in Peers /\ f \in Fsms /\ Bounded(f)
  BY PeerFields, Zenon DEF Typed
<1> HIDE DEF f
<1>2. Sound(f, out)
  BY <1>1, RetryFromSound, Zenon
<1>3. /\ out.fsm.candidates = f.candidates
      /\ f.state.tag = "Probing" => out.fsm.state.tag = "Probing"
      /\ f.state.tag # "Probing" /\ others # {} => out.fsm.state.tag = "Probing"
      /\ f.state.tag = "Probing" \/ others = {} => out.fsm.state = f.state
  BY Zenon DEF retry_from, Nothing, Outcome, Probing
<1>4. (\E x \in Elements(f.candidates) : x # e) => others # {}
  BY Zenon DEF Elements
<1>5. out.fsm.state.tag = "Connected" => out.fsm.state = f.state
  BY <1>3, Zenon
<1> HIDE DEF out, others
<1>6. Ran(p, out, Run(p, out))
  BY <1>1, <1>2, RunTyped, Zenon
<1>7. (\E x \in Elements(f.candidates) : x # e) => out.fsm.state.tag = "Probing"
  BY <1>3, <1>4, Zenon
<1> QED
  BY <1>3, <1>5, <1>6, <1>7, Zenon DEF Retries, Ran, f, out

-----------------------------------------------------------------------------
(* An upgrade is under way only on the way from a session: a direct connection *)
(* never has one open, whichever handler ran last.                             *)
Committed(p) ==
  /\ Direct(p) => ~p.link.upgrade
  /\ p.link.upgrade => p.link.session # NoEndpoint

\* The fields of a link, and the fresh link of a release.
LEMMA LinkFields ==
  ASSUME NEW l \in Links
  PROVE  /\ l.session \in Relays \cup {NoEndpoint} /\ l.pending \in BOOLEAN
         /\ l.upgrade \in BOOLEAN /\ l.retries \in 0..UpgradeMaxRetries
         /\ l.regAge \in 0..RegisterInterval /\ l.cool \in 0..RetryCooldown
         /\ \A b \in BOOLEAN : /\ [l EXCEPT !.pending = b] \in Links
                               /\ [NoLink EXCEPT !.pending = b] \in Links
<1>1. 0 \in 0..UpgradeMaxRetries /\ 0 \in 0..RetryCooldown /\ RegisterInterval \in 0..RegisterInterval
  BY IntervalsAssumption, LimitsAssumption
<1>2. /\ l.session \in Relays \cup {NoEndpoint} /\ l.pending \in BOOLEAN
      /\ l.upgrade \in BOOLEAN /\ l.retries \in 0..UpgradeMaxRetries
      /\ l.regAge \in 0..RegisterInterval /\ l.cool \in 0..RetryCooldown
  BY Zenon DEF Links
<1>3. ASSUME NEW b \in BOOLEAN
      PROVE  [l EXCEPT !.pending = b] \in Links /\ [NoLink EXCEPT !.pending = b] \in Links
  <2>1. [l EXCEPT !.pending = b] \in Links
    BY Zenon DEF Links
  <2>2. NoLink \in Links
    BY <1>1, Zenon DEF NoLink, Links
  <2>3. [NoLink EXCEPT !.pending = b] \in Links
    BY <2>2, Zenon DEF Links
  <2> QED
    BY <2>1, <2>3, Zenon
<1> QED
  BY <1>2, <1>3, Zenon

\* What drive_relay makes of a peer p that has just run its tick: a connection
\* without an upgrade is kept.
DrivenWell(p, q) ==
  /\ Typed(q) /\ Committed(q) /\ q.discovered = p.discovered
  /\ p.fsm.state.tag = "Connected" /\ ~p.link.upgrade => q.fsm.state.tag = "Connected"

\* Probing: only `pending` may change.
LEMMA DriveProbingTyped ==
  ASSUME NEW p, Typed(p), p.fsm.state.tag = "Probing",
         p.link.upgrade => p.link.session # NoEndpoint
  PROVE  DrivenWell(p, DriveProbing(p).peer)
<1> DEFINE register == ~p.link.upgrade /\ ~p.link.pending /\ p.link.cool = 0 /\ Needed(p)
           l == [p.link EXCEPT !.pending = @ \/ register]
           q == [p EXCEPT !.link = l]
<1>1. p \in Peers /\ Bounded(p.fsm) /\ p.link \in Links
  BY PeerFields, Zenon DEF Typed
<1>2. register \in BOOLEAN
  BY Zenon
<1>3. DriveProbing(p).peer = q
  BY Zenon DEF DriveProbing, Driven
<1> HIDE DEF register
<1>4. l \in Links /\ l.upgrade = p.link.upgrade /\ l.session = p.link.session
  BY <1>1, <1>2, Zenon DEF Links
<1> HIDE DEF l
<1>5. q \in Peers /\ q.fsm = p.fsm /\ q.link = l /\ q.discovered = p.discovered
  BY <1>1, <1>4, PeerWith, Zenon DEF Peers
<1> HIDE DEF q
<1> QED
  BY <1>1, <1>3, <1>4, <1>5, Zenon DEF DrivenWell, Typed, Committed, Direct

\* The direct path works: the session is given up, the connection stays.
LEMMA ReleaseTyped ==
  ASSUME NEW p, Typed(p)
  PROVE  DrivenWell(p, Release(p).peer)
<1> DEFINE l == [NoLink EXCEPT !.pending = p.link.pending]
           q == [p EXCEPT !.link = l]
<1>1. p \in Peers /\ Bounded(p.fsm) /\ p.link \in Links /\ p.link.pending \in BOOLEAN
  BY PeerFields, LinkFields, Zenon DEF Typed
<1>2. l \in Links /\ l.upgrade = FALSE
  BY <1>1, LinkFields, Zenon DEF NoLink
<1>3. Release(p).peer = SetList(q)
  BY Zenon DEF Release, Driven
<1> HIDE DEF l
<1>4. q \in Peers /\ q.fsm = p.fsm /\ q.link = l /\ q.discovered = p.discovered
  BY <1>1, <1>2, PeerWith, Zenon DEF Peers
<1> HIDE DEF q
<1>5. Listed(q, SetList(q))
  BY <1>1, <1>4, ListTyped, Zenon DEF Typed
<1> QED
  BY <1>2, <1>3, <1>4, <1>5, Zenon DEF DrivenWell, Listed, Committed

\* On the relay: an upgrade under way is retried or ends.
LEMMA StayRelayedTyped ==
  ASSUME NEW p, Typed(p), p.fsm.state.tag = "Connected",
         p.fsm.state.endpoint = p.link.session, p.link.session # NoEndpoint
  PROVE  DrivenWell(p, StayRelayed(p).peer)
<1> DEFINE link == p.link
           l == [Retried(link) EXCEPT !.pending = @ \/ Due(link)]
           renewed == [p EXCEPT !.link = l]
           listed == IF link.upgrade THEN SetList(renewed) ELSE renewed
           tried == Run(listed, retry_from(listed.fsm, link.session, TRUE))
<1>1. p \in Peers /\ Bounded(p.fsm) /\ link \in Links
  BY PeerFields, Zenon DEF Typed
<1>2. Due(link) \in BOOLEAN /\ MayRetry(link) \in BOOLEAN /\ (MayRetry(link) => link.upgrade)
  BY Zenon DEF Due, MayRetry
<1>3. StayRelayed(p).peer = IF MayRetry(link) THEN tried ELSE listed
  BY Zenon DEF StayRelayed, Driven
<1>4. l \in Links /\ l.upgrade = MayRetry(link) /\ l.session = link.session
  <2> DEFINE n == IF MayRetry(link) THEN link.retries + 1 ELSE IF link.upgrade THEN 0 ELSE link.retries
  <2>1. n \in 0..UpgradeMaxRetries
    <3>1. link.retries \in 0..UpgradeMaxRetries /\ UpgradeMaxRetries \in Nat
      BY <1>1, LinkFields, LimitsAssumption, Zenon
    <3>2. MayRetry(link) => link.retries < UpgradeMaxRetries
      BY Zenon DEF MayRetry
    <3> QED
      BY <3>1, <3>2
  <2>2. Retried(link) = [link EXCEPT !.upgrade = MayRetry(link), !.retries = n]
    BY Zenon DEF Retried
  <2> HIDE DEF n
  <2>3. Retried(link) \in Links /\ Retried(link).upgrade = MayRetry(link)
        /\ Retried(link).session = link.session
    BY <1>1, <1>2, <2>1, <2>2, Zenon DEF Links
  <2> HIDE DEF link
  <2> QED
    BY <1>2, <2>3, Zenon DEF Links
<1> HIDE DEF l
<1>5. renewed \in Peers /\ renewed.fsm = p.fsm /\ renewed.link = l /\ renewed.discovered = p.discovered
  BY <1>1, <1>4, PeerWith, Zenon DEF Peers
<1> HIDE DEF renewed
<1>6. /\ Typed(listed) /\ listed.link = l /\ listed.discovered = p.discovered
      /\ listed.fsm.state = p.fsm.state
  <2>1. Listed(renewed, SetList(renewed)) /\ Typed(renewed)
    BY <1>1, <1>5, ListTyped, Zenon DEF Typed
  <2> QED
    BY <1>5, <2>1, Zenon DEF Listed
<1> HIDE DEF listed
<1>7. Retries(listed, link.session, tried)
  BY <1>6, RetryTyped, Zenon
<1>8. CASE MayRetry(link)
  <2>1. /\ Typed(tried) /\ tried.link = l /\ tried.discovered = p.discovered
        /\ tried.fsm.state.tag = "Connected" => tried.fsm.state = p.fsm.state
    BY <1>6, <1>7, Zenon DEF Retries
  <2>2. Committed(tried)
    BY <1>4, <2>1, Zenon DEF Committed, Direct
  <2> QED
    BY <1>2, <1>3, <1>8, <2>1, <2>2, Zenon DEF DrivenWell
<1>9. CASE ~MayRetry(link)
  BY <1>3, <1>4, <1>6, <1>9, Zenon DEF DrivenWell, Committed
<1> QED
  BY <1>8, <1>9, Zenon

\* drive_relay, all branches.
LEMMA DriveTyped ==
  ASSUME NEW p, Typed(p), p.link.upgrade => p.link.session # NoEndpoint
  PROVE  DrivenWell(p, drive_relay(p).peer)
<1>1. p.fsm.state.tag \in {"Probing", "Connected"}
  BY PeerFields, FsmFacts, Zenon DEF Typed
<1>2. CASE p.fsm.state.tag = "Probing"
  BY <1>2, DriveProbingTyped, Zenon DEF drive_relay
<1>3. CASE p.fsm.state.tag # "Probing" /\ p.link.session = NoEndpoint
  <2>1. drive_relay(p).peer = p
    BY <1>3, Zenon DEF drive_relay, Driven
  <2> QED
    BY <1>3, <2>1, Zenon DEF DrivenWell, Committed
<1>4. CASE p.fsm.state.tag # "Probing" /\ p.link.session # NoEndpoint
           /\ p.fsm.state.endpoint # p.link.session
  <2>1. drive_relay(p) = Release(p)
    BY <1>4, Zenon DEF drive_relay
  <2> QED
    BY <2>1, ReleaseTyped, Zenon
<1>5. CASE p.fsm.state.tag # "Probing" /\ p.link.session # NoEndpoint
           /\ p.fsm.state.endpoint = p.link.session
  <2>1. drive_relay(p) = StayRelayed(p)
    BY <1>5, Zenon DEF drive_relay
  <2> QED
    BY <1>1, <1>5, <2>1, StayRelayedTyped, Zenon
<1> QED
  BY <1>2, <1>3, <1>4, <1>5, Zenon

-----------------------------------------------------------------------------
(* A report. *)

\* A source's entries are replaced; the entries of the others stay.
LEMMA ReplaceTyped ==
  ASSUME NEW disc \in Founds, NEW report \in Reports
  PROVE  Replace(disc, report) \in Founds
<1> DEFINE S == [src : {LAN, Gossip, DHT, DDNS}, ep : Endpoints]
           before == {i \in 1..Len(disc) : disc[i].src < report.src}
           after == {i \in 1..Len(disc) : disc[i].src > report.src}
           added == [i \in 1..Len(report.eps) |-> [src |-> report.src, ep |-> report.eps[i]]]
<1>1. report.src \in {LAN, Gossip, DHT, DDNS} /\ report.eps \in Seq(Endpoints)
  <2>1. report \in [src : {LAN, Gossip, DHT, DDNS}, eps : Seq(Endpoints)]
    BY AddressesAssumption, Zenon
  <2> QED
    BY <2>1, Zenon
<1>2. added \in Seq(S)
  <2>1. Len(report.eps) \in Nat /\ \A i \in 1..Len(report.eps) : report.eps[i] \in Endpoints
    BY <1>1, EntriesTyped, Zenon
  <2>2. \A i \in 1..Len(report.eps) : [src |-> report.src, ep |-> report.eps[i]] \in S
    BY <1>1, <2>1, Zenon
  <2>3. added \in [1..Len(report.eps) -> S]
    BY <2>2, Zenon
  <2> HIDE DEF S, added
  <2> QED
    BY <2>1, <2>3, EntriesTyped, Zenon
<1>3. before \in SUBSET (1..Len(disc)) /\ after \in SUBSET (1..Len(disc)) /\ disc \in Seq(S)
  BY Zenon DEF Founds
<1>4. Replace(disc, report) = Picked(disc, before) \o added \o Picked(disc, after)
  BY Zenon DEF Replace
<1> HIDE DEF S, before, after, added
<1>5. Picked(disc, before) \in Seq(S) /\ Picked(disc, after) \in Seq(S)
  BY <1>3, PickedFacts, Zenon
<1>6. \A x, y, z \in Seq(S) : x \o y \o z \in Seq(S)
  OBVIOUS
<1>7. Replace(disc, report) \in Seq(S)
  BY <1>2, <1>4, <1>5, <1>6, Zenon
<1> QED
  BY <1>7, Zenon DEF Founds, S

\* What the reliable sources report is reported.
LEMMA ReliableIsReported ==
  ASSUME NEW disc \in Founds, NEW e, reported_by_reliable_source(disc, e)
  PROVE  Reported(disc, e)
<1> DEFINE S == [src : {LAN, Gossip, DHT, DDNS}, ep : Endpoints]
           I == {i \in 1..Len(disc) : disc[i].src # Gossip}
           auth == Authoritative(disc)
<1>1. disc \in Seq(S) /\ I \in SUBSET (1..Len(disc)) /\ auth = Picked(disc, I)
  BY Zenon DEF Founds, Authoritative
<1> HIDE DEF S, auth
<1>2. CASE Reported(auth, e)
  <2> HIDE DEF I
  <2>1. PICK k \in 1..Len(auth) : auth[k].ep = e
    BY <1>2, Zenon DEF Reported
  <2>2. \A j \in 1..Len(auth) : \E i \in I : auth[j] = disc[i]
    BY <1>1, PickedFacts, Zenon
  <2>3. PICK i \in I : auth[k] = disc[i]
    BY <2>2, Zenon
  <2> QED
    BY <1>1, <2>1, <2>3, Zenon DEF Reported
<1>3. CASE Reported(disc, e)
  BY <1>3, Zenon
<1> QED
  BY <1>2, <1>3, Zenon DEF reported_by_reliable_source, auth

\* An address that is in none of the sources is not in the list.
LEMMA NotListed ==
  ASSUME NEW p \in Peers, NEW e \in Endpoints, ~p.link.upgrade, p.link.session # e,
         p.cache.good # e, e \notin Elements(p.cache.seen),
         ~Reported(p.discovered, e), e \notin Elements(Configured)
  PROVE  e \notin Elements(candidates_for(p))
<1> DEFINE s == sources_for(p)
           seen == p.cache.seen
<1>1. CASE p.link.session # NoEndpoint
  <2>1. candidates_for(p) = <<p.link.session>>
    BY <1>1, Zenon DEF candidates_for
  <2> QED
    BY <2>1 DEF Elements
<1>2. CASE p.link.session = NoEndpoint
  <2>1. candidates_for(p) = build_candidates(s)
    BY <1>2, Zenon DEF candidates_for
  <2>2. /\ s.last_good = p.cache.good /\ s.discovered = p.discovered /\ s.configured = Configured
        /\ s.relay = p.link.session
        /\ s.cached = [i \in 1..Len(seen) |-> [ep |-> seen[i], seen |-> Len(seen) - i]]
    BY Zenon DEF sources_for
  <2>3. s \in Sources
    BY SourcesTyped, Zenon
  <2> HIDE DEF s
  <2>4. e \notin Elements(Endpoints_of(s.discovered))
    <3>1. Len(p.discovered) \in Nat
      BY PeerFields, EntriesTyped, Zenon DEF Founds
    <3>2. /\ Len(Endpoints_of(p.discovered)) = Len(p.discovered)
          /\ \A i \in 1..Len(p.discovered) : Endpoints_of(p.discovered)[i] = p.discovered[i].ep
      BY <3>1 DEF Endpoints_of
    <3>3. e \notin Elements(Endpoints_of(p.discovered))
      BY <3>2, Zenon DEF Reported, Elements
    <3> QED
      BY <2>2, <3>3, Zenon
  <2>5. e \notin Elements(Endpoints_of(s.cached))
    <3>1. seen \in Seq(Endpoints) /\ Len(seen) \in Nat
      <4>1. p.cache \in Entries
        BY PeerFields, Zenon
      <4>2. seen \in Seq(Endpoints)
        BY <4>1, Zenon DEF Entries
      <4> QED
        BY <4>2
    <3> HIDE DEF seen
    <3>2. Len(s.cached) = Len(seen) /\ \A i \in 1..Len(seen) : s.cached[i].ep = seen[i]
      BY <2>2, <3>1
    <3>3. /\ Len(Endpoints_of(s.cached)) = Len(seen)
          /\ \A i \in 1..Len(seen) : Endpoints_of(s.cached)[i] = seen[i]
      BY <3>1, <3>2 DEF Endpoints_of
    <3> QED
      BY <3>3, Zenon DEF Elements, seen
  <2>6. Rank(s, e) = 5
    <3>1. e # s.last_good /\ e \notin Elements(s.configured)
      BY <2>2, Zenon
    <3>2. e \notin {s.last_good} \cup Elements(Endpoints_of(s.discovered)) \cup Elements(s.configured)
      BY <2>4, <3>1, Zenon
    <3> QED
      BY <2>4, <2>5, <3>1, <3>2, Zenon DEF Rank
  <2> QED
    BY <2>1, <2>2, <2>3, <2>6, ListMembers, Zenon
<1> QED
  BY <1>1, <1>2, Zenon

\* q is p after a report: a direct connection is left only if its address does not
\* stay, and then it is not listed unless it is reported.
Heard(p, q) ==
  /\ Typed(q) /\ Committed(q)
  /\ Direct(p) /\ q.fsm.state.tag = "Probing" =>
       /\ ~Stays(q.discovered, p.fsm.state.endpoint)
       /\ ~Reported(q.discovered, p.fsm.state.endpoint)
            => p.fsm.state.endpoint \notin Elements(q.fsm.candidates)

\* Connected elsewhere than at the session.
LEMMA ReconsiderTyped ==
  ASSUME NEW p, Typed(p), Committed(p), Direct(p)
  PROVE  Heard(p, Reconsider(p))
<1> DEFINE e == p.fsm.state.endpoint
           evicted == [p EXCEPT !.cache = evict(@, e)]
           kept == e \in Elements(Configured) \/ reported_by_reliable_source(p.discovered, e)
           pruned == IF kept THEN p ELSE evicted
           listed == RunList(pruned)
           tried == Run(listed, retry_from(listed.fsm, e, FALSE))
<1>1. /\ p \in Peers /\ Bounded(p.fsm) /\ e \in Endpoints /\ ~p.link.upgrade
      /\ p.fsm.state.tag = "Connected" /\ e # p.link.session
      /\ p.discovered \in Founds /\ p.cache \in Entries
  BY PeerFields, FsmFacts, Zenon DEF Typed, Committed, Direct
<1>2. Reconsider(p) = IF Stays(p.discovered, e) THEN listed ELSE tried
  BY Zenon DEF Reconsider
<1>3. /\ evicted \in Peers /\ evicted.fsm = p.fsm /\ evicted.link = p.link
      /\ evicted.discovered = p.discovered /\ evicted.cache = evict(p.cache, e)
  <2>1. evict(p.cache, e) \in Entries
    BY <1>1, CacheTyped, Zenon
  <2>2. evicted = [p EXCEPT !.cache = evict(p.cache, e)]
    BY Zenon
  <2> QED
    BY <1>1, <2>1, <2>2, PeerWith, Zenon DEF Peers
<1> HIDE DEF evicted
<1>4. /\ pruned \in Peers /\ pruned.fsm = p.fsm /\ pruned.link = p.link
      /\ pruned.discovered = p.discovered
  BY <1>1, <1>3, Zenon
<1>5. ~Stays(p.discovered, e) /\ ~Reported(p.discovered, e) => e \notin Elements(candidates_for(pruned))
  <2> SUFFICES ASSUME ~Stays(p.discovered, e), ~Reported(p.discovered, e)
               PROVE  e \notin Elements(candidates_for(pruned))
    BY Zenon
  <2>1. e \notin Elements(Configured)
    BY Zenon DEF Stays
  <2>2. ~kept
    BY <1>1, <2>1, ReliableIsReported, Zenon
  <2>3. evict(p.cache, e).good # e
    BY <1>1, NoEndpointAssumption, Zenon DEF evict
  <2>4. e \notin Elements(evict(p.cache, e).seen)
    <3>1. p.cache.seen \in Seq(Endpoints)
      BY <1>1, Zenon DEF Entries
    <3>2. evict(p.cache, e).seen = Without(p.cache.seen, e)
      BY Zenon DEF evict
    <3> QED
      BY <1>1, <3>1, <3>2, HistoryTyped, Zenon
  <2>5. e \notin Elements(candidates_for(evicted))
    <3> HIDE DEF e
    <3> QED
      BY <1>1, <1>3, <2>1, <2>3, <2>4, NotListed, Zenon
  <2> QED
    BY <2>2, <2>5, Zenon
<1> HIDE DEF pruned, e
<1>6. Listed(pruned, listed)
  BY <1>1, <1>4, ListTyped, Zenon DEF Typed
<1> HIDE DEF listed
<1>7. Retries(listed, e, tried)
  BY <1>6, RetryTyped, Zenon DEF Listed
<1> HIDE DEF tried
<1>8. CASE Stays(p.discovered, e)
  <2>1. Typed(listed) /\ listed.link = p.link /\ listed.fsm.state = p.fsm.state
    BY <1>1, <1>4, <1>6, Zenon DEF Listed
  <2> QED
    BY <1>1, <1>2, <1>8, <2>1, Zenon DEF Heard, Committed
<1>9. CASE ~Stays(p.discovered, e)
  <2>1. /\ Typed(tried) /\ tried.link = p.link /\ tried.discovered = p.discovered
        /\ tried.fsm.candidates = candidates_for(pruned)
    BY <1>4, <1>6, <1>7, Zenon DEF Listed, Retries
  <2> QED
    BY <1>1, <1>2, <1>5, <1>9, <2>1, Zenon DEF Heard, Committed, e
<1> QED
  BY <1>8, <1>9, Zenon

\* On the relay: an upgrade opens and the relay is left.
LEMMA TryUpgradeTyped ==
  ASSUME NEW p, Typed(p), p.fsm.state.tag = "Connected", p.fsm.state.endpoint = p.link.session
  PROVE  Heard(p, TryUpgrade(p))
<1> DEFINE l == [p.link EXCEPT !.upgrade = TRUE, !.retries = 0]
           o == [p EXCEPT !.link = l]
           opened == RunList(o)
           tried == Run(opened, retry_from(opened.fsm, p.link.session, TRUE))
<1>1. p \in Peers /\ Bounded(p.fsm) /\ p.link \in Links /\ p.fsm.state.endpoint \in Endpoints
  BY PeerFields, FsmFacts, Zenon DEF Typed
<1>2. l \in Links /\ l.session = p.link.session
  <2>1. 0 \in 0..UpgradeMaxRetries
    BY LimitsAssumption
  <2> QED
    BY <1>1, <2>1, Zenon DEF Links
<1>3. TryUpgrade(p) = tried
  BY Zenon DEF TryUpgrade
<1> HIDE DEF l
<1>4. o \in Peers /\ o.fsm = p.fsm /\ o.link = l
  BY <1>1, <1>2, PeerWith, Zenon DEF Peers
<1> HIDE DEF o
<1>5. Listed(o, opened)
  BY <1>1, <1>4, ListTyped, Zenon DEF Typed
<1> HIDE DEF opened
<1>6. Retries(opened, p.link.session, tried)
  BY <1>5, RetryTyped, Zenon DEF Listed
<1> HIDE DEF tried
<1>7. /\ Typed(tried) /\ tried.link = l
      /\ tried.fsm.state.tag = "Connected" => tried.fsm.state = p.fsm.state
  BY <1>4, <1>5, <1>6, Zenon DEF Listed, Retries
<1>8. Committed(tried)
  BY <1>1, <1>2, <1>7, NoEndpointAssumption, Zenon DEF Committed, Direct
<1> QED
  BY <1>3, <1>7, <1>8, Zenon DEF Heard, Direct

\* on_discovered, all branches.
LEMMA DiscoveredTyped ==
  ASSUME NEW p, Typed(p), Committed(p), NEW report \in Reports
  PROVE  Heard(p, on_discovered(p, report))
<1> DEFINE q == [p EXCEPT !.discovered = Replace(@, report)]
<1>1. p \in Peers /\ p.discovered \in Founds /\ p.fsm.state.tag \in {"Probing", "Connected"}
  BY PeerFields, FsmFacts, Zenon DEF Typed
<1>2. q \in Peers /\ q.fsm = p.fsm /\ q.link = p.link
  <2>1. Replace(p.discovered, report) \in Founds
    BY <1>1, ReplaceTyped, Zenon
  <2> QED
    BY <1>1, <2>1, PeerWith, Zenon DEF Peers
<1>3. on_discovered(p, report) = IF q.fsm.state.tag = "Probing" THEN RunList(q)
                                 ELSE IF q.fsm.state.endpoint = q.link.session THEN TryUpgrade(q)
                                 ELSE Reconsider(q)
  BY Zenon DEF on_discovered
<1> HIDE DEF q
<1>4. Typed(q) /\ Committed(q) /\ (Direct(q) <=> Direct(p))
  BY <1>2, Zenon DEF Typed, Committed, Direct
<1>5. CASE q.fsm.state.tag = "Probing"
  <2>1. Listed(q, RunList(q))
    BY <1>4, ListTyped, Zenon
  <2>2. Typed(RunList(q)) /\ RunList(q).link = q.link /\ RunList(q).fsm.state.tag = "Probing"
    BY <1>5, <2>1, Zenon DEF Listed
  <2>3. ~Direct(p)
    BY <1>2, <1>5, Zenon DEF Direct
  <2> QED
    BY <1>3, <1>4, <1>5, <2>2, <2>3, Zenon DEF Heard, Committed, Direct
<1>6. CASE q.fsm.state.tag # "Probing" /\ q.fsm.state.endpoint = q.link.session
  <2>1. Heard(q, TryUpgrade(q))
    BY <1>1, <1>2, <1>4, <1>6, TryUpgradeTyped, Zenon
  <2> QED
    BY <1>2, <1>3, <1>4, <1>6, <2>1, Zenon DEF Heard
<1>7. CASE q.fsm.state.tag # "Probing" /\ q.fsm.state.endpoint # q.link.session
  <2>1. Direct(q)
    BY <1>1, <1>2, <1>7, Zenon DEF Direct
  <2>2. Heard(q, Reconsider(q))
    BY <1>4, <2>1, ReconsiderTyped, Zenon
  <2> QED
    BY <1>2, <1>3, <1>4, <1>7, <2>2, Zenon DEF Heard
<1> QED
  BY <1>5, <1>6, <1>7, Zenon

-----------------------------------------------------------------------------
(* The result of a registration, and the tick. *)

\* A result changes the session; only a connection through the old one is left.
LEMMA RegisteredTyped ==
  ASSUME NEW p, Typed(p), Committed(p), NEW session \in Sessions
  PROVE  LET q == on_relay_registered(p, session)
         IN  /\ Typed(q) /\ Committed(q) /\ q.discovered = p.discovered
             /\ Direct(p) => q.fsm.state.tag = "Connected"
<1> DEFINE link == [p.link EXCEPT !.pending = FALSE]
           previous == p.link.session
           lf == [link EXCEPT !.cool = RetryCooldown]
           ls == [link EXCEPT !.regAge = 0, !.cool = 0]
           lo == [link EXCEPT !.session = session, !.regAge = 0, !.cool = 0]
           failed == [p EXCEPT !.link = lf]
           same == [p EXCEPT !.link = ls]
           other == [p EXCEPT !.link = lo]
           listed == RunList(other)
           tried == Run(listed, retry_from(listed.fsm, previous, FALSE))
           r == on_relay_registered(p, session)
           Good(q) == /\ Typed(q) /\ Committed(q) /\ q.discovered = p.discovered
                      /\ Direct(p) => q.fsm.state.tag = "Connected"
<1>1. /\ p \in Peers /\ Bounded(p.fsm) /\ p.link \in Links
      /\ p.fsm.state.tag \in {"Probing", "Connected"}
  BY PeerFields, FsmFacts, Zenon DEF Typed
<1>2. /\ lf \in Links /\ lf.session = previous /\ lf.upgrade = p.link.upgrade
      /\ ls \in Links /\ ls.session = previous /\ ls.upgrade = p.link.upgrade
      /\ lo \in Links /\ lo.session = session /\ lo.upgrade = p.link.upgrade
  <2>1. /\ 0 \in 0..RegisterInterval /\ 0 \in 0..RetryCooldown
        /\ RetryCooldown \in 0..RetryCooldown
    BY IntervalsAssumption
  <2>2. session \in Relays \cup {NoEndpoint}
    BY Zenon DEF Sessions
  <2>3. link \in Links /\ link.session = previous /\ link.upgrade = p.link.upgrade
    BY <1>1, Zenon DEF Links
  <2> HIDE DEF link
  <2> QED
    BY <2>1, <2>2, <2>3, Zenon DEF Links
<1>3. r = IF session = NoEndpoint THEN failed
          ELSE IF session = previous THEN same
          ELSE IF previous # NoEndpoint /\ listed.fsm.state.tag = "Connected"
                  /\ listed.fsm.state.endpoint = previous
            THEN tried
          ELSE listed
  BY Zenon DEF on_relay_registered
<1> HIDE DEF lf, ls, lo, r
<1> SUFFICES Good(r)
  BY Zenon DEF r
<1>4. /\ failed \in Peers /\ failed.fsm = p.fsm /\ failed.link = lf /\ failed.discovered = p.discovered
      /\ same \in Peers /\ same.fsm = p.fsm /\ same.link = ls /\ same.discovered = p.discovered
      /\ other \in Peers /\ other.fsm = p.fsm /\ other.link = lo /\ other.discovered = p.discovered
  BY <1>1, <1>2, PeerWith, Zenon DEF Peers
<1> HIDE DEF failed, same, other
<1>5. Good(failed) /\ Good(same)
  BY <1>1, <1>2, <1>4, Zenon DEF Typed, Committed, Direct
<1>6. Listed(other, listed)
  BY <1>1, <1>4, ListTyped, Zenon DEF Typed
<1> HIDE DEF listed, previous
<1>7. Retries(listed, previous, tried)
  BY <1>6, RetryTyped, Zenon DEF Listed
<1> HIDE DEF tried
<1>8. /\ Typed(listed) /\ listed.link = lo /\ listed.discovered = p.discovered
      /\ listed.fsm.candidates = candidates_for(other)
      /\ listed.fsm.state.tag = p.fsm.state.tag
      /\ p.fsm.state.tag = "Connected" => listed.fsm.state = p.fsm.state
  BY <1>4, <1>6, Zenon DEF Listed
<1>9. CASE session # NoEndpoint /\ session # previous
  <2>1. CASE previous # NoEndpoint /\ listed.fsm.state.tag = "Connected"
             /\ listed.fsm.state.endpoint = previous
    <3>1. session \in Elements(candidates_for(other))
      <4>1. CASE lo.upgrade
        <5>1. sources_for(other) \in Sources /\ sources_for(other).relay = session
          BY <1>2, <1>4, SourcesTyped, Zenon DEF sources_for
        <5>2. candidates_for(other) = build_candidates(sources_for(other))
          BY <1>4, <4>1, Zenon DEF candidates_for
        <5> QED
          BY <1>9, <5>1, <5>2, ListMembers, Zenon
      <4>2. CASE ~lo.upgrade
        <5>1. candidates_for(other) = <<session>>
          BY <1>2, <1>4, <1>9, <4>2, Zenon DEF candidates_for
        <5> QED
          BY <5>1 DEF Elements
      <4> QED
        BY <4>1, <4>2, Zenon
    <3>2. tried.fsm.state.tag = "Probing"
      BY <1>7, <1>8, <1>9, <3>1, Zenon DEF Retries
    <3>3. ~Direct(p)
      BY <1>8, <2>1, Zenon DEF Direct, previous
    <3>4. Typed(tried) /\ tried.link = lo /\ tried.discovered = p.discovered
      BY <1>7, <1>8, Zenon DEF Retries
    <3>5. Good(tried)
      BY <1>2, <1>9, <3>2, <3>3, <3>4, Zenon DEF Committed, Direct
    <3> QED
      BY <1>3, <1>9, <2>1, <3>5, Zenon
  <2>2. CASE ~(previous # NoEndpoint /\ listed.fsm.state.tag = "Connected"
               /\ listed.fsm.state.endpoint = previous)
    <3>1. p.fsm.state.tag = "Connected" => p.fsm.state.endpoint \in Endpoints
      BY <1>1, PeerFields, FsmFacts, Zenon
    <3>2. p.fsm.state.tag = "Connected" => Direct(p)
      BY <1>8, <2>2, <3>1, NoEndpointAssumption, Zenon DEF Direct, previous
    <3>3. Committed(listed)
      BY <1>2, <1>8, <1>9, <3>2, Zenon DEF Committed, Direct
    <3>4. Good(listed)
      BY <1>8, <3>3, Zenon DEF Direct
    <3> QED
      BY <1>3, <1>9, <2>2, <3>4, Zenon
  <2> QED
    BY <2>1, <2>2, Zenon
<1>10. CASE session = NoEndpoint \/ session = previous
  BY <1>3, <1>5, <1>10, Zenon
<1> QED
  BY <1>9, <1>10, Zenon

\* One more tick on the clocks.
LEMMA AgedTyped ==
  ASSUME NEW p, Typed(p)
  PROVE  LET q == Aged(p)
         IN  /\ Typed(q) /\ q.fsm = p.fsm /\ q.discovered = p.discovered
             /\ q.link.session = p.link.session /\ q.link.upgrade = p.link.upgrade
             /\ p.kernel.hsAge + 1 < HandshakeFresh => q.kernel.hsAge < HandshakeFresh
<1> DEFINE rot == Min({p.rotAge + 1, RotateInterval})
           hs == Min({p.kernel.hsAge + 1, HandshakeFresh})
           reg == Min({p.link.regAge + 1, RegisterInterval})
           cool == Max({p.link.cool - 1, 0})
           k == [p.kernel EXCEPT !.hsAge = hs]
           l == [[p.link EXCEPT !.regAge = reg] EXCEPT !.cool = cool]
           q == Aged(p)
<1>1. /\ p \in Peers /\ Bounded(p.fsm) /\ p.rotAge \in 0..RotateInterval
      /\ p.kernel \in Kernels /\ p.link \in Links
  BY PeerFields, Zenon DEF Typed
<1>2. /\ p.kernel.hsAge \in 0..HandshakeFresh
      /\ p.link.regAge \in 0..RegisterInterval /\ p.link.cool \in 0..RetryCooldown
  BY <1>1, LinkFields, Zenon DEF Kernels
<1>3. \A m, n \in Nat : Min({m, n}) \in {m, n} /\ Min({m, n}) =< n
  BY MinOfTwo, Zenon
<1>4. /\ rot \in 0..RotateInterval /\ hs \in 0..HandshakeFresh /\ reg \in 0..RegisterInterval
      /\ p.kernel.hsAge + 1 < HandshakeFresh => hs < HandshakeFresh
  <2>1. ASSUME NEW n \in Nat, NEW m \in 0..n
        PROVE  Min({m + 1, n}) \in 0..n /\ (m + 1 < n => Min({m + 1, n}) < n)
    <3>1. m + 1 \in Nat
      OBVIOUS
    <3>2. Min({m + 1, n}) \in {m + 1, n} /\ Min({m + 1, n}) =< n
      BY <1>3, <3>1, Zenon
    <3>3. m + 1 < n => Min({m + 1, n}) = m + 1
      <4>1. ASSUME m + 1 < n PROVE Min({m + 1, n}) = m + 1
        <5>1. \E x \in {m + 1, n} : \A y \in {m + 1, n} : x =< y
          BY <4>1
        <5>2. \A y \in {m + 1, n} : Min({m + 1, n}) =< y
          BY <5>1, Zenon DEF Min
        <5> QED
          BY <3>2, <4>1, <5>2
      <4> QED
        BY <4>1, Zenon
    <3> QED
      BY <3>1, <3>2, <3>3
  <2>2. RotateInterval \in Nat /\ HandshakeFresh \in Nat /\ RegisterInterval \in Nat
    BY IntervalsAssumption, Zenon
  <2> QED
    BY <1>1, <1>2, <2>1, <2>2, Zenon
<1>5. cool \in 0..RetryCooldown
  <2>1. RetryCooldown \in Nat /\ p.link.cool - 1 \in Int
    BY <1>2, IntervalsAssumption
  <2>2. \E x \in {p.link.cool - 1, 0} : \A y \in {p.link.cool - 1, 0} : x >= y
    BY <1>2
  <2>3. cool \in {p.link.cool - 1, 0} /\ cool >= 0
    BY <2>2, Zenon DEF Max
  <2> HIDE DEF cool
  <2> QED
    BY <1>2, <2>1, <2>3, SMTT(30)
<1>6. q = [p EXCEPT !.rotAge = rot, !.kernel = k, !.link = l]
  BY Zenon DEF Aged
<1> HIDE DEF rot, hs, reg, cool, q
<1>7. k \in Kernels /\ k.hsAge = hs
  BY <1>1, <1>4, Zenon DEF Kernels
<1>8. l \in Links /\ l.session = p.link.session /\ l.upgrade = p.link.upgrade
  BY <1>1, <1>4, <1>5, Zenon DEF Links
<1> HIDE DEF k, l
<1>9. /\ q \in Peers /\ q.fsm = p.fsm /\ q.discovered = p.discovered /\ q.link = l /\ q.kernel = k
  BY <1>1, <1>4, <1>6, <1>7, <1>8, Zenon DEF Peers, Kernels
<1> QED
  BY <1>1, <1>4, <1>7, <1>8, <1>9, Zenon DEF Typed, q

\* tick_once: a direct connection with a fresh handshake goes on.
LEMMA TickTyped ==
  ASSUME NEW p, Typed(p), Committed(p)
  PROVE  LET a == Aged(p)
             q == drive_relay(Run(a, tick(a.fsm, Observed(a), a.rotAge >= RotateInterval))).peer
         IN  /\ Typed(q) /\ Committed(q) /\ q.discovered = p.discovered
             /\ Direct(p) /\ p.kernel.hsAge + 1 < HandshakeFresh => q.fsm.state.tag = "Connected"
<1> DEFINE a == Aged(p)
           obs == Observed(a)
           due == a.rotAge >= RotateInterval
           out == tick(a.fsm, obs, due)
           ran == Run(a, out)
           q == drive_relay(ran).peer
<1>1. /\ Typed(a) /\ a.fsm = p.fsm /\ a.discovered = p.discovered
      /\ a.link.session = p.link.session /\ a.link.upgrade = p.link.upgrade
      /\ p.kernel.hsAge + 1 < HandshakeFresh => a.kernel.hsAge < HandshakeFresh
  BY AgedTyped, Zenon
<1> HIDE DEF a
<1>2. a \in Peers /\ a.fsm \in Fsms /\ Bounded(a.fsm) /\ a.kernel \in Kernels
  BY <1>1, PeerFields, Zenon DEF Typed
<1>3. /\ obs.ep \in Endpoints \cup {NoEndpoint} /\ due \in BOOLEAN
      /\ obs.fresh = (a.kernel.hsAge < HandshakeFresh)
  <2>1. a.kernel.ep \in Endpoints \cup {NoEndpoint}
    BY <1>2, Zenon DEF Kernels
  <2>2. obs = [fresh |-> a.kernel.hsAge < HandshakeFresh, after |-> a.hsAfter, ep |-> a.kernel.ep]
    BY Zenon DEF Observed
  <2>3. due \in BOOLEAN
    OBVIOUS
  <2> HIDE DEF obs, due
  <2> QED
    BY <2>1, <2>2, <2>3, Zenon
<1> HIDE DEF obs, due
<1>4. Sound(a.fsm, out)
  BY <1>2, <1>3, TickSound, Zenon
<1>5. a.fsm.state.tag = "Connected" /\ obs.fresh => out.fsm.state.tag = "Connected"
  BY Zenon DEF tick, TickConnected, Outcome, Nothing, Connected
<1> HIDE DEF out
<1>6. Ran(a, out, ran)
  BY <1>2, <1>4, RunTyped, Zenon
<1> HIDE DEF ran
<1>7. /\ Typed(ran) /\ ran.fsm = out.fsm /\ ran.link = a.link /\ ran.discovered = p.discovered
      /\ ran.link.upgrade => ran.link.session # NoEndpoint
  BY <1>1, <1>6, Zenon DEF Ran, Committed
<1>8. DrivenWell(ran, q)
  BY <1>7, DriveTyped, Zenon
<1> HIDE DEF q
<1>9. Direct(p) /\ p.kernel.hsAge + 1 < HandshakeFresh => q.fsm.state.tag = "Connected"
  BY <1>1, <1>3, <1>5, <1>7, <1>8, Zenon DEF DrivenWell, Direct, Committed
<1> QED
  BY <1>7, <1>8, <1>9, Zenon DEF DrivenWell, q, ran, out, obs, due, a

-----------------------------------------------------------------------------
(***************************************************************************)
(* The inductive invariant of the types and of the two action properties:   *)
(* with IInv, the machine is well formed and an upgrade belongs to a        *)
(* session.                                                                 *)
(***************************************************************************)
LinkInv == IInv /\ TypeOK /\ Typed(peer) /\ Committed(peer)

\* What a step does to the peer: a direct connection is left because a report no
\* longer has its address, or because its handshake is not fresh.
StepWell ==
  /\ Typed(peer') /\ Committed(peer')
  /\ Direct(peer) /\ Leaves =>
       \/ /\ ~Stays(peer'.discovered, peer.fsm.state.endpoint)
          /\ ~Reported(peer'.discovered, peer.fsm.state.endpoint)
               => peer.fsm.state.endpoint \notin Elements(peer'.fsm.candidates)
       \/ /\ peer'.discovered = peer.discovered
          /\ ~(peer.kernel.hsAge + 1 < HandshakeFresh)

\* The invariant holds when the daemon starts.
LEMMA InitTyped == Init => LinkInv
<1> SUFFICES ASSUME Init PROVE LinkInv
  BY Zenon
<1>1. PICK c \in Caches :
        LET p == [fsm |-> new(<<>>), rotAge |-> 0, discovered |-> <<>>, link |-> NoLink, cache |-> c,
                  kernel |-> [ep |-> Get(Configured, 0), hsAge |-> HandshakeFresh],
                  hsAfter |-> FALSE]
            started == [p EXCEPT !.fsm = new(candidates_for(p))]
        IN  peer = Run(started, kick(started.fsm))
  BY Zenon DEF Init
<1> DEFINE k == [ep |-> Get(Configured, 0), hsAge |-> HandshakeFresh]
           p == [fsm |-> new(<<>>), rotAge |-> 0, discovered |-> <<>>, link |-> NoLink, cache |-> c,
                 kernel |-> k, hsAfter |-> FALSE]
           started == [p EXCEPT !.fsm = new(candidates_for(p))]
           out == kick(started.fsm)
<1>2. c \in Entries /\ NoLink \in Links /\ k \in Kernels /\ <<>> \in Founds
  <2>1. c \in Entries
    BY AddressesAssumption, Zenon DEF Entries
  <2>2. NoLink \in Links
    <3>1. /\ 0 \in 0..UpgradeMaxRetries /\ 0 \in 0..RetryCooldown
          /\ RegisterInterval \in 0..RegisterInterval
      BY IntervalsAssumption, LimitsAssumption
    <3> QED
      BY <3>1, Zenon DEF NoLink, Links
  <2>3. k \in Kernels
    <3>1. Get(Configured, 0) \in Endpoints \cup {NoEndpoint}
      BY AddressesAssumption DEF Get
    <3>2. HandshakeFresh \in 0..HandshakeFresh
      BY IntervalsAssumption
    <3> QED
      BY <3>1, <3>2, Zenon DEF Kernels
  <2>4. <<>> \in Founds
    BY DEF Founds
  <2> QED
    BY <2>1, <2>2, <2>3, <2>4, Zenon
<1>3. \A list \in Seq(Endpoints) : new(list) \in Fsms /\ Bounded(new(list)) /\ new(list).state.tag = "Probing"
  BY MaxRoundsAssumption DEF new, Probing, PunchStates, Fsms, Bounded
<1>4. peer = Run(started, out)
  BY <1>1, Zenon
<1>5. p \in Peers
  <2>1. 0 \in 0..RotateInterval /\ <<>> \in Seq(Endpoints)
    BY IntervalsAssumption
  <2>2. new(<<>>) \in Fsms
    BY <1>3, <2>1, Zenon
  <2> HIDE DEF k
  <2> QED
    BY <1>2, <2>1, <2>2, Zenon DEF Peers, Fsms, Founds, Entries, Kernels
<1>6. candidates_for(p) \in Seq(Endpoints)
  BY <1>5, SourcesTyped, Zenon
<1>7. p.link = NoLink
  BY Zenon
<1> HIDE DEF p
<1>8. /\ started \in Peers /\ started.fsm = new(candidates_for(p)) /\ started.link = NoLink
  <2>1. new(candidates_for(p)) \in Fsms
    BY <1>3, <1>6, Zenon
  <2> QED
    BY <1>5, <1>7, <2>1, PeerWith, Zenon DEF Peers
<1> HIDE DEF started
<1>9. Sound(started.fsm, out) /\ out.fsm.state = started.fsm.state
  <2>1. Sound(started.fsm, out)
    BY <1>3, <1>6, <1>8, KickSound, Zenon
  <2>2. out.fsm.state = started.fsm.state
    BY Zenon DEF kick, Outcome
  <2> QED
    BY <2>1, <2>2, Zenon
<1> HIDE DEF out
<1>10. Ran(started, out, peer)
  BY <1>4, <1>8, <1>9, RunTyped, Zenon
<1>11. Typed(peer) /\ peer.link = NoLink
  BY <1>8, <1>10, Zenon DEF Ran
<1>12. Committed(peer)
  <2>1. NoLink.upgrade = FALSE
    BY Zenon DEF NoLink
  <2> QED
    BY <1>11, <2>1, Zenon DEF Committed
<1>13. TypeOK
  <2>1. live \subseteq Endpoints /\ changes \in 0..MaxChanges
    BY AddressesAssumption, LimitsAssumption DEF Init
  <2>2. beat \in BOOLEAN
    BY Zenon DEF Init
  <2>3. jobs \in Nat /\ results \in Seq(Sessions) /\ srv \in Sessions
    BY DEF Init, Sessions
  <2> QED
    BY <1>11, <2>1, <2>2, <2>3, Zenon DEF TypeOK, Typed
<1> QED
  BY <1>11, <1>12, <1>13, InitSound, Zenon DEF LinkInv

\* A step that leaves the machine and the link alone.
LEMMA PeerQuiet ==
  ASSUME LinkInv, peer' \in Peers, peer'.fsm = peer.fsm,
         peer'.link.session = peer.link.session, peer'.link.upgrade = peer.link.upgrade
  PROVE  StepWell
<1>1. Typed(peer') /\ Committed(peer')
  BY Zenon DEF LinkInv, Typed, Committed, Direct
<1>2. ~Leaves
  BY Zenon DEF Leaves
<1> QED
  BY <1>1, <1>2, Zenon DEF StepWell

\* Every step, in terms of the peer.
LEMMA EveryStep ==
  ASSUME LinkInv, [Next]_vars
  PROVE  StepWell
<1>0. /\ Typed(peer) /\ Committed(peer) /\ peer \in Peers /\ results \in Seq(Sessions)
      /\ srv \in Sessions /\ live \subseteq Endpoints
  BY Zenon DEF LinkInv, TypeOK, Typed
<1>1. CASE tick_once
  <2>1. /\ Typed(peer') /\ Committed(peer') /\ peer'.discovered = peer.discovered
        /\ Direct(peer) /\ peer.kernel.hsAge + 1 < HandshakeFresh => peer'.fsm.state.tag = "Connected"
    <3>1. peer' = drive_relay(Run(Aged(peer), tick(Aged(peer).fsm, Observed(Aged(peer)),
                                                  Aged(peer).rotAge >= RotateInterval))).peer
      BY <1>1, Zenon DEF tick_once
    <3> QED
      BY <1>0, <3>1, TickTyped, Zenon
  <2>2. Leaves => peer'.fsm.state.tag = "Probing"
    BY Zenon DEF Leaves
  <2>3. ~("Probing" = "Connected")
    BY Zenon
  <2> QED
    BY <2>1, <2>2, <2>3, Zenon DEF StepWell
<1>2. CASE SkippedTick
  <2>1. peer' = Aged(peer)
    BY <1>2, Zenon DEF SkippedTick
  <2>2. /\ Typed(Aged(peer)) /\ Aged(peer).fsm = peer.fsm
        /\ Aged(peer).link.session = peer.link.session /\ Aged(peer).link.upgrade = peer.link.upgrade
    BY <1>0, AgedTyped, Zenon
  <2> QED
    BY <2>1, <2>2, PeerQuiet, Zenon DEF Typed
<1>3. CASE OnRelayRegistered
  <2>1. results # <<>> /\ peer' = on_relay_registered(peer, Head(results))
    BY <1>3, Zenon DEF OnRelayRegistered
  <2>2. Head(results) \in Sessions
    BY <1>0, <2>1
  <2>3. /\ Typed(peer') /\ Committed(peer')
        /\ Direct(peer) => peer'.fsm.state.tag = "Connected"
    BY <1>0, <2>1, <2>2, RegisteredTyped, Zenon
  <2>4. Leaves => peer'.fsm.state.tag = "Probing"
    BY Zenon DEF Leaves
  <2>5. ~("Probing" = "Connected")
    BY Zenon
  <2> QED
    BY <2>3, <2>4, <2>5, Zenon DEF StepWell
<1>4. CASE OnDiscovered
  <2>1. PICK report \in Reports : peer' = on_discovered(peer, report)
    BY <1>4, Zenon DEF OnDiscovered
  <2>2. Heard(peer, peer')
    BY <1>0, <2>1, DiscoveredTyped, Zenon
  <2>3. Leaves => peer'.fsm.state.tag = "Probing"
    BY Zenon DEF Leaves
  <2> QED
    BY <2>2, <2>3, Zenon DEF StepWell, Heard
<1>5. CASE Kick
  <2> DEFINE out == kick(peer.fsm)
  <2>1. peer' = Run(peer, out)
    BY <1>5, Zenon DEF Kick
  <2>2. Sound(peer.fsm, out) /\ out.fsm.state = peer.fsm.state
    <3>1. peer.fsm \in Fsms /\ Bounded(peer.fsm)
      BY <1>0, PeerFields, Zenon DEF Typed
    <3>2. out.fsm.state = peer.fsm.state
      BY Zenon DEF kick, Outcome
    <3> QED
      BY <3>1, <3>2, KickSound, Zenon
  <2> HIDE DEF out
  <2>3. Ran(peer, out, peer')
    BY <1>0, <2>1, <2>2, RunTyped, Zenon
  <2>4. Typed(peer') /\ peer'.fsm.state = peer.fsm.state /\ peer'.link = peer.link
    BY <2>2, <2>3, Zenon DEF Ran
  <2>5. Committed(peer')
    BY <1>0, <2>4, Zenon DEF Committed, Direct
  <2>6. ~Leaves
    BY <2>4, Zenon DEF Leaves
  <2> QED
    BY <2>4, <2>5, <2>6, Zenon DEF StepWell
<1>6. CASE RegisterAnswered \/ RegisterTimesOut \/ RelayForgets \/ Renumber \/ UNCHANGED vars
  <2>1. peer' = peer
    BY <1>6, Zenon DEF RegisterAnswered, RegisterTimesOut, RelayForgets, Renumber, vars
  <2> QED
    BY <1>0, <2>1, PeerQuiet, Zenon
<1>7. CASE InboundHandshake \/ EarlyHandshake \/ OutboundHandshake \/ Roam
  <2>1. Reachable \subseteq Endpoints /\ Early \subseteq Endpoints
    BY <1>0, RelaysAssumption, Zenon DEF Reachable, Early, Sessions
  <2>2. \E e \in Endpoints :
          \/ peer' = [peer EXCEPT !.kernel = [ep |-> e, hsAge |-> 0], !.hsAfter = TRUE]
          \/ peer' = [peer EXCEPT !.kernel.ep = e]
    BY <1>7, <2>1, Zenon DEF InboundHandshake, EarlyHandshake, OutboundHandshake, Roam, Handshake
  <2>3. PICK e \in Endpoints :
          \/ peer' = [peer EXCEPT !.kernel = [ep |-> e, hsAge |-> 0], !.hsAfter = TRUE]
          \/ peer' = [peer EXCEPT !.kernel.ep = e]
    BY <2>2, Zenon
  <2>4. 0 \in 0..HandshakeFresh
    BY IntervalsAssumption
  <2>5. /\ [ep |-> e, hsAge |-> 0] \in Kernels
        /\ [peer.kernel EXCEPT !.ep = e] \in Kernels
    <3>1. peer.kernel \in Kernels
      BY <1>0, PeerFields, Zenon
    <3> QED
      BY <2>4, <3>1, Zenon DEF Kernels
  <2>6. \E k \in Kernels : \/ peer' = [peer EXCEPT !.kernel = k, !.hsAfter = TRUE]
                            \/ peer' = [peer EXCEPT !.kernel = k]
    BY <2>3, <2>5, Zenon
  <2>7. peer' \in Peers /\ peer'.fsm = peer.fsm /\ peer'.link = peer.link
    <3>1. PICK k \in Kernels : \/ peer' = [peer EXCEPT !.kernel = k, !.hsAfter = TRUE]
                               \/ peer' = [peer EXCEPT !.kernel = k]
      BY <2>6, Zenon
    <3>2. peer \in Peers
      BY <1>0, Zenon DEF Typed
    <3>3. CASE peer' = [peer EXCEPT !.kernel = k, !.hsAfter = TRUE]
      BY <3>2, <3>3, Zenon DEF Peers, Kernels
    <3>4. CASE peer' = [peer EXCEPT !.kernel = k]
      BY <3>2, <3>4, Zenon DEF Peers, Kernels
    <3> QED
      BY <3>1, <3>3, <3>4, Zenon
  <2> QED
    BY <2>7, PeerQuiet, Zenon
<1> QED
  BY <1>1, <1>2, <1>3, <1>4, <1>5, <1>6, <1>7, Zenon DEF Next

\* Every step keeps the invariant.
LEMMA NextTyped ==
  ASSUME LinkInv, [Next]_vars
  PROVE  LinkInv'
<1>1. IInv' /\ StepWell
  BY NextKeeps, EveryStep, Zenon DEF LinkInv
<1>2. /\ Typed(peer') /\ Committed(peer') /\ peer' \in Peers
      /\ jobs' \in Nat /\ results' \in Seq(Sessions) /\ srv' \in Sessions
  BY <1>1, Zenon DEF IInv, StepWell, Typed
<1>3. live' \in SUBSET Endpoints
  <2>1. live \in SUBSET Endpoints
    BY Zenon DEF LinkInv, TypeOK
  <2>2. live' = live \/ live' \in LiveSets
    BY Zenon DEF Next, tick_once, SkippedTick, OnRelayRegistered, OnDiscovered, Kick,
                 RegisterAnswered, RegisterTimesOut, RelayForgets, InboundHandshake,
                 EarlyHandshake, OutboundHandshake, Roam, Renumber, Handshake, vars
  <2> QED
    BY <2>1, <2>2, AddressesAssumption, Zenon
<1>4. beat' \in BOOLEAN
  <2>1. beat \in BOOLEAN
    BY Zenon DEF LinkInv, TypeOK
  <2>2. beat' = beat \/ beat' = ~beat
    BY Zenon DEF Next, tick_once, SkippedTick, OnRelayRegistered, OnDiscovered, Kick,
                 RegisterAnswered, RegisterTimesOut, RelayForgets, InboundHandshake,
                 EarlyHandshake, OutboundHandshake, Roam, Renumber, Handshake, vars
  <2> QED
    BY <2>1, <2>2, Zenon
<1>5. changes' \in 0..MaxChanges
  <2>1. changes \in 0..MaxChanges /\ MaxChanges \in Nat
    BY LimitsAssumption, Zenon DEF LinkInv, TypeOK
  <2>2. changes' = changes \/ (changes < MaxChanges /\ changes' = changes + 1)
    BY Zenon DEF Next, tick_once, SkippedTick, OnRelayRegistered, OnDiscovered, Kick,
                 RegisterAnswered, RegisterTimesOut, RelayForgets, InboundHandshake,
                 EarlyHandshake, OutboundHandshake, Roam, Renumber, Handshake, vars, Spend
  <2> QED
    BY <2>1, <2>2
<1> QED
  BY <1>1, <1>2, <1>3, <1>4, <1>5, Zenon DEF LinkInv, TypeOK

\* What the handlers maintain between them about one peer and its link.
THEOREM LinkAlwaysSound == Spec => []LinkSound
<1>1. LinkInv => LinkSound
  BY Zenon DEF LinkInv, IInv, Alone, RelayOnlyList, LinkSound
<1> QED
  BY <1>1, InitTyped, NextTyped, PTL DEF Spec

\* A direct connection whose handshake is fresh is not interrupted, unless its
\* address is neither configured nor reported by LAN, DHT or DDNS.
THEOREM HealthyConnectionAlwaysKept == Spec => HealthyConnectionKept
<1>1. LinkInv /\ [Next]_vars =>
        [Direct(peer) /\ Leaves /\ peer.kernel.hsAge + 1 < HandshakeFresh
           => /\ peer.fsm.state.endpoint \notin Elements(Configured)
              /\ ~still_reported_by_authoritative_source(peer'.discovered, peer.fsm.state.endpoint)]_vars
  <2> SUFFICES ASSUME LinkInv, [Next]_vars, Direct(peer), Leaves,
                      peer.kernel.hsAge + 1 < HandshakeFresh
               PROVE  ~Stays(peer'.discovered, peer.fsm.state.endpoint)
    BY Zenon DEF Stays
  <2> QED
    BY EveryStep, Zenon DEF StepWell
<1> QED
  BY <1>1, InitTyped, NextTyped, PTL DEF Spec, HealthyConnectionKept

\* An address that is left because nobody reports it is not a candidate any more.
THEOREM DeadAddressNeverListed == Spec => DeadAddressNotListed
<1>1. LinkInv /\ [Next]_vars =>
        [Direct(peer) /\ Leaves /\ peer'.discovered # peer.discovered
           /\ ~Reported(peer'.discovered, peer.fsm.state.endpoint)
           => peer.fsm.state.endpoint \notin Elements(peer'.fsm.candidates)]_vars
  BY EveryStep, Zenon DEF StepWell
<1> QED
  BY <1>1, InitTyped, NextTyped, PTL DEF Spec, DeadAddressNotListed
=============================================================================
