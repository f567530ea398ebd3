------------------------------- MODULE RelayNet -------------------------------
(***************************************************************************)
(* A relay (relay_server.rs) and the clients of its pairs (relay_client.rs) *)
(* over a network that loses, delays, reorders and duplicates datagrams.    *)
(* The server is one control task, with the table of sessions, and one      *)
(* forwarding task per session, fed through a bounded channel.  A client    *)
(* registers from a new socket each time, so an answer never reaches a later *)
(* registration.                                                            *)
(*                                                                          *)
(* Time is counted in ticks, as ages of sessions, registrations and frames.  *)
(***************************************************************************)
EXTENDS Budget, RelayWire, FiniteSets, FiniteSetsExt

CONSTANTS Links,            \* <<self, peer>>: who registers for which pair
          Homes,            \* node -> the IPv6 addresses it may have
          WgPort,           \* the listen_port of every node
          Ports,            \* the ports the operating system may hand out
          NetworkKey,       \* relay_key
          Allowlist,        \* the nodes RelayPolicy allows
          Strays,           \* other datagrams that reach the control socket: of nodes
                            \* that register once, of other networks, old or damaged
          MaxSessions,      \* MAX_SESSIONS
          SessionTtl,       \* SESSION_TTL
          SeqSkew,          \* SEQ_SKEW_TOLERANCE_SECS
          ChannelSize,      \* capacity of a forwarder's channel
          MaxInFlight,      \* bound: requests of a link in flight; more are lost
          NoPort, NoAddr

ASSUME RelayTimes == SessionTtl \in Nat /\ SeqSkew \in Nat
ASSUME RelayNobody == NoPort \notin Ports /\ WgPort # 0
ASSUME RelayBounds == {MaxSessions, ChannelSize} \subseteq Nat
ASSUME RelayNodes ==
  /\ \A l \in Links : l[1] \in DOMAIN Homes
  /\ \A n \in DOMAIN Homes : Homes[n] # {}
  /\ \A m \in Strays : Len(m.wire) \in Nat /\ m.wire = [i \in 1..Len(m.wire) |-> m.wire[i]]

VARIABLES
  table,     \* RelayTable: pair -> session, or NoSession
  fwd,       \* port -> the forwarding task bound to it
  cli,       \* link -> the daemon's side of it
  ip,        \* node -> its address
  net        \* requests in flight
vars == <<table, fwd, cli, ip, net, changes>>
server == <<table, fwd>>

PairOf(l) == session_key_of(l[1], l[2])
Whole == {m \in Strays : Len(m.wire) >= FrameLen}
Pairs == {PairOf(l) : l \in Links} \cup
           {session_key(decode(m.wire)) : m \in Whole}
ASSUME RelayPairs == IsFiniteSet(Pairs)
Nodes == DOMAIN Homes
Addr(i, p) == <<i, p>>
DataAddrs == {Addr(i, WgPort) : i \in UNION {Homes[n] : n \in Nodes}}
               \cup {Addr(m.src, m.wire[4]) : m \in Whole} \cup {NoAddr}

NoSession == [port |-> NoPort, addrs |-> <<NoAddr, NoAddr>>, age |-> 0]
NoTask == [key |-> <<>>, queue |-> <<>>, addrs |-> <<NoAddr, NoAddr>>]
Sessions == {k \in Pairs : table[k] # NoSession}
Running(p) == fwd[p] # NoTask

Init ==
  /\ table = [k \in Pairs |-> NoSession]
  /\ fwd = [p \in Ports |-> NoTask]
  /\ cli = [l \in Links |-> [want |-> TRUE, busy |-> FALSE, told |-> NoPort]]
  /\ ip = [n \in Nodes |-> CHOOSE i \in Homes[n] : TRUE]
  /\ net = {} /\ changes = 0

-----------------------------------------------------------------------------
(* Requests.  `src` is the sender's address. *)
Request(l, kind) ==
  [wire |-> encode([kind |-> kind, port |-> WgPort, self |-> l[1], peer |-> l[2]], NetworkKey),
   src |-> ip[l[1]], age |-> 0]
Sender(m) == <<m.wire[5], m.wire[6]>>
InFlight(l) == {m \in net : Sender(m) = l}
Send(l, kind) ==
  net' = IF Cardinality(InFlight(l)) < MaxInFlight THEN net \cup {Request(l, kind)} ELSE net

\* External: the network.
Lose == \E m \in net : net' = net \ {m} /\ UNCHANGED <<server, cli, ip, changes>>

-----------------------------------------------------------------------------
(* The client. *)
\* register_with_timeout: a first round when a registration or a renewal is due,
\* another one when RETRY_INTERVAL passes without an answer, and None when
\* REGISTER_TIMEOUT has passed.
Round(l) ==
  /\ UNCHANGED <<server, ip, changes>>
  /\ cli' = [cli EXCEPT ![l].busy = TRUE]
  /\ Send(l, "Register")
StartRegister(l) == cli[l].want /\ ~cli[l].busy /\ Round(l)
Retry(l) == cli[l].busy /\ Round(l)
TimeOut(l) ==
  /\ cli[l].busy
  /\ cli' = [cli EXCEPT ![l].busy = FALSE]
  /\ UNCHANGED <<server, ip, net, changes>>
\* The answer to f: it matches the request it answers, and gives its side the
\* session, or it is lost, or the socket it is for is closed.
Ack(f, port) == encode([f EXCEPT !.kind = "RegisterAck", !.port = port], NetworkKey)
Matches(w, l) ==
  /\ check(w, NetworkKey) = "ok"
  /\ LET f == decode(w) IN f.kind = "RegisterAck" /\ <<f.self, f.peer>> = l /\ f.port # 0
AckArrives(w) ==
  \E l \in Links :
    /\ cli[l].busy /\ Matches(w, l)
    /\ cli' = [cli EXCEPT ![l].busy = FALSE, ![l].told = decode(w).port]
\* unregister: one frame and no answer, when the direct path works; again if a
\* registration that was still running brings a session afterwards.
Unregister(l) ==
  /\ cli[l].told # NoPort
  /\ IF cli[l].want THEN Spend ELSE UNCHANGED changes
  /\ cli' = [cli EXCEPT ![l].want = FALSE, ![l].told = NoPort]
  /\ Send(l, "Unregister")
  /\ UNCHANGED <<server, ip>>
\* The direct path is lost: the daemon wants the relay again.
WantAgain(l) ==
  /\ ~cli[l].want
  /\ cli' = [cli EXCEPT ![l].want = TRUE]
  /\ UNCHANGED <<server, ip, net, changes>>

-----------------------------------------------------------------------------
(* The table of sessions. *)
Stale == {k \in Sessions : table[k].age > SessionTtl}
\* Mutant: the tasks of pruned sessions are not told.
close_forgets_sender(tasks, gone) == tasks
\* Dropping the sender: the task's recv returns None and the task ends.
close(tasks, gone) == [p \in Ports |-> IF tasks[p].key \in gone THEN NoTask ELSE tasks[p]]
prune ==
  [table |-> [k \in Pairs |-> IF k \in Stale THEN NoSession ELSE table[k]],
   fwd |-> close(fwd, Stale)]

side(f) == IF f.self = session_key(f)[1] THEN 1 ELSE 2
touch_addr(s, f, src) == [s EXCEPT !.addrs[side(f)] = Addr(src, f.port), !.age = 0]
\* try_send: dropped if the channel is full or its receiver gone.
\* Mutant: only the first addresses are sent on.
try_send_once(task, addrs) == IF task.addrs = <<NoAddr, NoAddr>> THEN [task EXCEPT !.queue = <<addrs>>] ELSE task
try_send(task, addrs) ==
  IF Len(task.queue) < ChannelSize THEN [task EXCEPT !.queue = Append(@, addrs)]
  ELSE task

\* What is in the table for f's pair once f has been handled: the session it
\* had, or a new one at a port the system hands out after a prune made room.
\* Mutant: the pair's session is not looked up.
Known_never(f) == FALSE
Known(f) == table[session_key(f)] # NoSession
Register(f, src, heard) ==
  LET k == session_key(f)
  IN  \E p \in Ports :
       /\ IF Known(f) THEN p = table[k].port ELSE ~Running(p)
       /\ LET t == IF Known(f) THEN table
                   ELSE [prune.table EXCEPT ![k] = [NoSession EXCEPT !.port = p]]
              w == IF Known(f) THEN fwd
                   ELSE [prune.fwd EXCEPT ![p] = [NoTask EXCEPT !.key = k]]
              s == touch_addr(t[k], f, src)
          IN  /\ table' = [t EXCEPT ![k] = s]
              /\ fwd' = IF w[p].key = k THEN [w EXCEPT ![p] = try_send(w[p], s.addrs)] ELSE w
       /\ IF heard THEN AckArrives(Ack(f, p)) ELSE UNCHANGED cli
\* MAX_SESSIONS reached, also after the prune; or no socket could be bound.
Full(f) == ~Known(f) /\ Cardinality(Sessions \ Stale) >= MaxSessions
Refuse ==
  /\ table' = prune.table /\ fwd' = prune.fwd
  /\ UNCHANGED cli

RemoveSession(f) ==
  /\ table' = [table EXCEPT ![session_key(f)] = NoSession]
  /\ fwd' = close(fwd, {session_key(f)})
  /\ UNCHANGED cli

\* serve: a datagram on the control socket.
Allows(n) == n \in Allowlist
Accepts(m) ==
  /\ check(m.wire, NetworkKey) = "ok"
  /\ m.age =< SeqSkew
  /\ Allows(decode(m.wire).self)
Handle(m, heard) ==
  LET f == decode(m.wire)
  IN  \/ f.kind = "Register" /\ f.port # 0 /\ ~Known(f) /\ ~heard /\ Refuse
      \/ f.kind = "Register" /\ f.port # 0 /\ ~Full(f) /\ Register(f, m.src, heard)
      \/ f.kind = "Unregister" /\ Known(f) /\ ~heard /\ RemoveSession(f)
\* A request stays in flight until it is lost or too old: it may be delivered
\* again, in any order with others.
ServerReceives(l, heard) ==
  /\ heard => cli[l].busy
  /\ UNCHANGED <<ip, net, changes>>
  /\ \E m \in InFlight(l) : Accepts(m) /\ Handle(m, heard)
ServerReceivesStray ==
  /\ Spend
  /\ \E m \in Strays : Accepts(m) /\ Handle(m, FALSE)
  /\ UNCHANGED <<ip, net>>

PruneTick ==
  /\ Stale # {}
  /\ table' = prune.table /\ fwd' = prune.fwd
  /\ UNCHANGED <<cli, ip, net, changes>>

-----------------------------------------------------------------------------
(* forward: the task of one session. *)
TakeUpdate(p) ==
  /\ fwd[p].queue # <<>>
  /\ UNCHANGED <<table, cli, ip, net, changes>>
  /\ fwd' = [fwd EXCEPT ![p].addrs = Head(fwd[p].queue), ![p].queue = Tail(@)]
\* A read error ends the task; the table does not hear of it.
ForwarderFails(p) ==
  /\ Running(p) /\ Spend
  /\ fwd' = [fwd EXCEPT ![p] = NoTask]
  /\ UNCHANGED <<table, cli, ip, net>>
\* Where a packet from src goes.
Dst(p, src) ==
  IF src = fwd[p].addrs[1] THEN fwd[p].addrs[2]
  ELSE IF src = fwd[p].addrs[2] THEN fwd[p].addrs[1]
  ELSE NoAddr
-----------------------------------------------------------------------------
\* The relay's process is restarted.
Restart ==
  /\ Spend
  /\ table' = [k \in Pairs |-> NoSession] /\ fwd' = [p \in Ports |-> NoTask]
  /\ UNCHANGED <<cli, ip, net>>
Renumber ==
  /\ Spend
  /\ \E n \in Nodes : \E i \in Homes[n] \ {ip[n]} : ip' = [ip EXCEPT ![n] = i]
  /\ UNCHANGED <<server, cli, net>>

\* Time passes: sessions age to where it stops mattering, requests until they
\* are too old to be accepted.
Tick ==
  /\ UNCHANGED <<fwd, cli, ip, changes>>
  /\ table' = [k \in Pairs |-> IF k \in Sessions
                               THEN [table[k] EXCEPT !.age = Min({@ + 1, SessionTtl + 1})]
                               ELSE NoSession]
  /\ net' = {[m EXCEPT !.age = @ + 1] : m \in {x \in net : x.age < SeqSkew}}

Client(l) == StartRegister(l) \/ Retry(l) \/ TimeOut(l) \/ Unregister(l) \/ WantAgain(l)
Next == \/ \E l \in Links : Client(l) \/ \E heard \in BOOLEAN : ServerReceives(l, heard)
        \/ \E p \in Ports : TakeUpdate(p) \/ ForwarderFails(p)
        \/ ServerReceivesStray \/ PruneTick \/ Lose \/ Restart \/ Renumber \/ Tick
Spec == Init /\ [][Next]_vars

(***************************************************************************)
(* Tasks run, the clock goes on, and a datagram that is sent again and      *)
(* again gets through in the end, and so does its answer: strong fairness   *)
(* of ServerReceives(l, TRUE), with the states that enable it spelled out.  *)
(***************************************************************************)
Deliverable(l) ==
  /\ cli[l].busy
  /\ \E m \in InFlight(l) : LET f == decode(m.wire) IN
       /\ Accepts(m) /\ f.kind = "Register" /\ ~Full(f)
       /\ Known(f) \/ \E p \in Ports : ~Running(p)
Fairness ==
  /\ WF_vars(Tick)
  /\ \A l \in Links : /\ WF_vars(StartRegister(l) \/ Retry(l))
                      /\ []<>Deliverable(l) => []<><<ServerReceives(l, TRUE)>>_vars
  /\ \A p \in Ports : WF_vars(TakeUpdate(p))
FairSpec == Spec /\ Fairness

-----------------------------------------------------------------------------
RelayTypeOK ==
  /\ table \in [Pairs -> [port : Ports \cup {NoPort}, addrs : DataAddrs \X DataAddrs,
                         age : 0..SessionTtl + 1]]
  /\ \A p \in Ports : Len(fwd[p].queue) =< ChannelSize
  /\ Cardinality(Sessions) =< MaxSessions
  /\ changes \in 0..MaxChanges

\* A forwarding task serves a session of the table, at the port the table says:
\* neither expiry, a prune on the way to a new session, nor an Unregister leaves
\* a task behind that would hold its socket and go on forwarding.
NoOrphanForwarder ==
  \A p \in Ports : Running(p) => table[fwd[p].key].port = p

\* Only a member's own request, for a pair of its own, with the policy's consent
\* and not a replay of an old one, makes a session (serve drops every other
\* datagram): a frame that an allowed node made with the key of this network.
Genuine(m) ==
  /\ m.age =< SeqSkew
  /\ \E a \in Allowlist, b \in CurvePoints \ {m.wire[5]} :
       LET f == [kind |-> "Register", port |-> m.wire[4], self |-> a, peer |-> b]
       IN  f.port # 0 /\ SubSeq(m.wire, 1, FrameLen) = encode(f, NetworkKey)
OnlyAskedFor ==
  \A k \in Sessions : \/ \E l \in Links : l[1] \in Allowlist /\ PairOf(l) = k
                      \/ \E m \in Whole : Genuine(m) /\ session_key(decode(m.wire)) = k

\* The relay keeps the promise that RelayLink builds on.
Service == INSTANCE RelayService
             WITH serving <- [k \in Pairs |-> table[k].port],
                  told <- [l \in Links |-> cli[l].told]
KeepsPromise == Service!Spec

\* Two sides that both want the relay and whose renewals come in time from some
\* point on reach each other through it in the end, and for good: they are told
\* the same port and its task knows where both are, whatever was lost, expired,
\* reordered, refused at the limit, unregistered by the other side or dropped
\* from a full channel before.  (A task that failed is not replaced while its
\* session is renewed.)
LinksOf(k) == {l \in Links : PairOf(l) = k}
Lame(k) == k \in Sessions /\ fwd[table[k].port].key # k
Connects(l) ==
  /\ cli[l].told # NoPort
  /\ Dst(cli[l].told, Addr(ip[l[1]], WgPort)) = Addr(ip[l[2]], WgPort)
BothReach ==
  \A k \in {PairOf(l) : l \in Links} :
    <>[](k \notin Stale /\ ~Lame(k) /\ \A l \in LinksOf(k) : cli[l].want)
      => <>[](\A l \in LinksOf(k) : Connects(l))

\* The table, the forwarding tasks and the requests agree in every state: what
\* serve, prune and the tasks maintain between them.
SessionsSound == RelayTypeOK /\ NoOrphanForwarder /\ OnlyAskedFor
=============================================================================
