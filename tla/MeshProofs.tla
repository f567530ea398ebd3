----------------------------- MODULE MeshProofs ------------------------------
(***************************************************************************)
(* Mesh for all networks: any number of daemons, any table size and clocks.  *)
(* Who was revoked stays out; the store has only authorised words and         *)
(* advances; no broadcast excites itself.                                    *)
(***************************************************************************)
EXTENDS Mesh, FiniteSetTheorems, TLAPS

Told == {"MemberAdmitted", "Revoked"} \X CurvePoints

\* The variables that carry memberships are functions with the right domains.
Shape ==
  /\ DOMAIN store = Daemons /\ \A x \in Daemons : DOMAIN store[x] = Keys
  /\ DOMAIN peers = Daemons
  /\ events \in [Daemons -> Seq(Told)]

\* The last word on n: a Revoked after which no MemberAdmitted waits; or none
\* waits at all, and n is no peer.
LastWord(s, n, P) ==
  \/ \E i \in 1..Len(s) : /\ s[i] = <<"Revoked", n>>
                          /\ \A j \in i + 1..Len(s) : s[j] # <<"MemberAdmitted", n>>
  \/ n \notin P /\ \A j \in 1..Len(s) : s[j] # <<"MemberAdmitted", n>>

IInv ==
  /\ Shape
  /\ \A x \in Daemons : \A n \in Nodes :
       store[x][<<n, "Revocation">>] # NoEntry => LastWord(events[x], n, peers[x])

-----------------------------------------------------------------------------
\* The channel of events: what is put in last decides, unless it is about
\* somebody else.
LEMMA LastWordAppend ==
  ASSUME NEW s \in Seq(Told), NEW e \in Told, NEW n, NEW P
  PROVE  /\ e = <<"Revoked", n>> => LastWord(Append(s, e), n, P)
         /\ e # <<"MemberAdmitted", n>> /\ LastWord(s, n, P)
              => LastWord(Append(s, e), n, P)
<1> DEFINE t == Append(s, e)
<1>1. /\ Len(s) \in Nat /\ Len(t) = Len(s) + 1 /\ t[Len(s) + 1] = e
      /\ \A j \in 1..Len(s) : t[j] = s[j]
  OBVIOUS
<1>2. ASSUME e = <<"Revoked", n>> PROVE LastWord(t, n, P)
  <2> HIDE DEF t
  <2>1. t[Len(t)] = <<"Revoked", n>> /\ Len(t) \in 1..Len(t)
    BY <1>1, <1>2
  <2>2. \A j \in Len(t) + 1..Len(t) : t[j] # <<"MemberAdmitted", n>>
    BY <1>1
  <2> QED
    BY <2>1, <2>2, Zenon DEF LastWord
<1>3. ASSUME e # <<"MemberAdmitted", n>>, LastWord(s, n, P) PROVE LastWord(t, n, P)
  <2> HIDE DEF t
  <2>1. CASE n \notin P /\ \A j \in 1..Len(s) : s[j] # <<"MemberAdmitted", n>>
    <3>1. ASSUME NEW j \in 1..Len(t) PROVE t[j] # <<"MemberAdmitted", n>>
      <4>1. j = Len(s) + 1 \/ (j \in 1..Len(s) /\ t[j] = s[j])
        BY <1>1
      <4> QED
        BY <1>1, <1>3, <2>1, <4>1, Zenon
    <3> QED
      BY <2>1, <3>1, Zenon DEF LastWord
  <2>2. CASE \E i \in 1..Len(s) : /\ s[i] = <<"Revoked", n>>
                                  /\ \A j \in i + 1..Len(s) : s[j] # <<"MemberAdmitted", n>>
    <3>1. PICK i \in 1..Len(s) : /\ s[i] = <<"Revoked", n>>
                                 /\ \A j \in i + 1..Len(s) : s[j] # <<"MemberAdmitted", n>>
      BY <2>2, Zenon
    <3>2. i \in 1..Len(t) /\ t[i] = <<"Revoked", n>>
      BY <1>1, <3>1
    <3>3. ASSUME NEW j \in i + 1..Len(t) PROVE t[j] # <<"MemberAdmitted", n>>
      <4>1. j = Len(s) + 1 \/ j \in i + 1..Len(s)
        BY <1>1
      <4>2. CASE j = Len(s) + 1
        BY <1>1, <1>3, <4>2, Zenon
      <4>3. CASE j \in i + 1..Len(s)
        <5>1. t[j] = s[j]
          BY <1>1, <4>3
        <5> QED
          BY <3>1, <4>3, <5>1, Zenon
      <4> QED
        BY <4>1, <4>2, <4>3, Zenon
    <3> QED
      BY <3>2, <3>3, Zenon DEF LastWord
  <2> QED
    BY <1>3, <2>1, <2>2, Zenon DEF LastWord
<1> QED
  BY <1>2, <1>3, Zenon

\* Taking an event from the channel: a Revoked makes n no peer, an event about
\* somebody else leaves it as it is, and a MemberAdmitted cannot have been the
\* last word.
LEMMA LastWordTail ==
  ASSUME NEW s \in Seq(Told), s # <<>>, NEW n, NEW P, NEW Q,
         LastWord(s, n, P),
         Head(s) = <<"Revoked", n>> => n \notin Q,
         Head(s) \notin {<<"Revoked", n>>, <<"MemberAdmitted", n>>} => (n \in Q => n \in P)
  PROVE  LastWord(Tail(s), n, Q)
<1> DEFINE t == Tail(s)
<1>1. /\ Len(s) \in Nat \ {0} /\ Len(t) = Len(s) - 1 /\ Head(s) = s[1]
      /\ \A j \in 1..Len(t) : t[j] = s[j + 1]
  OBVIOUS
<1> HIDE DEF t
<1>2. CASE n \notin P /\ \A j \in 1..Len(s) : s[j] # <<"MemberAdmitted", n>>
  <2>1. n \notin Q
    BY <1>1, <1>2
  <2>2. \A j \in 1..Len(t) : t[j] # <<"MemberAdmitted", n>>
    BY <1>1, <1>2
  <2> QED
    BY <2>1, <2>2, Zenon DEF LastWord, t
<1>3. CASE \E i \in 1..Len(s) : /\ s[i] = <<"Revoked", n>>
                                /\ \A j \in i + 1..Len(s) : s[j] # <<"MemberAdmitted", n>>
  <2>1. PICK i \in 1..Len(s) : /\ s[i] = <<"Revoked", n>>
                               /\ \A j \in i + 1..Len(s) : s[j] # <<"MemberAdmitted", n>>
    BY <1>3, Zenon
  <2>2. CASE i = 1
    <3>1. n \notin Q
      BY <1>1, <2>1, <2>2, Zenon
    <3>2. \A j \in 1..Len(t) : t[j] # <<"MemberAdmitted", n>>
      BY <1>1, <2>1, <2>2
    <3> QED
      BY <3>1, <3>2, Zenon DEF LastWord, t
  <2>3. CASE i # 1
    <3>1. i - 1 \in 1..Len(t) /\ t[i - 1] = <<"Revoked", n>>
      BY <1>1, <2>1, <2>3, SMTT(30)
    <3>2. \A j \in (i - 1) + 1..Len(t) : t[j] # <<"MemberAdmitted", n>>
      BY <1>1, <2>1, <2>3, SMTT(30)
    <3> QED
      BY <3>1, <3>2, Zenon DEF LastWord, t
  <2> QED
    BY <2>2, <2>3, Zenon
<1> QED
  BY <1>2, <1>3, Zenon DEF LastWord

-----------------------------------------------------------------------------
\* A datagram that passes the checks of decode has one of the three kinds and is
\* about somebody with a public key.
LEMMA DecodedIsTyped ==
  ASSUME NEW w, check(w) = "ok"
  PROVE  decode(w).kind \in Kinds /\ decode(w).node \in CurvePoints
<1>1. (\E k \in Kinds : as_u8[k] = w[3]) /\ w[5] \in CurvePoints
  BY Zenon DEF check
<1>2. from_u8(w[3]) \in Kinds
  BY <1>1, Zenon DEF from_u8
<1> QED
  BY <1>1, <1>2, Zenon DEF decode

\* What is put into the channel for an accepted entry is an event about its node;
\* nothing, or no admission, if the table knows of a revocation.
LEMMA EventIsAboutNode ==
  ASSUME NEW st, NEW e, e.kind \in Kinds, e.node \in CurvePoints
  PROVE  \/ Event(st, e) = <<>> /\ e.kind # "Revocation"
         \/ /\ Event(st, e) = <<<<"MemberAdmitted", e.node>>>>
            /\ e.kind = "Member" /\ ~is_revoked(st, e.node)
         \/ Event(st, e) = <<<<"Revoked", e.node>>>> /\ e.kind = "Revocation"
<1>1. CASE e.kind = "Endpoint"
  BY <1>1 DEF Event
<1>2. CASE e.kind = "Member"
  BY <1>2 DEF Event
<1>3. CASE e.kind = "Revocation"
  BY <1>3 DEF Event
<1> QED
  BY <1>1, <1>2, <1>3, Zenon DEF Kinds

\* handle_datagram keeps the invariant, whatever was received.
LEMMA HandleKeeps ==
  ASSUME IInv, NEW y, NEW w, NEW inside, NEW listed, Handle(y, w, inside, listed)
  PROVE  IInv'
<1> DEFINE e == decode(w)
           st == Merged(store[y], e)
           ev == Event(st, e)
<1>1. /\ check(w) = "ok"
      /\ store' = [store EXCEPT ![y] = st]
      /\ events' = [events EXCEPT ![y] = @ \o ev]
      /\ peers' = peers
  BY Zenon DEF Handle, Accepts, main
<1>2. e.kind \in Kinds /\ e.node \in CurvePoints
  BY <1>1, DecodedIsTyped, Zenon
<1>3. \/ ev = <<>> /\ e.kind # "Revocation"
      \/ ev = <<<<"MemberAdmitted", e.node>>>> /\ e.kind = "Member" /\ ~is_revoked(st, e.node)
      \/ ev = <<<<"Revoked", e.node>>>> /\ e.kind = "Revocation"
  BY <1>2, EventIsAboutNode, Zenon
<1>4. st = [store[y] EXCEPT ![<<e.node, e.kind>>] = e]
  BY Zenon DEF Merged, KeyOf
<1> HIDE DEF e, st, ev
<1>5. /\ DOMAIN store = Daemons /\ \A x \in Daemons : DOMAIN store[x] = Keys
      /\ DOMAIN peers = Daemons /\ events \in [Daemons -> Seq(Told)]
  BY Zenon DEF IInv, Shape
<1>6. y \in Daemons => DOMAIN st = Keys
  BY <1>4, <1>5, Zenon
<1>7. \A x \in Daemons : store'[x] = IF x = y THEN st ELSE store[x]
  BY <1>1, <1>5, Zenon
<1>8. \A x \in Daemons : events'[x] = IF x = y THEN events[y] \o ev ELSE events[x]
  BY <1>1, <1>5, Zenon
<1>9. ASSUME y \in Daemons
      PROVE \/ ev = <<>> /\ events[y] \o ev = events[y]
            \/ \E a \in Told : ev = <<a>> /\ events[y] \o ev = Append(events[y], a)
  <2>1. events[y] \in Seq(Told)
    BY <1>5, <1>9, Zenon
  <2>2. CASE ev = <<>>
    BY <2>1, <2>2
  <2>3. CASE ev # <<>>
    <3>1. PICK a \in Told : ev = <<a>>
      BY <1>2, <1>3, <2>3, Zenon DEF Told
    <3>2. Append(events[y], a) = events[y] \o <<a>>
      BY <2>1, <3>1
    <3> QED
      BY <3>1, <3>2, Zenon
  <2> QED
    BY <2>2, <2>3, Zenon
<1>10. Shape'
  <2>1. DOMAIN store' = Daemons /\ \A x \in Daemons : DOMAIN store'[x] = Keys
    BY <1>1, <1>5, <1>6, <1>7, Zenon
  <2>2. ASSUME NEW x \in Daemons PROVE events'[x] \in Seq(Told)
    <3>1. events[x] \in Seq(Told)
      BY <1>5, Zenon
    <3>2. CASE x = y
      <4>1. events'[x] = events[x] \/ \E a \in Told : events'[x] = Append(events[x], a)
        BY <1>8, <1>9, <3>2, Zenon
      <4>2. \A a \in Told : Append(events[x], a) \in Seq(Told)
        BY <3>1
      <4> QED
        BY <3>1, <4>1, <4>2, Zenon
    <3> QED
      BY <1>8, <3>1, <3>2, Zenon
  <2>3. events' \in [Daemons -> Seq(Told)]
    BY <1>1, <1>5, <2>2, Zenon
  <2> QED
    BY <1>1, <1>5, <2>1, <2>3, Zenon DEF Shape
<1>11. ASSUME NEW x \in Daemons, NEW n \in Nodes, store'[x][<<n, "Revocation">>] # NoEntry
       PROVE  LastWord(events'[x], n, peers'[x])
  <2>1. events[x] \in Seq(Told) /\ DOMAIN store[x] = Keys /\ <<n, "Revocation">> \in Keys
    BY <1>5, Zenon DEF Keys, Kinds
  <2>2. CASE x # y
    BY <1>1, <1>7, <1>8, <1>11, <2>2, Zenon DEF IInv
  <2>3. CASE x = y
    <3>1. CASE ev = <<<<"Revoked", n>>>>
      <4>1. events'[x] = Append(events[x], <<"Revoked", n>>) /\ <<"Revoked", n>> \in Told
        BY <1>8, <1>9, <2>3, <3>1, Zenon
      <4> QED
        BY <2>1, <4>1, LastWordAppend, Zenon
    <3>2. CASE ev # <<<<"Revoked", n>>>>
      <4>1. <<e.node, e.kind>> # <<n, "Revocation">>
        BY <1>3, <3>2, Zenon
      <4>2. st[<<n, "Revocation">>] = store[x][<<n, "Revocation">>]
        BY <1>4, <2>1, <2>3, <4>1, Zenon
      <4>3. LastWord(events[x], n, peers[x])
        BY <1>7, <1>11, <2>3, <4>2, Zenon DEF IInv
      <4>4. ev # <<<<"MemberAdmitted", n>>>>
        BY <1>3, <1>7, <1>11, <2>3 DEF is_revoked
      <4>5. CASE ev = <<>>
        BY <1>1, <1>8, <1>9, <2>3, <4>3, <4>5, Zenon
      <4>6. CASE ev # <<>>
        <5>1. PICK a \in Told : ev = <<a>> /\ events[x] \o ev = Append(events[x], a)
          BY <1>9, <2>3, <4>6, Zenon
        <5>2. a # <<"MemberAdmitted", n>>
          BY <4>4, <5>1, Zenon
        <5>3. LastWord(Append(events[x], a), n, peers[x])
          BY <2>1, <4>3, <5>2, LastWordAppend, Zenon
        <5> QED
          BY <1>1, <1>8, <2>3, <5>1, <5>3, Zenon
      <4> QED
        BY <4>5, <4>6, Zenon
    <3> QED
      BY <3>1, <3>2, Zenon
  <2> QED
    BY <2>2, <2>3, Zenon
<1> QED
  BY <1>10, <1>11, Zenon DEF IInv

\* on_membership_event keeps the invariant: the event it takes is carried out.
LEMMA OnEventKeeps ==
  ASSUME IInv, NEW y \in Daemons, OnEvent(y)
  PROVE  IInv'
<1> DEFINE what == Head(events[y])[1]
           m == Head(events[y])[2]
<1>1. /\ store' = store /\ events[y] # <<>>
      /\ events' = [events EXCEPT ![y] = Tail(@)]
      /\ \/ what = "MemberAdmitted" /\ peers' = peers
         \/ what = "MemberAdmitted" /\ peers' = [peers EXCEPT ![y] = @ \cup {m}]
         \/ what = "Revoked" /\ peers' = [peers EXCEPT ![y] = @ \ {m}]
  BY Zenon DEF OnEvent, gossip, Forget
<1>2. /\ DOMAIN store = Daemons /\ \A x \in Daemons : DOMAIN store[x] = Keys
      /\ DOMAIN peers = Daemons /\ events \in [Daemons -> Seq(Told)]
  BY Zenon DEF IInv, Shape
<1>3. events[y] \in Seq(Told) /\ Head(events[y]) \in Told
  BY <1>1, <1>2
<1>4. Head(events[y]) = <<what, m>>
  BY <1>3 DEF Told
<1> HIDE DEF what, m
<1>5. Shape'
  <2>1. \A x \in Daemons : events'[x] \in Seq(Told)
    BY <1>1, <1>2, <1>3
  <2>2. events' \in [Daemons -> Seq(Told)]
    BY <1>1, <1>2, <2>1, Zenon
  <2>3. DOMAIN peers' = Daemons
    BY <1>1, <1>2, Zenon
  <2> QED
    BY <1>1, <1>2, <2>2, <2>3, Zenon DEF Shape
<1>6. ASSUME NEW x \in Daemons, NEW n \in Nodes, store'[x][<<n, "Revocation">>] # NoEntry
      PROVE  LastWord(events'[x], n, peers'[x])
  <2>1. LastWord(events[x], n, peers[x])
    BY <1>1, <1>6, Zenon DEF IInv
  <2>2. CASE x # y
    <3>1. events'[x] = events[x] /\ peers'[x] = peers[x]
      BY <1>1, <1>2, <2>2, Zenon
    <3> QED
      BY <2>1, <3>1, Zenon
  <2>3. CASE x = y
    <3>1. events'[x] = Tail(events[x])
      BY <1>1, <1>2, <2>3, Zenon
    <3>2. Head(events[x]) = <<"Revoked", n>> => n \notin peers'[x]
      BY <1>1, <1>2, <1>4, <2>3
    <3>3. Head(events[x]) \notin {<<"Revoked", n>>, <<"MemberAdmitted", n>>}
            => (n \in peers'[x] => n \in peers[x])
      BY <1>1, <1>2, <1>4, <2>3, Zenon
    <3>4. events[x] \in Seq(Told) /\ events[x] # <<>>
      BY <1>1, <1>3, <2>3, Zenon
    <3>5. LastWord(Tail(events[x]), n, peers'[x])
      BY <2>1, <3>2, <3>3, <3>4, LastWordTail, Zenon
    <3> QED
      BY <3>1, <3>5, Zenon
  <2> QED
    BY <2>2, <2>3, Zenon
<1> QED
  BY <1>5, <1>6, Zenon DEF IInv

\* No step that leaves the tables, the channels and the peers alone breaks it.
LEMMA OthersKeep ==
  ASSUME IInv, UNCHANGED <<store, events, peers>>
  PROVE  IInv'
BY Zenon DEF IInv, Shape, LastWord

\* The tables and channels of daemons that have just started are empty.
LEMMA InitSound == Init => IInv
<1> SUFFICES ASSUME Init PROVE IInv
  BY Zenon
<1>1. Shape
  BY ConfiguredAssumption DEF Init, Shape, EmptyStore
<1>2. \A x \in Daemons : \A n \in Nodes : store[x][<<n, "Revocation">>] = NoEntry
  BY Zenon DEF Init, EmptyStore, Keys, Kinds
<1> QED
  BY <1>1, <1>2, Zenon DEF IInv

\* Every step of the daemons, of the network and of the operators keeps the
\* invariant.
LEMMA NextKeeps ==
  ASSUME IInv, [Next]_vars
  PROVE  IInv'
<1>1. ASSUME NEW x \in Daemons, BroadcastTick(x) PROVE IInv'
  BY <1>1, OthersKeep, Zenon DEF BroadcastTick, main
<1>2. ASSUME NEW x \in Daemons, Receive(x) PROVE IInv'
  BY <1>2, HandleKeeps, Zenon DEF Receive
<1>3. ASSUME NEW x \in Daemons, TakeControl(x) PROVE IInv'
  BY <1>3, OthersKeep, Zenon DEF TakeControl, main
<1>4. ASSUME NEW x \in Daemons, OnEvent(x) PROVE IInv'
  BY <1>4, OnEventKeeps, Zenon
<1>5. ASSUME NEW x \in Daemons, Restart(x) PROVE IInv'
  <2>1. /\ store' = [store EXCEPT ![x] = EmptyStore]
        /\ peers' = [peers EXCEPT ![x] = StartPeers(x, disk[x])]
        /\ events' = [events EXCEPT ![x] = <<>>]
    BY <1>5, Zenon DEF Restart
  <2>2. /\ DOMAIN store = Daemons /\ \A y \in Daemons : DOMAIN store[y] = Keys
        /\ DOMAIN peers = Daemons /\ events \in [Daemons -> Seq(Told)]
    BY Zenon DEF IInv, Shape
  <2>3. events' \in [Daemons -> Seq(Told)]
    BY <2>1, <2>2
  <2>4. Shape'
    BY <2>1, <2>2, <2>3, Zenon DEF Shape, EmptyStore
  <2>5. ASSUME NEW y \in Daemons, NEW n \in Nodes, store'[y][<<n, "Revocation">>] # NoEntry
        PROVE  LastWord(events'[y], n, peers'[y])
    <3>1. y # x
      BY <2>1, <2>2, <2>5, Zenon DEF EmptyStore, Keys, Kinds
    <3>2. store'[y] = store[y] /\ events'[y] = events[y] /\ peers'[y] = peers[y]
      BY <2>1, <2>2, <3>1, Zenon
    <3> QED
      BY <2>5, <3>2, Zenon DEF IInv
  <2> QED
    BY <2>4, <2>5, Zenon DEF IInv
<1>6. ASSUME NEW x \in Daemons, Renumber(x) PROVE IInv'
  BY <1>6, OthersKeep, Zenon DEF Renumber, gossip, main
<1>7. ASSUME NEW x \in Daemons, Command(x) PROVE IInv'
  BY <1>7, OthersKeep, Zenon DEF Command, gossip, main
<1>8. CASE ReceiveStray
  BY <1>8, HandleKeeps, Zenon DEF ReceiveStray
<1>9. CASE UNCHANGED vars
  BY <1>9, OthersKeep, Zenon DEF vars
<1> QED
  BY <1>1, <1>2, <1>3, <1>4, <1>5, <1>6, <1>7, <1>8, <1>9, Zenon DEF Next

\* A daemon that knows of a revocation has no such peer once it has taken the
\* events that wait (handle_datagram, on_membership_event, the start of
\* run_async), for any number of daemons and in whatever order entries arrive.
THEOREM RevokedAlwaysOut == Spec => []RevokedStaysOut
<1>1. IInv => RevokedStaysOut
  <2> SUFFICES ASSUME IInv, NEW x \in Daemons, NEW n \in Nodes,
                      store[x][<<n, "Revocation">>] # NoEntry, n \in peers[x]
               PROVE  \E i \in DOMAIN events[x] :
                        /\ events[x][i] = <<"Revoked", n>>
                        /\ \A j \in i + 1..Len(events[x]) : events[x][j] # <<"MemberAdmitted", n>>
    BY Zenon DEF RevokedStaysOut
  <2>1. events[x] \in Seq(Told) /\ LastWord(events[x], n, peers[x])
    BY Zenon DEF IInv, Shape
  <2>2. DOMAIN events[x] = 1..Len(events[x])
    BY <2>1
  <2> QED
    BY <2>1, <2>2, Zenon DEF LastWord
<1> QED
  BY <1>1, InitSound, NextKeeps, PTL DEF Spec

-----------------------------------------------------------------------------
\* An entry as handle_datagram lets it into the table.
Own(e) ==
  /\ e.sig[1] = e.signer
  /\ IF e.kind = "Endpoint" THEN e.signer = e.node
     ELSE e.signer # e.node /\ (AdminKeys # {} => e.signer \in AdminKeys)
OwnInv == Shape /\ \A x \in Daemons : \A k \in Keys : store[x][k] # NoEntry => Own(store[x][k])

\* How a step changes the tables: a received entry that merge applies, a restart
\* that loses a table, or nothing.
LEMMA StoreSteps ==
  ASSUME Shape, [Next]_vars
  PROVE  \/ store' = store
         \/ \E x \in Daemons : store' = [store EXCEPT ![x] = EmptyStore]
         \/ \E x, w, inside : /\ Accepts(x, w, inside) /\ merge(store[x], decode(w)) = "Applied"
                              /\ store' = [store EXCEPT ![x] = Merged(store[x], decode(w))]
<1>1. ASSUME NEW x, NEW w, NEW inside, NEW listed, Handle(x, w, inside, listed)
      PROVE  /\ Accepts(x, w, inside) /\ merge(store[x], decode(w)) = "Applied"
             /\ store' = [store EXCEPT ![x] = Merged(store[x], decode(w))]
  BY <1>1, Zenon DEF Handle
<1>2. ASSUME NEW x \in Daemons, Receive(x) \/ ReceiveStray
      PROVE  \E y, w, inside : /\ Accepts(y, w, inside) /\ merge(store[y], decode(w)) = "Applied"
                               /\ store' = [store EXCEPT ![y] = Merged(store[y], decode(w))]
  BY <1>1, <1>2, Zenon DEF Receive, ReceiveStray
<1>3. ASSUME NEW x \in Daemons, Restart(x) PROVE store' = [store EXCEPT ![x] = EmptyStore]
  BY <1>3, Zenon DEF Restart
<1>4. ASSUME NEW x \in Daemons,
             BroadcastTick(x) \/ TakeControl(x) \/ OnEvent(x) \/ Renumber(x) \/ Command(x)
      PROVE  store' = store
  BY <1>4, Zenon DEF BroadcastTick, TakeControl, OnEvent, Renumber, Command, gossip
<1>5. CASE ReceiveStray
  BY <1>1, <1>5, Zenon DEF ReceiveStray
<1>6. CASE UNCHANGED vars
  BY <1>6, Zenon DEF vars
<1> QED
  BY <1>2, <1>3, <1>4, <1>5, <1>6, Zenon DEF Next

\* The signature and the signer of what passes the checks.
LEMMA AcceptedIsOwn ==
  ASSUME NEW x, NEW w, NEW inside, Accepts(x, w, inside)
  PROVE  Own(decode(w))
<1>1. check(w) = "ok" /\ Authorised(decode(w))
  BY Zenon DEF Accepts
<1>2. verify(w[6], SubSeq(w, 1, 7), w[8]) /\ signer_ok(from_u8(w[3]), w[5], w[6])
  BY <1>1, Zenon DEF check
<1>3. w[8][1] = w[6]
  BY <1>2 DEF verify
<1>4. (from_u8(w[3]) = "Endpoint") <=> (w[6] = w[5])
  BY <1>2, Zenon DEF signer_ok
<1> QED
  BY <1>1, <1>3, <1>4, Zenon DEF Own, decode, Authorised

\* What a table says of an address its node said, and what it says of a
\* membership an administrator said who is somebody else (GossipEntry::decode,
\* handle_datagram), in every network.
THEOREM OnlyOwnWords == Spec => []OwnWords
<1>1. Init => OwnInv
  BY InitSound DEF OwnInv, IInv, Init, EmptyStore
<1>2. OwnInv /\ Shape' /\ [Next]_vars => OwnInv'
  <2> SUFFICES ASSUME OwnInv, Shape', [Next]_vars,
                      NEW x \in Daemons, NEW k \in Keys, store'[x][k] # NoEntry
               PROVE  Own(store'[x][k])
    BY Zenon DEF OwnInv, Own
  <2>1. CASE store' = store
    BY <2>1, Zenon DEF OwnInv
  <2>2. CASE \E y \in Daemons : store' = [store EXCEPT ![y] = EmptyStore]
    BY <2>2 DEF OwnInv, Shape, EmptyStore
  <2>3. ASSUME NEW y, NEW w, NEW inside, Accepts(y, w, inside),
               store' = [store EXCEPT ![y] = Merged(store[y], decode(w))]
        PROVE  Own(store'[x][k])
    <3>1. store'[x][k] \in {store[x][k], decode(w)}
      BY <2>3, Zenon DEF OwnInv, Shape, Merged
    <3>2. Own(decode(w))
      BY <2>3, AcceptedIsOwn, Zenon
    <3> QED
      BY <3>1, <3>2, Zenon DEF OwnInv
  <2> QED
    BY <2>1, <2>2, <2>3, StoreSteps, Zenon DEF OwnInv
<1>3. OwnInv => OwnWords
  BY DEF OwnInv, OwnWords, Own, Shape, entries
<1>4. IInv => Shape
  BY Zenon DEF IInv
<1> QED
  BY <1>1, <1>2, <1>3, <1>4, InitSound, NextKeeps, PTL DEF Spec

\* GossipStore::merge only goes forward, until a restart: an entry is replaced by
\* a later one, or by one with the same number and smaller bytes.
THEOREM StoreOnlyAdvances == Spec => StoreAdvances
<1> DEFINE A == \A x \in Daemons : store'[x] # EmptyStore => \A k \in Keys : store[x][k] # NoEntry =>
                  \/ store'[x][k] = store[x][k]
                  \/ store'[x][k].seq > store[x][k].seq
                  \/ store'[x][k].seq = store[x][k].seq /\ Smaller(store'[x][k], store[x][k])
<1>1. Shape /\ [Next]_vars => A
  <2> SUFFICES ASSUME Shape, [Next]_vars, NEW x \in Daemons, store'[x] # EmptyStore,
                      NEW k \in Keys, store[x][k] # NoEntry
               PROVE  \/ store'[x][k] = store[x][k]
                      \/ store'[x][k].seq > store[x][k].seq
                      \/ store'[x][k].seq = store[x][k].seq /\ Smaller(store'[x][k], store[x][k])
    BY Zenon
  <2>1. CASE store' = store
    BY <2>1, Zenon
  <2>2. CASE \E y \in Daemons : store' = [store EXCEPT ![y] = EmptyStore]
    BY <2>2, Zenon DEF Shape
  <2>3. ASSUME NEW y, NEW w, NEW inside, merge(store[y], decode(w)) = "Applied",
               store' = [store EXCEPT ![y] = Merged(store[y], decode(w))]
        PROVE  \/ store'[x][k] = store[x][k]
               \/ store'[x][k].seq > store[x][k].seq
               \/ store'[x][k].seq = store[x][k].seq /\ Smaller(store'[x][k], store[x][k])
    <3>1. CASE x # y \/ k # KeyOf(decode(w))
      BY <2>3, <3>1, Zenon DEF Shape, Merged
    <3>2. CASE x = y /\ k = KeyOf(decode(w))
      <4>1. store'[x][k] = decode(w)
        BY <2>3, <3>2, Zenon DEF Shape, Merged
      <4>2. Beats(decode(w), store[x][k])
        BY <2>3, <3>2, Zenon DEF merge
      <4> QED
        BY <4>1, <4>2, Zenon DEF Beats
    <3> QED
      BY <3>1, <3>2, Zenon
  <2> QED
    BY <2>1, <2>2, <2>3, StoreSteps, Zenon
<1>2. IInv => Shape
  BY Zenon DEF IInv
<1>3. Spec => []Shape
  BY <1>2, InitSound, NextKeeps, PTL DEF Spec
<1>4. Spec => [][Next]_vars
  BY PTL DEF Spec
<1> QED
  BY <1>1, <1>3, <1>4, PTL DEF StoreAdvances

-----------------------------------------------------------------------------
(***************************************************************************)
(* No self-excitation.  A version of x's entry is in a datagram, in a table *)
(* or in x's own Broadcast.  There are no more of them than changes, and a  *)
(* host whose addresses are not those of its last entry has one to spare:   *)
(* the next broadcast signs it.                                             *)
(***************************************************************************)
InNet(N, x) == {m[2][4] : m \in {c \in N : c[2][3] = 1 /\ c[2][5] = x}}
InTable(st, x) == IF st[<<x, "Endpoint">>] = NoEntry THEN {} ELSE {st[<<x, "Endpoint">>].seq}
Mine(b) == IF b.entry = NoEntry THEN {} ELSE {b.entry.seq}
Versions(x) == InNet(net, x) \cup (UNION {InTable(store[y], x) : y \in Daemons}) \cup Mine(bc[x])
Pending(h, b) == IF h \in {0, b.addrs} THEN 0 ELSE 1

\* The entries are where their node and kind say.
Labelled(st) == DOMAIN st = Keys /\ \A k \in Keys : st[k] # NoEntry => KeyOf(st[k]) = k
OwnEntry(x, b) == b.entry # NoEntry => KeyOf(b.entry) = <<x, "Endpoint">>

Fits(x) == IsFiniteSet(Versions(x)) /\ Cardinality(Versions(x)) + Pending(host[x], bc[x]) =< changes + 1
CountInv ==
  /\ DOMAIN store = Daemons /\ DOMAIN bc = Daemons /\ DOMAIN host = Daemons /\ changes \in Nat
  /\ \A x \in Daemons : Labelled(store[x]) /\ OwnEntry(x, bc[x])
  /\ \A x \in Daemons : Fits(x)

\* At most one signature is pending.
LEMMA PendingOne == \A h, b : Pending(h, b) \in 0..1
BY DEF Pending

\* Fewer versions, or one more.
LEMMA CountOne ==
  ASSUME NEW A, NEW B, NEW s, IsFiniteSet(A), B \subseteq A \cup {s}
  PROVE  /\ IsFiniteSet(B) /\ Cardinality(A) \in Nat /\ Cardinality(B) \in Nat
         /\ Cardinality(B) =< Cardinality(A) + 1
         /\ B \subseteq A => Cardinality(B) =< Cardinality(A)
<1>1. /\ IsFiniteSet(A \cup {s}) /\ Cardinality(A) \in Nat
      /\ Cardinality(A \cup {s}) \in {Cardinality(A), Cardinality(A) + 1}
  BY FS_AddElement, FS_CardinalityType, Zenon
<1>2. IsFiniteSet(B) /\ Cardinality(B) =< Cardinality(A \cup {s}) /\ Cardinality(B) \in Nat
  BY <1>1, FS_Subset, FS_CardinalityType, Zenon
<1>3. B \subseteq A => Cardinality(B) =< Cardinality(A)
  BY FS_Subset, Zenon
<1> QED
  BY <1>1, <1>2, <1>3

\* The fields of a datagram.
LEMMA EncodedFields ==
  ASSUME NEW e
  PROVE  /\ encode(e)[3] = as_u8[e.kind] /\ encode(e)[4] = e.seq /\ encode(e)[5] = e.node
BY DEF encode, RegionOf, signed_region

\* What is in a broadcast about x's addresses: the versions of the table, and at x
\* itself the own entry.
LEMMA SentVersions ==
  ASSUME NEW y \in Daemons, NEW x \in Daemons, NEW b, NEW st, Labelled(st), OwnEntry(y, b)
  PROVE  InNet(Sent(y, b, st), x) \subseteq InTable(st, x) \cup (IF x = y THEN Mine(b) ELSE {})
<1> SUFFICES ASSUME NEW m \in Sent(y, b, st), m[2][3] = 1, m[2][5] = x
             PROVE  m[2][4] \in InTable(st, x) \cup (IF x = y THEN Mine(b) ELSE {})
  BY Zenon DEF InNet
<1>1. PICK e \in entries(st) \cup (IF host[y] = 0 \/ b.entry = NoEntry THEN {} ELSE {b.entry}) :
        m[2] = encode(e)
  BY DEF Sent
<1>2. as_u8[e.kind] = 1 /\ e.node = x /\ m[2][4] = e.seq
  BY <1>1, EncodedFields, Zenon
<1>3. CASE e \in entries(st)
  <2>1. PICK k \in Keys : e = st[k] /\ e # NoEntry
    BY <1>3, Zenon DEF entries, Labelled
  <2>2. k = <<e.node, e.kind>> /\ e.kind \in Kinds
    BY <2>1 DEF Labelled, KeyOf, Keys
  <2>3. e.kind = "Endpoint"
    BY <1>2, <2>2 DEF as_u8, Kinds
  <2> QED
    BY <1>2, <2>1, <2>2, <2>3, Zenon DEF InTable
<1>4. CASE b.entry # NoEntry /\ e = b.entry
  BY <1>2, <1>4, Zenon DEF OwnEntry, KeyOf, Mine
<1> QED
  BY <1>1, <1>3, <1>4, Zenon

\* The sum behind the next lemma.
LEMMA Balance ==
  ASSUME NEW a \in Nat, NEW b \in Nat, NEW p \in 0..1, NEW q \in 0..1, NEW c \in Nat, NEW d \in Nat,
         a + p =< c + 1, b =< a + 1, (b =< a /\ q + c =< p + d) \/ q + 1 + c =< p + d
  PROVE  b + q =< d + 1
OBVIOUS

\* A step that counts: no new version where nothing changed, and a new one only
\* for a change or a pending signature.
LEMMA StepFits ==
  ASSUME NEW x \in Daemons, Fits(x), changes \in Nat, changes' \in Nat, NEW s,
         \/ /\ Versions(x)' \subseteq Versions(x)
            /\ Pending(host'[x], bc'[x]) + changes =< Pending(host[x], bc[x]) + changes'
         \/ /\ Versions(x)' \subseteq Versions(x) \cup {s}
            /\ Pending(host'[x], bc'[x]) + 1 + changes =< Pending(host[x], bc[x]) + changes'
  PROVE  Fits(x)'
<1> DEFINE A == Versions(x)
           B == Versions(x)'
           p == Pending(host[x], bc[x])
           q == Pending(host'[x], bc'[x])
<1>1. p \in 0..1 /\ q \in 0..1
  BY PendingOne, Zenon
<1>2. IsFiniteSet(A) /\ Cardinality(A) + p =< changes + 1
  BY Zenon DEF Fits
<1>3. B \subseteq A \cup {s}
  BY Zenon
<1> SUFFICES IsFiniteSet(B) /\ Cardinality(B) + q =< changes' + 1
  BY Zenon DEF Fits
<1>4. \/ B \subseteq A /\ q + changes =< p + changes'
      \/ q + 1 + changes =< p + changes'
  BY Zenon
<1> HIDE DEF A, B, p, q
<1>5. /\ IsFiniteSet(B) /\ Cardinality(A) \in Nat /\ Cardinality(B) \in Nat
      /\ Cardinality(B) =< Cardinality(A) + 1
      /\ B \subseteq A => Cardinality(B) =< Cardinality(A)
  BY <1>2, <1>3, CountOne, Zenon
<1>6. \/ Cardinality(B) =< Cardinality(A) /\ q + changes =< p + changes'
      \/ q + 1 + changes =< p + changes'
  BY <1>4, <1>5, Zenon
<1>7. Cardinality(B) + q =< changes' + 1
  BY <1>1, <1>2, <1>5, <1>6, Balance, Zenon
<1> QED
  BY <1>5, <1>7, Zenon

\* own_entry signs anew only where the addresses are not those of the last entry.
LEMMA OwnEntrySigned ==
  ASSUME NEW y, NEW b, OwnEntry(y, b), NEW c \in own_entry(y, b)
  PROVE  /\ OwnEntry(y, c)
         /\ c = b \/ (Pending(host[y], b) = 1 /\ Pending(host[y], c) = 0)
<1>1. CASE host[y] = 0 \/ host[y] = b.addrs
  BY <1>1, Zenon DEF own_entry
<1>2. CASE ~(host[y] = 0 \/ host[y] = b.addrs)
  <2>1. PICK s : c = [addrs |-> host[y], entry |-> sign_endpoint(y, host[y], s), seq |-> s]
    BY <1>2, Zenon DEF own_entry
  <2>2. KeyOf(c.entry) = <<y, "Endpoint">>
    BY <2>1, Zenon DEF sign_endpoint, Entry, KeyOf
  <2> QED
    BY <1>2, <2>1, <2>2, Zenon DEF OwnEntry, Pending
<1> QED
  BY <1>1, <1>2, Zenon

\* What a broadcast at y adds.
LEMMA BroadcastAdds ==
  ASSUME CountInv, NEW y \in Daemons, NEW st, Labelled(st), Broadcast(y, st)
  PROVE  /\ DOMAIN bc' = Daemons /\ \A x \in Daemons : OwnEntry(x, bc'[x])
         /\ \A x \in Daemons : x # y => bc'[x] = bc[x]
         /\ \A x \in Daemons : InNet(net', x) \subseteq InNet(net, x) \cup InTable(st, x) \cup Mine(bc'[x])
         /\ bc'[y] = bc[y] \/ (Pending(host[y], bc[y]) = 1 /\ Pending(host[y], bc'[y]) = 0)
<1>1. PICK b \in own_entry(y, bc[y]) : /\ bc' = [bc EXCEPT ![y] = b]
                                       /\ net' = net \cup {m \in Sent(y, b, st) : m[1] \in Daemons}
  BY Zenon DEF Broadcast
<1>2. DOMAIN bc = Daemons /\ \A x \in Daemons : OwnEntry(x, bc[x])
  BY Zenon DEF CountInv
<1>3. OwnEntry(y, b) /\ (b = bc[y] \/ (Pending(host[y], bc[y]) = 1 /\ Pending(host[y], b) = 0))
  BY <1>2, OwnEntrySigned, Zenon
<1>4. bc'[y] = b /\ DOMAIN bc' = Daemons /\ \A x \in Daemons : x # y => bc'[x] = bc[x]
  BY <1>1, <1>2, Zenon
<1>5. ASSUME NEW x \in Daemons
      PROVE  InNet(net', x) \subseteq InNet(net, x) \cup InTable(st, x) \cup Mine(bc'[x])
  <2>1. InNet(Sent(y, b, st), x) \subseteq InTable(st, x) \cup (IF x = y THEN Mine(b) ELSE {})
    BY <1>3, SentVersions, Zenon
  <2>2. InNet(net', x) \subseteq InNet(net, x) \cup InNet(Sent(y, b, st), x)
    BY <1>1, Zenon DEF InNet
  <2>3. (IF x = y THEN Mine(b) ELSE {}) \subseteq Mine(bc'[x])
    BY <1>4, Zenon
  <2> QED
    BY <2>1, <2>2, <2>3, Zenon
<1>6. \A x \in Daemons : OwnEntry(x, bc'[x])
  BY <1>2, <1>3, <1>4, Zenon
<1> QED
  BY <1>3, <1>4, <1>5, <1>6, Zenon

\* The fields of an entry that passes are those of its datagram.
LEMMA DecodedFields ==
  ASSUME NEW w, check(w) = "ok"
  PROVE  /\ decode(w).kind \in Kinds /\ w[3] = as_u8[decode(w).kind]
         /\ decode(w).node = w[5] /\ decode(w).seq = w[4]
<1>1. \E k \in Kinds : as_u8[k] = w[3]
  BY Zenon DEF check
<1>2. from_u8(w[3]) \in Kinds /\ as_u8[from_u8(w[3])] = w[3]
  BY <1>1, Zenon DEF from_u8
<1> QED
  BY <1>2, Zenon DEF decode

\* handle_datagram: the table of y may learn the version in w, which is not y's own.
LEMMA HandleAdds ==
  ASSUME CountInv, NEW y \in Daemons, NEW w, NEW inside, NEW listed, Handle(y, w, inside, listed)
  PROVE  /\ DOMAIN store' = Daemons /\ DOMAIN bc' = Daemons /\ host' = host
         /\ \A x \in Daemons : Labelled(store'[x]) /\ OwnEntry(x, bc'[x])
         /\ \A x \in Daemons : x # y => bc'[x] = bc[x]
         /\ bc'[y] = bc[y] \/ (Pending(host[y], bc[y]) = 1 /\ Pending(host[y], bc'[y]) = 0)
         /\ Versions(y)' \subseteq Versions(y) \cup Mine(bc'[y])
         /\ \A x \in Daemons \ {y} :
              Versions(x)' \subseteq Versions(x) \cup (IF w[3] = 1 /\ w[5] = x THEN {w[4]} ELSE {})
<1> DEFINE e == decode(w)
           st == Merged(store[y], e)
<1>1. /\ check(w) = "ok"
      /\ e.kind = "Endpoint" => e.node # y
      /\ store' = [store EXCEPT ![y] = st] /\ host' = host
      /\ Broadcast(y, st) \/ UNCHANGED <<bc, net>>
  BY Zenon DEF Handle, Accepts
<1>2. /\ e.kind \in Kinds /\ w[3] = as_u8[e.kind] /\ e.node = w[5] /\ e.seq = w[4]
  BY <1>1, DecodedFields, Zenon
<1>3. st = [store[y] EXCEPT ![<<e.node, e.kind>>] = e] /\ KeyOf(e) = <<e.node, e.kind>>
  BY Zenon DEF Merged, KeyOf
<1> HIDE DEF e, st
<1>4. /\ DOMAIN store = Daemons /\ DOMAIN bc = Daemons
      /\ \A x \in Daemons : Labelled(store[x]) /\ OwnEntry(x, bc[x])
  BY Zenon DEF CountInv
<1>5. DOMAIN st = Keys /\ Labelled(st)
  BY <1>3, <1>4, Zenon DEF Labelled
<1>6. /\ DOMAIN store' = Daemons /\ store'[y] = st
      /\ \A x \in Daemons : x # y => store'[x] = store[x]
  BY <1>1, <1>4, Zenon
<1>7. /\ DOMAIN bc' = Daemons /\ \A x \in Daemons : OwnEntry(x, bc'[x])
      /\ \A x \in Daemons : x # y => bc'[x] = bc[x]
      /\ \A x \in Daemons : InNet(net', x) \subseteq InNet(net, x) \cup InTable(st, x) \cup Mine(bc'[x])
      /\ bc'[y] = bc[y] \/ (Pending(host[y], bc[y]) = 1 /\ Pending(host[y], bc'[y]) = 0)
  <2>1. CASE Broadcast(y, st)
    BY <1>5, <2>1, BroadcastAdds, Zenon
  <2>2. CASE UNCHANGED <<bc, net>>
    BY <1>4, <2>2, Zenon
  <2> QED
    BY <1>1, <2>1, <2>2, Zenon
<1>8. ASSUME NEW x \in Daemons
      PROVE  InTable(st, x) \subseteq InTable(store[y], x)
                                        \cup (IF x # y /\ w[3] = 1 /\ w[5] = x THEN {w[4]} ELSE {})
  <2>1. DOMAIN store[y] = Keys /\ <<x, "Endpoint">> \in Keys
    BY <1>4, NodesAssumption, Zenon DEF Labelled, Keys, Kinds
  <2>2. CASE <<e.node, e.kind>> = <<x, "Endpoint">>
    <3>1. st[<<x, "Endpoint">>] = e /\ e.node = x /\ e.kind = "Endpoint"
      BY <1>3, <2>1, <2>2, Zenon
    <3>2. x # y
      BY <1>1, <3>1, Zenon
    <3>3. as_u8["Endpoint"] = 1
      BY Zenon DEF as_u8
    <3>4. w[3] = 1 /\ w[5] = x /\ e.seq = w[4]
      BY <1>2, <3>1, <3>3, Zenon
    <3> QED
      BY <3>1, <3>2, <3>4, Zenon DEF InTable
  <2>3. CASE <<e.node, e.kind>> # <<x, "Endpoint">>
    <3>1. st[<<x, "Endpoint">>] = store[y][<<x, "Endpoint">>]
      BY <1>3, <2>1, <2>3, Zenon
    <3> QED
      BY <3>1, Zenon DEF InTable
  <2> QED
    BY <2>2, <2>3, Zenon
<1>9. ASSUME NEW x \in Daemons
      PROVE  Versions(x)' \subseteq Versions(x) \cup Mine(bc'[x])
                            \cup (IF x # y /\ w[3] = 1 /\ w[5] = x THEN {w[4]} ELSE {})
  <2> DEFINE new == IF x # y /\ w[3] = 1 /\ w[5] = x THEN {w[4]} ELSE {}
  <2>1. InTable(st, x) \subseteq InTable(store[y], x) \cup new
    BY <1>8, Zenon
  <2> HIDE DEF new
  <2>2. ASSUME NEW z \in Daemons PROVE InTable(store'[z], x) \subseteq InTable(store[z], x) \cup new
    BY <1>6, <2>1, Zenon
  <2>3. (UNION {InTable(store'[z], x) : z \in Daemons})
          \subseteq (UNION {InTable(store[z], x) : z \in Daemons}) \cup new
    BY <2>2, Zenon
  <2>4. InNet(net', x) \subseteq InNet(net, x) \cup InTable(store[y], x) \cup new \cup Mine(bc'[x])
    BY <1>7, <2>1, Zenon
  <2>5. InTable(store[y], x) \subseteq (UNION {InTable(store[z], x) : z \in Daemons})
    BY Zenon
  <2>6. Versions(x)' = InNet(net', x) \cup (UNION {InTable(store'[z], x) : z \in Daemons}) \cup Mine(bc'[x])
    BY Zenon DEF Versions, InNet, InTable, Mine
  <2>7. Versions(x) = InNet(net, x) \cup (UNION {InTable(store[z], x) : z \in Daemons}) \cup Mine(bc[x])
    BY Zenon DEF Versions
  <2>8. Versions(x)' \subseteq Versions(x) \cup Mine(bc'[x]) \cup new
    BY <2>3, <2>4, <2>5, <2>6, <2>7, Zenon
  <2> QED
    BY <2>8, Zenon DEF new
<1>10. \A x \in Daemons : Labelled(store'[x])
  BY <1>4, <1>5, <1>6, Zenon
<1>11. Versions(y)' \subseteq Versions(y) \cup Mine(bc'[y])
  BY <1>9, Zenon
<1>12. ASSUME NEW x \in Daemons \ {y}
       PROVE  Versions(x)' \subseteq Versions(x) \cup (IF w[3] = 1 /\ w[5] = x THEN {w[4]} ELSE {})
  <2>1. Mine(bc'[x]) \subseteq Versions(x)
    BY <1>7, Zenon DEF Versions
  <2> QED
    BY <1>9, <2>1, Zenon
<1> QED
  BY <1>1, <1>6, <1>7, <1>10, <1>11, <1>12, Zenon

\* A received entry, wherever it comes from: at y itself a signature that was
\* pending may be made, elsewhere at most the version in w is new.
LEMMA HandleFits ==
  ASSUME CountInv, NEW y \in Daemons, NEW w, NEW inside, NEW listed, Handle(y, w, inside, listed),
         \/ changes' = changes + 1
         \/ changes' = changes /\ \E m \in net : m[2] = w
  PROVE  CountInv'
<1>1. /\ DOMAIN store' = Daemons /\ DOMAIN bc' = Daemons /\ host' = host
      /\ \A x \in Daemons : Labelled(store'[x]) /\ OwnEntry(x, bc'[x])
      /\ \A x \in Daemons : x # y => bc'[x] = bc[x]
      /\ bc'[y] = bc[y] \/ (Pending(host[y], bc[y]) = 1 /\ Pending(host[y], bc'[y]) = 0)
      /\ Versions(y)' \subseteq Versions(y) \cup Mine(bc'[y])
      /\ \A x \in Daemons \ {y} :
           Versions(x)' \subseteq Versions(x) \cup (IF w[3] = 1 /\ w[5] = x THEN {w[4]} ELSE {})
  BY HandleAdds, Zenon
<1>2. DOMAIN host = Daemons /\ changes \in Nat /\ changes' \in Nat /\ changes =< changes'
  BY DEF CountInv
<1>3. ASSUME NEW x \in Daemons PROVE Fits(x) /\ Pending(host[x], bc[x]) \in 0..1
  <2>1. Fits(x)
    BY Zenon DEF CountInv
  <2> QED
    BY <2>1, PendingOne, Zenon
<1>4. Fits(y)'
  <2>1. CASE bc'[y] = bc[y]
    <3>1. Versions(y)' \subseteq Versions(y)
      BY <1>1, <2>1, Zenon DEF Versions
    <3>2. Pending(host'[y], bc'[y]) = Pending(host[y], bc[y])
      BY <1>1, <2>1, Zenon
    <3>3. Pending(host'[y], bc'[y]) + changes =< Pending(host[y], bc[y]) + changes'
      BY <1>2, <1>3, <3>2
    <3> QED
      BY <1>2, <1>3, <3>1, <3>3, StepFits, Zenon
  <2>2. CASE Pending(host[y], bc[y]) = 1 /\ Pending(host[y], bc'[y]) = 0
    <3>1. Versions(y)' \subseteq Versions(y) \cup {bc'[y].entry.seq}
      BY <1>1, Zenon DEF Mine
    <3>2. Pending(host'[y], bc'[y]) = 0
      BY <1>1, <2>2, Zenon
    <3>3. Pending(host'[y], bc'[y]) + 1 + changes =< Pending(host[y], bc[y]) + changes'
      BY <1>2, <2>2, <3>2
    <3> QED
      BY <1>2, <1>3, <3>1, <3>3, StepFits, Zenon
  <2> QED
    BY <1>1, <2>1, <2>2, Zenon
<1>5. ASSUME NEW x \in Daemons \ {y} PROVE Fits(x)'
  <2>1. Pending(host'[x], bc'[x]) = Pending(host[x], bc[x])
    BY <1>1, Zenon
  <2>2. CASE Versions(x)' \subseteq Versions(x)
    <3>1. Pending(host'[x], bc'[x]) + changes =< Pending(host[x], bc[x]) + changes'
      BY <1>2, <1>3, <2>1
    <3> QED
      BY <1>2, <1>3, <2>2, <3>1, StepFits, Zenon
  <2>3. CASE changes' = changes + 1
    <3>1. Versions(x)' \subseteq Versions(x) \cup {w[4]}
      BY <1>1, Zenon
    <3>2. Pending(host'[x], bc'[x]) + 1 + changes =< Pending(host[x], bc[x]) + changes'
      BY <1>2, <1>3, <2>1, <2>3
    <3> QED
      BY <1>2, <1>3, <3>1, <3>2, StepFits, Zenon
  <2>4. CASE \E m \in net : m[2] = w
    <3>1. w[3] = 1 /\ w[5] = x => w[4] \in InNet(net, x)
      BY <2>4, Zenon DEF InNet
    <3>2. InNet(net, x) \subseteq Versions(x)
      BY Zenon DEF Versions
    <3>3. Versions(x)' \subseteq Versions(x) \cup (IF w[3] = 1 /\ w[5] = x THEN {w[4]} ELSE {})
      BY <1>1, Zenon
    <3> HIDE DEF InNet, Versions
    <3>4. Versions(x)' \subseteq Versions(x)
      BY <3>1, <3>2, <3>3, Zenon
    <3> QED
      BY <2>2, <3>4, Zenon
  <2> QED
    BY <2>3, <2>4, Zenon
<1>6. \A x \in Daemons : Fits(x)'
  BY <1>4, <1>5, Zenon
<1> QED
  BY <1>1, <1>2, <1>6, Zenon DEF CountInv

\* A step without a new version, that is a change or leaves what is pending.
LEMMA FewerFits ==
  ASSUME CountInv, DOMAIN store' = Daemons, DOMAIN bc' = Daemons, DOMAIN host' = Daemons,
         \A x \in Daemons : Labelled(store'[x]) /\ OwnEntry(x, bc'[x]),
         \A x \in Daemons : Versions(x)' \subseteq Versions(x),
         changes' = changes + 1 \/ (changes' = changes /\ bc' = bc /\ host' = host)
  PROVE  CountInv'
<1>1. changes \in Nat /\ changes' \in Nat
  BY DEF CountInv
<1>2. ASSUME NEW x \in Daemons PROVE Fits(x)'
  <2>1. Fits(x) /\ Versions(x)' \subseteq Versions(x)
    BY Zenon DEF CountInv
  <2>2. Pending(host[x], bc[x]) \in 0..1 /\ Pending(host'[x], bc'[x]) \in 0..1
    BY PendingOne, Zenon
  <2>3. changes' = changes => Pending(host'[x], bc'[x]) = Pending(host[x], bc[x])
    BY <1>1
  <2>4. Pending(host'[x], bc'[x]) + changes =< Pending(host[x], bc[x]) + changes'
    BY <1>1, <2>2, <2>3
  <2> QED
    BY <1>1, <2>1, <2>4, StepFits, Zenon
<1> QED
  BY <1>1, <1>2, Zenon DEF CountInv

\* The tables and the Broadcasts stay.
LEMMA QuietFits ==
  ASSUME CountInv, store' = store, bc' = bc, DOMAIN host' = Daemons,
         \A x \in Daemons : InNet(net', x) \subseteq InNet(net, x),
         changes' = changes + 1 \/ (changes' = changes /\ host' = host)
  PROVE  CountInv'
<1>1. ASSUME NEW x \in Daemons PROVE Versions(x)' \subseteq Versions(x)
  <2>1. Versions(x)' = InNet(net', x) \cup (UNION {InTable(store[z], x) : z \in Daemons}) \cup Mine(bc[x])
    BY DEF Versions, InNet, InTable, Mine
  <2> QED
    BY <2>1, Zenon DEF Versions
<1>2. /\ DOMAIN store' = Daemons /\ DOMAIN bc' = Daemons
      /\ \A x \in Daemons : Labelled(store'[x]) /\ OwnEntry(x, bc'[x])
  BY Zenon DEF CountInv
<1> QED
  BY <1>1, <1>2, FewerFits, Zenon

\* A broadcast by the timer signs at most what is pending.
LEMMA TickFits ==
  ASSUME CountInv, NEW y \in Daemons, BroadcastTick(y)
  PROVE  CountInv'
<1>1. store' = store /\ host' = host /\ changes' = changes /\ Broadcast(y, store[y])
  BY Zenon DEF BroadcastTick
<1>2. /\ DOMAIN store = Daemons /\ DOMAIN host = Daemons /\ changes \in Nat
      /\ \A x \in Daemons : Labelled(store[x]) /\ Fits(x)
  BY Zenon DEF CountInv
<1>3. /\ DOMAIN bc' = Daemons /\ \A x \in Daemons : OwnEntry(x, bc'[x])
      /\ \A x \in Daemons : x # y => bc'[x] = bc[x]
      /\ \A x \in Daemons : InNet(net', x) \subseteq InNet(net, x) \cup InTable(store[y], x) \cup Mine(bc'[x])
      /\ bc'[y] = bc[y] \/ (Pending(host[y], bc[y]) = 1 /\ Pending(host[y], bc'[y]) = 0)
  BY <1>1, <1>2, BroadcastAdds, Zenon
<1>4. ASSUME NEW x \in Daemons PROVE Versions(x)' \subseteq Versions(x) \cup Mine(bc'[x])
  <2>1. Versions(x)' = InNet(net', x) \cup (UNION {InTable(store[z], x) : z \in Daemons}) \cup Mine(bc'[x])
    BY <1>1, Zenon DEF Versions, InNet, InTable, Mine
  <2>2. InTable(store[y], x) \subseteq (UNION {InTable(store[z], x) : z \in Daemons})
    BY Zenon
  <2> QED
    BY <1>3, <2>1, <2>2, Zenon DEF Versions
<1>5. ASSUME NEW x \in Daemons PROVE Fits(x)'
  <2>1. Fits(x) /\ Pending(host[x], bc[x]) \in 0..1
    BY <1>2, PendingOne, Zenon
  <2>2. CASE bc'[x] = bc[x]
    <3>1. Versions(x)' \subseteq Versions(x)
      BY <1>4, <2>2, Zenon DEF Versions
    <3>2. Pending(host'[x], bc'[x]) + changes =< Pending(host[x], bc[x]) + changes'
      BY <1>1, <1>2, <2>1, <2>2
    <3> QED
      BY <1>1, <1>2, <2>1, <3>1, <3>2, StepFits, Zenon
  <2>3. CASE x = y /\ Pending(host[y], bc[y]) = 1 /\ Pending(host[y], bc'[y]) = 0
    <3>1. Versions(x)' \subseteq Versions(x) \cup {bc'[x].entry.seq}
      BY <1>4, Zenon DEF Mine
    <3>2. Pending(host[x], bc[x]) = 1 /\ Pending(host'[x], bc'[x]) = 0
      BY <1>1, <2>3, Zenon
    <3>3. Pending(host'[x], bc'[x]) + 1 + changes =< Pending(host[x], bc[x]) + changes'
      BY <1>1, <1>2, <3>2
    <3> QED
      BY <1>1, <1>2, <2>1, <3>1, <3>3, StepFits, Zenon
  <2> QED
    BY <1>3, <2>2, <2>3, Zenon
<1> QED
  BY <1>1, <1>2, <1>3, <1>5, Zenon DEF CountInv

\* A restart loses the table and the own entry.
LEMMA RestartFits ==
  ASSUME CountInv, NEW y \in Daemons, Restart(y)
  PROVE  CountInv'
<1>1. PICK now \in 0..MaxNow : bc' = [bc EXCEPT ![y] = NewBroadcast(now)]
  BY Zenon DEF Restart
<1>2. /\ store' = [store EXCEPT ![y] = EmptyStore] /\ host' = host /\ net' = net
      /\ changes' = changes + 1
  BY Zenon DEF Restart, Spend
<1>3. /\ DOMAIN store = Daemons /\ DOMAIN bc = Daemons /\ DOMAIN host = Daemons
      /\ \A x \in Daemons : Labelled(store[x]) /\ OwnEntry(x, bc[x])
  BY Zenon DEF CountInv
<1>4. NewBroadcast(now).entry = NoEntry
  BY Zenon DEF NewBroadcast
<1>5. ASSUME NEW x \in Daemons
      PROVE  /\ store'[x] \in {store[x], EmptyStore}
             /\ bc'[x] \in {bc[x], NewBroadcast(now)}
  BY <1>1, <1>2, <1>3, Zenon
<1>6. DOMAIN EmptyStore = Keys /\ \A k \in Keys : EmptyStore[k] = NoEntry
  BY Zenon DEF EmptyStore
<1>7. Labelled(EmptyStore)
  BY <1>6, Zenon DEF Labelled
<1>8. ASSUME NEW x \in Daemons PROVE Labelled(store'[x]) /\ OwnEntry(x, bc'[x])
  BY <1>3, <1>4, <1>5, <1>7, Zenon DEF OwnEntry
<1>9. ASSUME NEW x \in Daemons PROVE Versions(x)' \subseteq Versions(x)
  <2>1. EmptyStore[<<x, "Endpoint">>] = NoEntry
    BY <1>6, NodesAssumption, Zenon DEF Keys, Kinds
  <2>2. ASSUME NEW z \in Daemons PROVE InTable(store'[z], x) \subseteq InTable(store[z], x)
    BY <1>5, <2>1, Zenon DEF InTable
  <2>3. Mine(bc'[x]) \subseteq Mine(bc[x])
    BY <1>4, <1>5, Zenon DEF Mine
  <2>4. Versions(x)' = InNet(net, x) \cup (UNION {InTable(store'[z], x) : z \in Daemons}) \cup Mine(bc'[x])
    BY <1>2, Zenon DEF Versions, InNet, InTable, Mine
  <2> QED
    BY <2>2, <2>3, <2>4 DEF Versions
<1> QED
  BY <1>1, <1>2, <1>3, <1>8, <1>9, FewerFits, Zenon

\* Neither a Member nor a Revocation of the command line is a version.
LEMMA CommandFits ==
  ASSUME CountInv, NEW y \in Daemons, Command(y)
  PROVE  CountInv'
<1>1. PICK n \in Subjects, now \in 0..MaxOperatorNow :
        \E e \in {sign_revocation(y, n, now)} \cup
                 (IF n \in Configured[y] THEN {} ELSE {sign_member(y, n, 1, now)}) :
          net' = net \cup {<<t, encode(e)>> : t \in Configured[y] \cap Daemons}
  BY Zenon DEF Command
<1>2. PICK e \in {sign_revocation(y, n, now), sign_member(y, n, 1, now)} :
        net' = net \cup {<<t, encode(e)>> : t \in Configured[y] \cap Daemons}
  BY <1>1, Zenon
<1>3. e.kind \in {"Member", "Revocation"}
  BY <1>2 DEF sign_revocation, sign_member, Entry
<1>4. encode(e)[3] # 1
  BY <1>3, EncodedFields DEF as_u8
<1>5. ASSUME NEW x \in Daemons PROVE InNet(net', x) \subseteq InNet(net, x)
  BY <1>2, <1>4 DEF InNet
<1>6. store' = store /\ bc' = bc /\ host' = host /\ changes' = changes + 1 /\ DOMAIN host' = Daemons
  BY Zenon DEF Command, gossip, Spend, CountInv
<1> QED
  BY <1>5, <1>6, QuietFits, Zenon

\* The invariant at the start: each host has its first entry still to sign.
LEMMA CountInit == Init => CountInv
<1> SUFFICES ASSUME Init PROVE CountInv
  BY Zenon
<1>1. /\ store = [x \in Daemons |-> EmptyStore] /\ bc = [x \in Daemons |-> NewBroadcast(0)]
      /\ DOMAIN host = Daemons /\ net = {} /\ changes = 0
  BY Zenon DEF Init
<1>2. DOMAIN EmptyStore = Keys /\ \A k \in Keys : EmptyStore[k] = NoEntry
  BY Zenon DEF EmptyStore
<1>3. ASSUME NEW x \in Daemons PROVE Labelled(store[x]) /\ OwnEntry(x, bc[x]) /\ Mine(bc[x]) = {}
  BY <1>1, <1>2, Zenon DEF Labelled, OwnEntry, NewBroadcast, Mine
<1>4. ASSUME NEW x \in Daemons PROVE Fits(x)
  <2>1. ASSUME NEW z \in Daemons PROVE InTable(store[z], x) = {}
    BY <1>1, <1>2, NodesAssumption, Zenon DEF InTable, Keys, Kinds
  <2>2. InNet(net, x) = {}
    BY <1>1, Zenon DEF InNet
  <2>3. Versions(x) = {}
    BY <1>3, <2>1, <2>2, Zenon DEF Versions
  <2>4. Pending(host[x], bc[x]) \in 0..1
    BY PendingOne, Zenon
  <2> QED
    BY <1>1, <2>3, <2>4, FS_EmptySet DEF Fits
<1> QED
  BY <1>1, <1>3, <1>4, Zenon DEF CountInv

\* Every step keeps the count.
LEMMA CountNext ==
  ASSUME CountInv, [Next]_vars
  PROVE  CountInv'
<1>1. DOMAIN host = Daemons
  BY Zenon DEF CountInv
<1>2. ASSUME NEW x \in Daemons, Receive(x) PROVE CountInv'
  <2>1. PICK m \in net, listed \in BOOLEAN :
          /\ m[1] = x /\ Handle(x, m[2], TRUE, listed)
          /\ IF listed THEN UNCHANGED changes ELSE Spend
    BY <1>2, Zenon DEF Receive
  <2>2. changes' = changes \/ changes' = changes + 1
    BY <2>1, Zenon DEF Spend
  <2> QED
    BY <2>1, <2>2, HandleFits, Zenon
<1>3. CASE ReceiveStray
  <2>1. PICK m \in Strays : Handle(m.dst, m.wire, m.inside, TRUE)
    BY <1>3, Zenon DEF ReceiveStray
  <2>2. changes' = changes + 1 /\ m.dst \in Daemons
    BY <1>3, NodesAssumption, Zenon DEF ReceiveStray, Spend
  <2> QED
    BY <2>1, <2>2, HandleFits, Zenon
<1>4. ASSUME NEW x \in Daemons, TakeControl(x) PROVE CountInv'
  BY <1>1, <1>4, QuietFits, Zenon DEF TakeControl
<1>5. ASSUME NEW x \in Daemons, OnEvent(x) PROVE CountInv'
  <2>1. store' = store /\ bc' = bc /\ host' = host /\ net' = net
    BY <1>5, Zenon DEF OnEvent, gossip
  <2>2. changes' = changes \/ changes' = changes + 1
    BY <1>5, Zenon DEF OnEvent, Save, Spend
  <2> QED
    BY <1>1, <2>1, <2>2, QuietFits, Zenon
<1>6. ASSUME NEW x \in Daemons, Renumber(x) PROVE CountInv'
  <2>1. /\ store' = store /\ bc' = bc /\ net' = net /\ changes' = changes + 1
        /\ DOMAIN host' = Daemons
    BY <1>1, <1>6, Zenon DEF Renumber, gossip, Spend
  <2> QED
    BY <2>1, QuietFits, Zenon
<1>7. CASE UNCHANGED vars
  BY <1>1, <1>7, QuietFits, Zenon DEF vars
<1> QED
  BY <1>2, <1>3, <1>4, <1>5, <1>6, <1>7, TickFits, RestartFits, CommandFits, Zenon DEF Next

-----------------------------------------------------------------------------
(* Types and sizes.                                                        *)
Taken(st) == {k \in DOMAIN st : st[k] # NoEntry}
Roomy(st) == IsFiniteSet(Taken(st)) /\ Cardinality(Taken(st)) =< MaxStoreEntries
TypeInv ==
  /\ DOMAIN store = Daemons /\ \A x \in Daemons : Roomy(store[x])
  /\ events \in [Daemons -> Seq(Told)] /\ \A x \in Daemons : Len(events[x]) =< ChannelSize
  /\ peers \in [Daemons -> SUBSET Nodes] /\ targets \in [Daemons -> SUBSET Nodes]
  /\ DOMAIN ctl = Daemons /\ \A x \in Daemons : ctl[x] = NoControl \/ ctl[x] \subseteq Nodes
  /\ members \in [Daemons -> SUBSET Nodes] /\ disk \in [Daemons -> SUBSET Nodes]
  /\ changes \in 0..MaxChanges

\* The constants, one by one.
LEMMA Limits == MaxStoreEntries \in Nat /\ ChannelSize \in Nat /\ MaxChanges \in Nat
BY LimitsAssumption, Zenon

\* GossipStore::merge: an entry for a new key only where there is room.
LEMMA MergeRoomy ==
  ASSUME NEW st, NEW e, Roomy(st), merge(st, e) = "Applied"
  PROVE  Roomy(Merged(st, e))
<1> DEFINE new == Merged(st, e)
           k == KeyOf(e)
<1>1. new = [st EXCEPT ![k] = e]
  BY Zenon DEF Merged
<1>2. IsFiniteSet(Taken(st)) /\ Cardinality(Taken(st)) =< MaxStoreEntries
  BY Zenon DEF Roomy
<1>3. st[k] = NoEntry => ~(Size(st) >= MaxStoreEntries)
  BY Zenon DEF merge
<1>4. Size(st) = Cardinality(Taken(st))
  BY Zenon DEF Size, Taken
<1> HIDE DEF new, k
<1>5. Taken(new) \subseteq Taken(st) \cup {k} /\ (st[k] # NoEntry => Taken(new) \subseteq Taken(st))
  BY <1>1, Zenon DEF Taken
<1>6. /\ IsFiniteSet(Taken(new)) /\ Cardinality(Taken(st)) \in Nat /\ Cardinality(Taken(new)) \in Nat
      /\ Cardinality(Taken(new)) =< Cardinality(Taken(st)) + 1
      /\ Taken(new) \subseteq Taken(st) => Cardinality(Taken(new)) =< Cardinality(Taken(st))
  BY <1>2, <1>5, CountOne, Zenon
<1>7. CASE st[k] = NoEntry
  <2>1. ~(Cardinality(Taken(st)) >= MaxStoreEntries)
    BY <1>3, <1>4, <1>7, Zenon
  <2>2. Cardinality(Taken(new)) =< MaxStoreEntries
    BY <1>6, <2>1, Limits
  <2> QED
    BY <1>6, <2>2, Zenon DEF Roomy, new
<1>8. CASE st[k] # NoEntry
  <2>1. Cardinality(Taken(new)) =< Cardinality(Taken(st))
    BY <1>5, <1>6, <1>8, Zenon
  <2>2. Cardinality(Taken(new)) =< MaxStoreEntries
    BY <1>2, <1>6, <2>1, Limits
  <2> QED
    BY <1>6, <2>2, Zenon DEF Roomy, new
<1> QED
  BY <1>7, <1>8, Zenon

\* handle_datagram: a sender waits where the channel is full.
LEMMA HandleTyped ==
  ASSUME TypeInv, NEW y, NEW w, NEW inside, NEW listed, Handle(y, w, inside, listed),
         changes' \in 0..MaxChanges
  PROVE  TypeInv'
<1> DEFINE e == decode(w)
           st == Merged(store[y], e)
           ev == Event(st, e)
<1>1. /\ check(w) = "ok" /\ merge(store[y], e) = "Applied"
      /\ Len(events[y] \o ev) =< ChannelSize
      /\ store' = [store EXCEPT ![y] = st]
      /\ events' = [events EXCEPT ![y] = @ \o ev]
  BY Zenon DEF Handle, Accepts
<1>2. UNCHANGED <<targets, ctl, peers, members, disk>>
  BY Zenon DEF Handle, main
<1>3. e.kind \in Kinds /\ e.node \in CurvePoints
  BY <1>1, DecodedIsTyped, Zenon
<1>4. ev \in Seq(Told)
  <2>1. \/ ev = <<>> \/ ev = <<<<"MemberAdmitted", e.node>>>> \/ ev = <<<<"Revoked", e.node>>>>
    BY <1>3, EventIsAboutNode, Zenon
  <2>2. <<"MemberAdmitted", e.node>> \in Told /\ <<"Revoked", e.node>> \in Told
    BY <1>3, Zenon DEF Told
  <2>3. \A a \in Told : <<a>> \in Seq(Told)
    OBVIOUS
  <2>4. <<>> \in Seq(Told)
    OBVIOUS
  <2> QED
    BY <2>1, <2>2, <2>3, <2>4, Zenon
<1>5. DOMAIN store = Daemons /\ \A x \in Daemons : Roomy(store[x])
  BY Zenon DEF TypeInv
<1>6. y \in Daemons => Roomy(st)
  BY <1>1, <1>5, MergeRoomy, Zenon
<1> HIDE DEF e, st, ev
<1>7. DOMAIN store' = Daemons /\ \A x \in Daemons : Roomy(store'[x])
  BY <1>1, <1>5, <1>6, Zenon
<1>8. /\ events \in [Daemons -> Seq(Told)] /\ \A x \in Daemons : Len(events[x]) =< ChannelSize
  BY Zenon DEF TypeInv
<1>9. ASSUME NEW x \in Daemons PROVE events'[x] \in Seq(Told) /\ Len(events'[x]) =< ChannelSize
  <2>1. CASE x = y
    <3>1. events'[x] = events[x] \o ev /\ events[x] \in Seq(Told)
      BY <1>1, <1>8, <2>1, Zenon
    <3> QED
      BY <1>1, <1>4, <2>1, <3>1
  <2>2. CASE x # y
    BY <1>1, <1>8, <2>2, Zenon
  <2> QED
    BY <2>1, <2>2, Zenon
<1>10. events' \in [Daemons -> Seq(Told)]
  BY <1>1, <1>8, <1>9, Zenon
<1> QED
  BY <1>2, <1>7, <1>9, <1>10, Zenon DEF TypeInv

\* Between an event and the next, the tables of the main loop hold nodes.
LEMMA OnEventTyped ==
  ASSUME TypeInv, NEW y \in Daemons, OnEvent(y)
  PROVE  TypeInv'
<1> DEFINE n == Head(events[y])[2]
<1>1. /\ events \in [Daemons -> Seq(Told)] /\ peers \in [Daemons -> SUBSET Nodes]
      /\ members \in [Daemons -> SUBSET Nodes] /\ disk \in [Daemons -> SUBSET Nodes]
      /\ DOMAIN ctl = Daemons /\ (\A x \in Daemons : ctl[x] = NoControl \/ ctl[x] \subseteq Nodes)
      /\ changes \in 0..MaxChanges /\ \A x \in Daemons : Len(events[x]) =< ChannelSize
  BY Zenon DEF TypeInv
<1>2. /\ UNCHANGED <<store, targets>> /\ events[y] # <<>>
      /\ events' = [events EXCEPT ![y] = Tail(@)]
  BY Zenon DEF OnEvent, gossip
<1>3. events[y] \in Seq(Told) /\ Head(events[y]) \in Told
  BY <1>1, <1>2
<1>4. n \in Nodes
  BY <1>3, NodesAssumption, Zenon DEF Told
<1>5. /\ events' \in [Daemons -> Seq(Told)] /\ \A x \in Daemons : Len(events'[x]) =< ChannelSize
  <2>1. Tail(events[y]) \in Seq(Told) /\ Len(Tail(events[y])) =< ChannelSize
    BY <1>1, <1>2, <1>3, Limits
  <2> QED
    BY <1>1, <1>2, <2>1, Zenon
<1>6. \/ /\ UNCHANGED <<peers, members, disk, ctl, changes>>
      \/ /\ peers' = [peers EXCEPT ![y] = @ \cup {n}] /\ upsert(y, n) /\ Save(y, members'[y])
         /\ ctl' = [ctl EXCEPT ![y] = peers'[y]]
      \/ /\ Forget(y, n) /\ remove(y, n)
         /\ IF n \in members[y] THEN Save(y, members'[y]) ELSE UNCHANGED <<disk, changes>>
         /\ ctl' = [ctl EXCEPT ![y] = peers'[y]]
  BY Zenon DEF OnEvent
<1> HIDE DEF n
<1>7. peers' \in [Daemons -> SUBSET Nodes] /\ members' \in [Daemons -> SUBSET Nodes]
  <2>1. /\ peers[y] \cup {n} \in SUBSET Nodes /\ peers[y] \ {n} \in SUBSET Nodes
        /\ members[y] \cup {n} \in SUBSET Nodes /\ members[y] \ {n} \in SUBSET Nodes
    BY <1>1, <1>4, Zenon
  <2>2. \/ peers' = peers
        \/ peers' = [peers EXCEPT ![y] = peers[y] \cup {n}]
        \/ peers' = [peers EXCEPT ![y] = peers[y] \ {n}]
    BY <1>6, Zenon DEF Forget
  <2>3. \/ members' = members
        \/ members' = [members EXCEPT ![y] = members[y] \cup {n}]
        \/ members' = [members EXCEPT ![y] = members[y] \ {n}]
    BY <1>6, Zenon DEF upsert, remove
  <2>4. peers' \in [Daemons -> SUBSET Nodes]
    BY <1>1, <2>1, <2>2, Zenon
  <2>5. members' \in [Daemons -> SUBSET Nodes]
    BY <1>1, <2>1, <2>3, Zenon
  <2> QED
    BY <2>4, <2>5
<1>8. DOMAIN ctl' = Daemons /\ \A x \in Daemons : ctl'[x] = NoControl \/ ctl'[x] \subseteq Nodes
  BY <1>1, <1>6, <1>7, Zenon
<1>9. disk' \in [Daemons -> SUBSET Nodes] /\ changes' \in 0..MaxChanges
  <2>1. Save(y, members'[y]) \/ UNCHANGED <<disk, changes>>
    BY <1>6, Zenon
  <2>2. CASE Save(y, members'[y])
    <3>1. \/ disk' = [disk EXCEPT ![y] = members'[y]] /\ changes' = changes
          \/ disk' = disk /\ changes < MaxChanges /\ changes' = changes + 1
      BY <2>2, Zenon DEF Save, Spend
    <3>2. changes' \in 0..MaxChanges
      BY <1>1, <3>1, Limits
    <3>3. members'[y] \in SUBSET Nodes
      BY <1>7, Zenon
    <3>4. disk' \in [Daemons -> SUBSET Nodes]
      BY <1>1, <3>1, <3>3, Zenon
    <3> QED
      BY <3>2, <3>4, Zenon
  <2>3. CASE UNCHANGED <<disk, changes>>
    BY <1>1, <2>3, Zenon
  <2> QED
    BY <2>1, <2>2, <2>3, Zenon
<1> QED
  BY <1>2, <1>5, <1>7, <1>8, <1>9, Zenon DEF TypeInv

\* A daemon that starts again.
LEMMA RestartTyped ==
  ASSUME TypeInv, NEW y \in Daemons, Restart(y)
  PROVE  TypeInv'
<1>1. /\ DOMAIN store = Daemons /\ (\A x \in Daemons : Roomy(store[x]))
      /\ events \in [Daemons -> Seq(Told)] /\ (\A x \in Daemons : Len(events[x]) =< ChannelSize)
      /\ peers \in [Daemons -> SUBSET Nodes] /\ targets \in [Daemons -> SUBSET Nodes]
      /\ DOMAIN ctl = Daemons /\ (\A x \in Daemons : ctl[x] = NoControl \/ ctl[x] \subseteq Nodes)
      /\ members \in [Daemons -> SUBSET Nodes] /\ disk \in [Daemons -> SUBSET Nodes]
      /\ changes \in 0..MaxChanges
  BY Zenon DEF TypeInv
<1>2. /\ store' = [store EXCEPT ![y] = EmptyStore] /\ events' = [events EXCEPT ![y] = <<>>]
      /\ members' = [members EXCEPT ![y] = disk[y]]
      /\ peers' = [peers EXCEPT ![y] = StartPeers(y, disk[y])]
      /\ targets' = [targets EXCEPT ![y] = StartPeers(y, disk[y])]
      /\ ctl' = [ctl EXCEPT ![y] = NoControl] /\ disk' = disk
  BY Zenon DEF Restart
<1>3. changes' \in 0..MaxChanges
  BY <1>1, Limits DEF Restart, Spend
<1>4. StartPeers(y, disk[y]) \subseteq Nodes
  BY <1>1, ConfiguredAssumption, Zenon DEF StartPeers
<1>5. Roomy(EmptyStore)
  <2>1. Taken(EmptyStore) = {}
    BY Zenon DEF Taken, EmptyStore
  <2> QED
    BY <2>1, FS_EmptySet, Limits DEF Roomy
<1>6. DOMAIN store' = Daemons /\ \A x \in Daemons : Roomy(store'[x])
  BY <1>1, <1>2, <1>5, Zenon
<1>7. events' \in [Daemons -> Seq(Told)] /\ \A x \in Daemons : Len(events'[x]) =< ChannelSize
  BY <1>1, <1>2, Limits
<1>8. /\ peers' \in [Daemons -> SUBSET Nodes] /\ targets' \in [Daemons -> SUBSET Nodes]
      /\ members' \in [Daemons -> SUBSET Nodes] /\ disk' \in [Daemons -> SUBSET Nodes]
  BY <1>1, <1>2, <1>4, Zenon
<1>9. DOMAIN ctl' = Daemons /\ \A x \in Daemons : ctl'[x] = NoControl \/ ctl'[x] \subseteq Nodes
  BY <1>1, <1>2, Zenon
<1> QED
  BY <1>3, <1>6, <1>7, <1>8, <1>9, Zenon DEF TypeInv

\* The sizes and types at the start.
LEMMA InitTyped == Init => TypeInv
<1> SUFFICES ASSUME Init PROVE TypeInv
  BY Zenon
<1>1. Roomy(EmptyStore)
  <2>1. Taken(EmptyStore) = {}
    BY Zenon DEF Taken, EmptyStore
  <2> QED
    BY <2>1, FS_EmptySet, Limits DEF Roomy
<1>2. DOMAIN store = Daemons /\ \A x \in Daemons : Roomy(store[x])
  BY <1>1, Zenon DEF Init
<1>3. events \in [Daemons -> Seq(Told)] /\ \A x \in Daemons : Len(events[x]) =< ChannelSize
  BY Limits DEF Init
<1> QED
  BY <1>2, <1>3, ConfiguredAssumption, Limits DEF Init, TypeInv

\* Every step keeps sizes and types.
LEMMA NextTyped ==
  ASSUME TypeInv, [Next]_vars
  PROVE  TypeInv'
<1>1. changes \in 0..MaxChanges /\ (Spend => changes' \in 0..MaxChanges)
  BY Limits DEF TypeInv, Spend
<1>2. ASSUME UNCHANGED <<store, targets, events, ctl, peers, members, disk>>, changes' \in 0..MaxChanges
      PROVE  TypeInv'
  BY <1>2, Zenon DEF TypeInv
<1>3. ASSUME NEW x \in Daemons, BroadcastTick(x) PROVE TypeInv'
  BY <1>1, <1>2, <1>3, Zenon DEF BroadcastTick, main
<1>4. ASSUME NEW x \in Daemons, Receive(x) PROVE TypeInv'
  <2>1. PICK m \in net, listed \in BOOLEAN :
          Handle(x, m[2], TRUE, listed) /\ IF listed THEN UNCHANGED changes ELSE Spend
    BY <1>4, Zenon DEF Receive
  <2> QED
    BY <1>1, <2>1, HandleTyped, Zenon
<1>5. ASSUME NEW x \in Daemons, TakeControl(x) PROVE TypeInv'
  <2>1. /\ UNCHANGED <<store, events, peers, members, disk, changes>> /\ ctl[x] # NoControl
        /\ targets' = [targets EXCEPT ![x] = ctl[x]] /\ ctl' = [ctl EXCEPT ![x] = NoControl]
    BY <1>5, Zenon DEF TakeControl, main
  <2>2. targets' \in [Daemons -> SUBSET Nodes]
    BY <2>1, Zenon DEF TypeInv
  <2>3. DOMAIN ctl' = Daemons /\ \A y \in Daemons : ctl'[y] = NoControl \/ ctl'[y] \subseteq Nodes
    BY <2>1, Zenon DEF TypeInv
  <2> QED
    BY <2>1, <2>2, <2>3, Zenon DEF TypeInv
<1>6. ASSUME NEW x \in Daemons, Renumber(x) \/ Command(x) PROVE TypeInv'
  BY <1>1, <1>2, <1>6, Zenon DEF Renumber, Command, gossip, main
<1>7. CASE ReceiveStray
  <2>1. PICK m \in Strays : Handle(m.dst, m.wire, m.inside, TRUE)
    BY <1>7, Zenon DEF ReceiveStray
  <2> QED
    BY <1>1, <1>7, <2>1, HandleTyped, Zenon DEF ReceiveStray
<1>8. CASE UNCHANGED vars
  BY <1>1, <1>2, <1>8, Zenon DEF vars
<1> QED
  BY <1>3, <1>4, <1>5, <1>6, <1>7, <1>8, OnEventTyped, RestartTyped, Zenon DEF Next

\* What a table may hold and how it may change (GossipStore::merge, the checks
\* before it, own_entry of Broadcast): no more than MAX_STORE_ENTRIES, authorised
\* words only, forward only, and no version of a node's own entry without a
\* change, in a mesh of any size, however the datagrams go round.
THEOREM StoreAlwaysSound == Spec => StoreSound
<1>1. TypeInv => MeshTypeOK
  BY Zenon DEF TypeInv, MeshTypeOK, Roomy, Size, Taken
<1>2. CountInv => NoSelfExcitation
  <2> SUFFICES ASSUME CountInv, NEW x \in Daemons
               PROVE  Cardinality(InNet(net, x)) =< changes + 1
    BY Zenon DEF NoSelfExcitation, InNet
  <2>1. /\ changes \in Nat /\ IsFiniteSet(Versions(x))
        /\ Cardinality(Versions(x)) + Pending(host[x], bc[x]) =< changes + 1
    BY Zenon DEF CountInv, Fits
  <2>2. InNet(net, x) \subseteq Versions(x)
    BY Zenon DEF Versions
  <2>3. /\ Cardinality(InNet(net, x)) \in Nat /\ Cardinality(Versions(x)) \in Nat
        /\ Cardinality(InNet(net, x)) =< Cardinality(Versions(x))
    BY <2>1, <2>2, CountOne, Zenon
  <2>4. Pending(host[x], bc[x]) \in 0..1
    BY PendingOne, Zenon
  <2> QED
    BY <2>1, <2>3, <2>4
<1>3. Spec => []TypeInv
  BY InitTyped, NextTyped, PTL DEF Spec
<1>4. Spec => []CountInv
  BY CountInit, CountNext, PTL DEF Spec
<1> QED
  BY <1>1, <1>2, <1>3, <1>4, OnlyOwnWords, StoreOnlyAdvances, PTL DEF StoreSound
=============================================================================
