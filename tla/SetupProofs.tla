----------------------------- MODULE SetupProofs -----------------------------
(***************************************************************************)
(* Setup for all keys, names, paths, hashes, prefix lengths and files: no     *)
(* address has two owners in a configuration that loads, a key goes only       *)
(* where that was asked for, who joins was invited, and the files that the     *)
(* commands leave are fit for use.                                           *)
(***************************************************************************)
EXTENDS Setup, FiniteSetTheorems, TLAPS

Routes == [prefix : Ipv6Addr, len : Nat]

\* Two routes with an address in common overlap: one holds the other's prefix.
LEMMA Nested ==
  ASSUME NEW r \in Routes, NEW s \in Routes, NEW a \in Ipv6Addr, contains(r, a), contains(s, a)
  PROVE  overlaps(r, s)
<1>1. ASSUME NEW x \in Routes, NEW y \in Routes, x.len =< y.len, contains(x, a), contains(y, a)
      PROVE  contains(x, y.prefix)
  <2>1. ASSUME NEW b \in 1..Width PROVE (IF b \in 1..x.len THEN y.prefix[b] ELSE 0) = x.prefix[b]
    <3>1. x.prefix[b] = IF b \in 1..x.len THEN a[b] ELSE 0
      BY <1>1, Zenon DEF contains, apply_mask, mask
    <3>2. y.prefix[b] = IF b \in 1..y.len THEN a[b] ELSE 0
      BY <1>1, Zenon DEF contains, apply_mask, mask
    <3> QED BY <3>1, <3>2, <1>1, Lengths DEF Routes
  <2>2. x.prefix = [b \in 1..Width |-> x.prefix[b]]
    BY Zenon DEF Routes, Ipv6Addr, Bits
  <2> QED BY <2>1, <2>2, Zenon DEF contains, apply_mask, mask
<1>2. r.len =< s.len \/ s.len =< r.len
  BY DEF Routes
<1> QED BY <1>1, <1>2, Zenon DEF overlaps

\* A node's site is an address inside the overlay.
LEMMA SiteBits ==
  ASSUME NEW k \in NetworkKeys, NEW n \in CurvePoints
  PROVE  LET site == derive_node_addr(k, n).site IN
         /\ network(k) \in Ipv6Addr /\ site \in Ipv6Addr
         /\ Route(site, SiteLen) \in Routes /\ Route(network(k), OverlayLen) \in Routes
         /\ \A b \in 1..Width : b =< OverlayLen => site[b] = network(k)[b]
         /\ \A b \in 1..Width : b > OverlayLen => network(k)[b] = 0
         /\ \A b \in 1..Width : OverlayLen < b /\ b =< SiteLen => site[b] = SubnetId(n)[b - OverlayLen]
<1> DEFINE site == derive_node_addr(k, n).site
<1>0. /\ NetworkId(k) \in [1..OverlayLen -> {0, 1}] /\ DOMAIN NetworkId(k) = 1..OverlayLen
      /\ SubnetId(n) \in [1..SiteLen - OverlayLen -> {0, 1}] /\ DOMAIN SubnetId(n) = 1..SiteLen - OverlayLen
  BY Hashes, Zenon DEF Bits
<1>1. network(k) = [b \in 1..Width |-> IF b - 0 \in 1..OverlayLen THEN NetworkId(k)[b - 0] ELSE 0]
  BY <1>0, Zenon DEF network, Copied, Zero
<1>2. site = [b \in 1..Width |-> IF b - OverlayLen \in 1..SiteLen - OverlayLen
                                 THEN SubnetId(n)[b - OverlayLen] ELSE network(k)[b]]
  BY <1>0, Zenon DEF derive_node_addr, Copied
<1> HIDE DEF site
<1>3. network(k) \in Ipv6Addr
  BY <1>0, <1>1, Lengths, Zenon DEF Ipv6Addr, Bits
<1>4. site \in Ipv6Addr
  BY <1>0, <1>2, <1>3, Lengths, Zenon DEF Ipv6Addr, Bits
<1>5. \A b \in 1..Width : b =< OverlayLen => site[b] = network(k)[b]
  BY <1>2, Lengths
<1>6. \A b \in 1..Width : b > OverlayLen => network(k)[b] = 0
  BY <1>1, Lengths
<1>7. \A b \in 1..Width : OverlayLen < b /\ b =< SiteLen => site[b] = SubnetId(n)[b - OverlayLen]
  BY <1>2, Lengths
<1> QED BY <1>3, <1>4, <1>5, <1>6, <1>7, Lengths, Zenon DEF site, Routes, Route

\* Who has an address of a site has it in the overlay.
LEMMA SiteInOverlay ==
  ASSUME NEW k \in NetworkKeys, NEW n \in CurvePoints, NEW a \in Ipv6Addr,
         contains(Route(derive_node_addr(k, n).site, SiteLen), a)
  PROVE  contains(Route(network(k), OverlayLen), a)
<1> DEFINE site == derive_node_addr(k, n).site
<1>1. site = [b \in 1..Width |-> IF b \in 1..SiteLen THEN a[b] ELSE 0]
  BY Zenon DEF contains, apply_mask, mask, Route
<1>2. /\ network(k) \in Ipv6Addr
      /\ \A b \in 1..Width : b =< OverlayLen => site[b] = network(k)[b]
      /\ \A b \in 1..Width : b > OverlayLen => network(k)[b] = 0
  BY SiteBits, Zenon
<1> HIDE DEF site
<1>3. \A b \in 1..Width : (IF b \in 1..OverlayLen THEN a[b] ELSE 0) = network(k)[b]
  BY <1>1, <1>2, Lengths
<1>4. network(k) = [b \in 1..Width |-> network(k)[b]]
  BY <1>2, Zenon DEF Ipv6Addr, Bits
<1> QED BY <1>3, <1>4, Zenon DEF contains, apply_mask, mask, Route

\* Two nodes whose sites share an address have the same subnet id.
LEMMA SitesApart ==
  ASSUME NEW k \in NetworkKeys, NEW m \in CurvePoints, NEW n \in CurvePoints, NEW a \in Ipv6Addr,
         contains(Route(derive_node_addr(k, m).site, SiteLen), a),
         contains(Route(derive_node_addr(k, n).site, SiteLen), a)
  PROVE  SubnetId(m) = SubnetId(n)
<1>1. derive_node_addr(k, m).site = derive_node_addr(k, n).site
  BY Zenon DEF contains, Route
<1>2. ASSUME NEW x \in {m, n}, NEW i \in 1..SiteLen - OverlayLen
      PROVE  derive_node_addr(k, x).site[i + OverlayLen] = SubnetId(x)[i]
  <2>1. i + OverlayLen \in 1..Width /\ OverlayLen < i + OverlayLen /\ i + OverlayLen =< SiteLen /\ (i + OverlayLen) - OverlayLen = i
    BY Lengths
  <2>2. \A b \in 1..Width : OverlayLen < b /\ b =< SiteLen => derive_node_addr(k, x).site[b] = SubnetId(x)[b - OverlayLen]
    BY SiteBits
  <2> QED BY <2>1, <2>2, Zenon
<1>3. \A i \in 1..SiteLen - OverlayLen : SubnetId(m)[i] = SubnetId(n)[i]
  BY <1>1, <1>2, Zenon
<1>4. SubnetId(m) \in [1..SiteLen - OverlayLen -> {0, 1}] /\ SubnetId(n) \in [1..SiteLen - OverlayLen -> {0, 1}]
  BY Hashes, Zenon DEF Bits
<1>5. /\ SubnetId(m) = [i \in 1..SiteLen - OverlayLen |-> SubnetId(m)[i]]
      /\ SubnetId(n) = [i \in 1..SiteLen - OverlayLen |-> SubnetId(n)[i]]
  BY <1>4, Zenon
<1> QED BY <1>3, <1>5, Zenon

\* What it takes to load: the checks of load, one by one.
Loads(raw, own) ==
  /\ NodeError(raw.node) = "ok" /\ raw.key \in NetworkKeys
  /\ \A i \in DOMAIN raw.peers : PeerError(raw.peers[i]) = "ok"
  /\ \A i, j \in DOMAIN raw.peers : i < j => raw.peers[i].public_key # raw.peers[j].public_key
  /\ raw.node.relay_allow \cup raw.node.admin_keys \subseteq CurvePoints
  /\ own # NoOne => ~Degenerate(own)
  /\ check_subnet_collisions(KeyOf(raw.peers) \o (IF own = NoOne THEN <<>> ELSE <<own>>))
  /\ ~Conflicts(raw, own) /\ ~Overlap(raw.peers)
\* load comes to "ok" exactly when each of these checks passes.
LEMMA LoadChecks ==
  ASSUME NEW raw, NEW own
  PROVE  load(raw, own) = "ok" <=> Loads(raw, own)
BY Zenon DEF load, Loads

\* The node at a place among the peers and, after them, this node; its routes.
NodeAt(raw, own, i) == IF i \in DOMAIN raw.peers THEN raw.peers[i].public_key ELSE own
RoutesAt(raw, i) == IF i \in DOMAIN raw.peers THEN RoutesOf(raw.peers[i]) ELSE {}
RangesAt(raw, own, i) == {Route(derive_node_addr(raw.key, NodeAt(raw, own, i)).site, SiteLen)} \cup RoutesAt(raw, i)

\* The keys of a list of peers, in its order.
LEMMA KeysTyped ==
  ASSUME NEW peers \in Seq(Peers)
  PROVE  /\ KeyOf(peers) \in Seq(KeyTexts) /\ Len(KeyOf(peers)) = Len(peers)
         /\ \A x \in 1..Len(peers) : KeyOf(peers)[x] = peers[x].public_key
<1>1. ASSUME NEW x \in 1..Len(peers) PROVE peers[x].public_key \in KeyTexts
  <2>1. peers[x] \in Peers
    OBVIOUS
  <2> QED BY <2>1, Zenon DEF Peers
<1>2. KeyOf(peers) = [x \in 1..Len(peers) |-> peers[x].public_key]
  BY DEF KeyOf
<1>3. Len(peers) \in Nat
  OBVIOUS
<1> QED BY <1>1, <1>2, <1>3

\* The places of a configuration that loads have different subnet ids.
LEMMA PlacesApart ==
  ASSUME NEW raw, raw.peers \in Seq(Peers), NEW own \in CurvePoints, Loads(raw, own),
         NEW i \in 1..Len(raw.peers) + 1, NEW j \in 1..Len(raw.peers) + 1,
         SubnetId(NodeAt(raw, own, i)) = SubnetId(NodeAt(raw, own, j))
  PROVE  i = j
<1> DEFINE all == KeyOf(raw.peers) \o <<own>>
<1>1. /\ KeyOf(raw.peers) \in Seq(KeyTexts) /\ Len(KeyOf(raw.peers)) = Len(raw.peers)
      /\ \A x \in 1..Len(raw.peers) : KeyOf(raw.peers)[x] = raw.peers[x].public_key
  BY KeysTyped, Zenon
<1>2. DOMAIN raw.peers = 1..Len(raw.peers)
  OBVIOUS
<1>3. DOMAIN all = 1..Len(raw.peers) + 1
  BY <1>1, Keys, SMTT(30)
<1>4. \A x \in 1..Len(raw.peers) + 1 : all[x] = NodeAt(raw, own, x)
  BY <1>1, <1>2, Keys, SMTT(30) DEF NodeAt
<1>5. check_subnet_collisions(all)
  BY Keys, Zenon DEF Loads
<1> QED BY <1>3, <1>4, <1>5, Zenon DEF check_subnet_collisions

\* The routes of a peer of such a configuration are outside of the overlay.
LEMMA RoutesTyped ==
  ASSUME NEW raw, raw.peers \in Seq(Peers), NEW own \in CurvePoints, Loads(raw, own), NEW i
  PROVE  /\ RoutesAt(raw, i) \subseteq Routes
         /\ \A r \in RoutesAt(raw, i) : ~overlaps(r, Route(network(raw.key), OverlayLen))
<1>1. CASE i \notin DOMAIN raw.peers
  BY <1>1, Zenon DEF RoutesAt
<1>2. CASE i \in DOMAIN raw.peers
  <2>1. raw.peers[i] \in Peers
    BY <1>2
  <2>2. RoutesOf(raw.peers[i]) \subseteq Routes
    <3>1. raw.peers[i].routes \in Seq(RouteTexts)
      BY <2>1, Zenon DEF Peers
    <3>2. ASSUME NEW x \in DOMAIN raw.peers[i].routes PROVE BareRoute(raw.peers[i].routes[x]) \in Routes
      <4>1. raw.peers[i].routes[x] \in RouteTexts
        BY <3>1
      <4> QED BY <4>1, Zenon DEF RouteTexts, Routes, BareRoute, Route
    <3> QED BY <3>2, Zenon DEF RoutesOf
  <2>3. \A r \in RoutesOf(raw.peers[i]) : ~overlaps(r, Route(network(raw.key), OverlayLen))
    BY <1>2, Zenon DEF Loads, Conflicts
  <2> QED BY <1>2, <2>2, <2>3, Zenon DEF RoutesAt
<1> QED BY <1>1, <1>2, Zenon

\* No address is in the ranges of two places of a configuration that loads.
LEMMA LoadedApart ==
  ASSUME NEW raw, raw.peers \in Seq(Peers), NEW own \in CurvePoints, Loads(raw, own),
         NEW i \in 1..Len(raw.peers) + 1, NEW j \in 1..Len(raw.peers) + 1, NEW a \in Ipv6Addr,
         NEW r \in RangesAt(raw, own, i), NEW s \in RangesAt(raw, own, j), contains(r, a), contains(s, a)
  PROVE  i = j
<1> DEFINE overlay == Route(network(raw.key), OverlayLen)
           Site(x) == Route(derive_node_addr(raw.key, NodeAt(raw, own, x)).site, SiteLen)
<1>1. raw.key \in NetworkKeys
  BY Zenon DEF Loads
<1>2. ASSUME NEW x \in 1..Len(raw.peers) + 1 PROVE NodeAt(raw, own, x) \in CurvePoints
  <2>1. CASE x \in DOMAIN raw.peers
    <3>1. PeerError(raw.peers[x]) = "ok"
      BY <2>1, Zenon DEF Loads
    <3> QED BY <2>1, <3>1, Zenon DEF NodeAt, PeerError
  <2>2. CASE x \notin DOMAIN raw.peers
    BY <2>2, Zenon DEF NodeAt
  <2> QED BY <2>1, <2>2, Zenon
<1>3. overlay \in Routes
  BY <1>1, <1>2, SiteBits, Zenon
<1>4. ASSUME NEW x \in 1..Len(raw.peers) + 1, NEW t, NEW y \in 1..Len(raw.peers) + 1,
             t \in RoutesAt(raw, y), contains(Site(x), a), contains(t, a)
      PROVE  FALSE
  <2>1. contains(overlay, a)
    BY <1>1, <1>2, <1>4, SiteInOverlay, Zenon
  <2>2. t \in Routes /\ ~overlaps(t, overlay)
    BY <1>4, RoutesTyped, Zenon
  <2> QED BY <1>3, <1>4, <2>1, <2>2, Nested, Zenon
<1>5. CASE r = Site(i) /\ s = Site(j)
  BY <1>1, <1>2, <1>5, SitesApart, PlacesApart
<1>6. CASE r \in RoutesAt(raw, i) /\ s \in RoutesAt(raw, j)
  <2>1. r \in Routes /\ s \in Routes
    BY <1>6, RoutesTyped, Zenon
  <2>2. overlaps(r, s) /\ overlaps(s, r)
    BY <2>1, Nested, Zenon
  <2>3. i \in DOMAIN raw.peers /\ j \in DOMAIN raw.peers /\ r \in RoutesOf(raw.peers[i]) /\ s \in RoutesOf(raw.peers[j])
    BY <1>6, Zenon DEF RoutesAt
  <2>4. ~(i < j) /\ ~(j < i)
    BY <2>2, <2>3, Zenon DEF Loads, Overlap
  <2> QED BY <2>4
<1>7. CASE r = Site(i) /\ s \in RoutesAt(raw, j)
  BY <1>4, <1>7, Zenon
<1>8. CASE r \in RoutesAt(raw, i) /\ s = Site(j)
  BY <1>4, <1>8, Zenon
<1> QED BY <1>5, <1>6, <1>7, <1>8, Zenon DEF RangesAt

-----------------------------------------------------------------------------
(* The invariant. *)
WritingCmds == [op : {"join", "init"}, step : {"key", "create", "write", "undo"}, k : KeyArgs,
                id : Identities, generated : BOOLEAN, file : Files]
KeygenCmds == [op : {"keygen"}, step : {"key"}, k : KeyArgs, id : Identities, force : BOOLEAN]
AddCmds == [op : {"add"}, step : {"append", "verify"}, id : Identities, original : Files, block : Blocks]
\* What a running command knows still holds: the key it found or made is where it
\* was, and its file will load.
WritingOK(c) ==
  /\ c \in WritingCmds
  /\ IF c.step = "key" THEN c.generated ELSE key[Full(c.k)] = c.id
  /\ Len(c.file) > 0 /\ c.file[1].key_file = key_file_ref_for_config(ConfArg, c.k)
  /\ c.file[1].name \notin Unescaped => ConfigError(c.file, c.id) = "ok"
AddOK(c) ==
  /\ c \in AddCmds
  /\ ConfigError(c.original, c.id) = "ok"
  /\ IdentityAt(Resolve(ConfArg, c.original[1].key_file)) = c.id
  /\ conf = IF c.step = "append" THEN c.original ELSE Append(c.original, c.block)
HostsOK(c) ==
  /\ DOMAIN c = {"op", "step", "file", "conf"}
  /\ c.op = "hosts" /\ c.step \in {"tmp", "rename"} /\ c.conf \in Files /\ Parses(c.conf)
  /\ c.file = render_hosts(RawOf(c.conf).peers, c.conf[1].key)
  /\ c.step = "rename" => tmp = "whole"
CommandOK(c) == c = Idle \/ WritingOK(c) \/ c \in KeygenCmds \/ AddOK(c) \/ HostsOK(c)

\* A token as `invite new` makes it.
Invitation(m, name, at) ==
  Invite(name, MembersKey, m, at, parse_ttl(1, 1), 4193, <<Peer("bootstrap", m, <<V6(m)>>)>>)
TokensOK ==
  \A t \in tokens : \E m \in Members, name \in NetworkNames, at \in 0..MaxNow :
    t = encode(Invitation(m, name, at), m)

SetupInv == SetupTypeOK /\ hosts \in {"none", "whole"} /\ CommandOK(cmd) /\ TokensOK

-----------------------------------------------------------------------------
(* Files. *)
\* A head is one, whoever wrote it.
LEMMA HeadShape ==
  ASSUME NEW h \in Heads
  PROVE  h.tag = "file" /\ h.peers \in Seq(Peers)
<1>1. CASE h \in HandWritten
  BY <1>1, Arguments, Zenon
<1>2. CASE h \notin HandWritten
  <2>1. PICK name \in NetworkNames, netkey \in NetworkKeys, k \in KeyArgs :
          h = render_template(name, netkey, key_file_ref_for_config(ConfArg, k))
    BY <1>2 DEF Heads
  <2>2. h.tag = "file" /\ h.peers = <<>>
    BY <2>1, Zenon DEF render_template
  <2> QED BY <2>2
<1> QED BY <1>1, <1>2, Zenon

\* A file that parses has a head, and its peers are peers.
LEMMA FileRaw ==
  ASSUME NEW f \in Files, Parses(f)
  PROVE  f # <<>> /\ f[1] \in Heads /\ RawOf(f).peers \in Seq(Peers)
<1>1. f \in Seq(Heads \cup Blocks \cup {Torn}) /\ Len(f) \in Nat /\ Len(f) > 0 /\ DOMAIN f = 1..Len(f)
  BY DEF Files, Parses
<1>2. f[1] \in Heads
  BY <1>1 DEF Files, Parses, Torn
<1>3. f[1].peers \in Seq(Peers)
  BY <1>2, HeadShape, Zenon
<1>4. ASSUME NEW i \in 1..Len(f) - 1 PROVE f[i + 1].peer \in Peers
  <2>1. i + 1 \in DOMAIN f /\ i + 1 # 1 /\ i + 1 \in 2..Len(f)
    BY <1>1
  <2>2. f[i + 1] \in Blocks
    BY <2>1 DEF Files, Parses, Torn
  <2> QED BY <2>2, Zenon DEF Blocks
<1>5. [i \in 1..Len(f) - 1 |-> f[i + 1].peer] \in Seq(Peers)
  BY <1>1, <1>4
<1> QED BY <1>1, <1>2, <1>3, <1>5 DEF RawOf

\* What the writes leave: nothing, a torn chunk, a head alone, a file with a
\* further block or a torn one.
LEMMA FilesWritten ==
  /\ <<>> \in Files /\ <<Torn>> \in Files
  /\ \A h \in Heads : <<h>> \in Files
  /\ \A f \in Files, c \in Blocks \cup {Torn} : f # <<>> => Append(f, c) \in Files
<1>1. <<>> \in Files /\ <<Torn>> \in Files
  BY DEF Files
<1>2. \A h \in Heads : <<h>> \in Files
  BY DEF Files
<1>3. ASSUME NEW f \in Files, NEW c \in Blocks \cup {Torn}, f # <<>> PROVE Append(f, c) \in Files
  <2>1. f \in Seq(Heads \cup Blocks \cup {Torn}) /\ Len(f) \in Nat /\ Len(f) > 0
    BY <1>3 DEF Files
  <2>2. Append(f, c) \in Seq(Heads \cup Blocks \cup {Torn}) /\ DOMAIN Append(f, c) = 1..Len(f) + 1
    BY <2>1
  <2>3. ASSUME NEW i \in 1..Len(f) + 1
        PROVE  Append(f, c)[i] \in (IF i = 1 THEN Heads ELSE Blocks) \cup {Torn}
    <3>1. CASE i = Len(f) + 1
      BY <2>1, <3>1
    <3>2. CASE i \in 1..Len(f)
      <4>1. Append(f, c)[i] = f[i] /\ i \in DOMAIN f
        BY <2>1, <3>2
      <4> QED BY <4>1, Zenon DEF Files
    <3> QED BY <2>1, <3>1, <3>2
  <2> QED BY <2>2, <2>3, Zenon DEF Files
<1> QED BY <1>1, <1>2, <1>3, Zenon

\* What loads with this node's key loads without it.
LEMMA LoadAnyway ==
  ASSUME NEW raw, raw.peers \in Seq(Peers), NEW own \in CurvePoints, Loads(raw, own)
  PROVE  Loads(raw, NoOne)
<1>1. own # NoOne
  BY Keys, Zenon
<1>2. /\ KeyOf(raw.peers) \in Seq(KeyTexts) /\ KeyOf(raw.peers) \o <<>> = KeyOf(raw.peers)
  BY KeysTyped
<1>3. check_subnet_collisions(KeyOf(raw.peers))
  <2>1. check_subnet_collisions(KeyOf(raw.peers) \o <<own>>)
    BY <1>1, Zenon DEF Loads
  <2>2. \A i \in DOMAIN KeyOf(raw.peers) : /\ i \in DOMAIN (KeyOf(raw.peers) \o <<own>>)
                                          /\ (KeyOf(raw.peers) \o <<own>>)[i] = KeyOf(raw.peers)[i]
    BY <1>2, Keys
  <2> QED BY <2>1, <2>2, Zenon DEF check_subnet_collisions
<1>4. ~Conflicts(raw, NoOne)
  BY Zenon DEF Loads, Conflicts
<1> QED BY <1>2, <1>3, <1>4, Zenon DEF Loads

\* ConfigError says "ok" for the files that are there, parse and load.
LEMMA ConfigChecks ==
  ASSUME NEW f, NEW own
  PROVE  ConfigError(f, own) = "ok" <=> f # NoFile /\ Parses(f) /\ Loads(RawOf(f), own)
BY LoadChecks, Zenon DEF ConfigError

\* A file that loads with this node's key loads without it.
LEMMA ConfigAnyway ==
  ASSUME NEW f \in Files, NEW own \in CurvePoints, ConfigError(f, own) = "ok"
  PROVE  ConfigError(f, NoOne) = "ok"
BY ConfigChecks, FileRaw, LoadAnyway, Zenon

\* No command takes the file that is not there for one.
LEMMA NoFileApart == NoFile \notin Files
<1>1. NoFile[1] \notin Blocks \cup {Torn}
  BY Zenon DEF NoFile, Blocks, Torn
<1>2. NoFile[1] \notin Heads
  <2>1. NoFile[1].tag # "file"
    BY Zenon DEF NoFile
  <2> QED BY <2>1, HeadShape, Zenon
<1> QED BY <1>1, <1>2 DEF Files, NoFile

\* Sequences are equal that have the same elements; what two make one after the
\* other.
LEMMA SameElements ==
  ASSUME NEW S, NEW p \in Seq(S), NEW q \in Seq(S), Len(p) = Len(q), \A i \in 1..Len(p) : p[i] = q[i]
  PROVE  p = q
<1>1. p = [i \in 1..Len(p) |-> p[i]] /\ q = [i \in 1..Len(q) |-> q[i]]
  OBVIOUS
<1> QED BY <1>1, Zenon
\* The elements of two sequences, one after the other.
LEMMA Joined ==
  ASSUME NEW S, NEW p \in Seq(S), NEW q \in Seq(S)
  PROVE  /\ p \o q \in Seq(S) /\ Len(p \o q) = Len(p) + Len(q)
         /\ \A i \in 1..Len(p) + Len(q) : (p \o q)[i] = IF i =< Len(p) THEN p[i] ELSE q[i - Len(p)]
OBVIOUS

\* A sequence is its beginning and the rest, whatever stands before.
LEMMA Rejoined ==
  ASSUME NEW S, NEW p \in Seq(S), NEW d \in Seq(S), NEW w \in Seq(S),
         Len(d) =< Len(p), SubSeq(p, 1, Len(d)) = d
  PROVE  /\ d \o SubSeq(p, Len(d) + 1, Len(p)) = p
         /\ (w \o d) \o SubSeq(p, Len(d) + 1, Len(p)) = w \o p
<1> DEFINE rest == SubSeq(p, Len(d) + 1, Len(p))
<1>1. Len(d) \in Nat /\ Len(p) \in Nat /\ Len(w) \in Nat
  OBVIOUS
<1>2. rest \in Seq(S) /\ Len(rest) = Len(p) - Len(d) /\ \A i \in 1..Len(p) - Len(d) : rest[i] = p[i + Len(d)]
  BY <1>1
<1>3. \A i \in 1..Len(d) : d[i] = p[i]
  <2>1. \A i \in 1..Len(d) : SubSeq(p, 1, Len(d))[i] = p[i]
    BY <1>1
  <2> QED BY <2>1, Zenon
<1>6. \A i \in 1..Len(p) : i > Len(d) => rest[i - Len(d)] = p[i]
  <2>1. ASSUME NEW i \in 1..Len(p), i > Len(d) PROVE rest[i - Len(d)] = p[i]
    <3>1. i - Len(d) \in 1..Len(p) - Len(d) /\ (i - Len(d)) + Len(d) = i
      BY <1>1, <2>1
    <3> QED BY <1>2, <3>1, Zenon
  <2> QED BY <2>1, Zenon
<1> HIDE DEF rest
<1>4. d \o rest = p
  <2>1. d \o rest \in Seq(S) /\ Len(d \o rest) = Len(p)
    BY <1>1, <1>2, Joined
  <2>2. ASSUME NEW i \in 1..Len(p) PROVE (d \o rest)[i] = p[i]
    <3>1. (d \o rest)[i] = IF i =< Len(d) THEN d[i] ELSE rest[i - Len(d)]
      BY <1>1, <1>2, Joined
    <3>2. CASE i =< Len(d)
      BY <1>1, <1>3, <3>1, <3>2
    <3>3. CASE i > Len(d)
      BY <1>1, <1>2, <3>1, <3>3, <1>6
    <3>4. i =< Len(d) \/ i > Len(d)
      BY <1>1
    <3> QED BY <3>2, <3>3, <3>4, Zenon
  <2> QED BY <2>1, <2>2, SameElements, Zenon
<1> DEFINE wd == w \o d
           wp == w \o p
<1>5. /\ wd \in Seq(S) /\ Len(wd) = Len(w) + Len(d)
      /\ wp \in Seq(S) /\ Len(wp) = Len(w) + Len(p)
      /\ \A i \in 1..Len(w) + Len(d) : wd[i] = IF i =< Len(w) THEN w[i] ELSE d[i - Len(w)]
      /\ \A i \in 1..Len(w) + Len(p) : wp[i] = IF i =< Len(w) THEN w[i] ELSE p[i - Len(w)]
  BY Joined, Zenon
<1> HIDE DEF wd, wp
<1>7. wd \o rest = wp
  <2>1. /\ wd \o rest \in Seq(S) /\ Len(wd \o rest) = Len(wd) + Len(rest)
        /\ \A i \in 1..Len(wd) + Len(rest) : (wd \o rest)[i] = IF i =< Len(wd) THEN wd[i] ELSE rest[i - Len(wd)]
    <3>1. wd \in Seq(S) /\ rest \in Seq(S)
      BY <1>2, <1>5, Zenon
    <3> QED BY <3>1, Joined, Zenon
  <2>2. Len(wd \o rest) = Len(wp)
    BY <1>1, <1>2, <1>5, <2>1
  <2>3. ASSUME NEW i \in 1..Len(wp) PROVE (wd \o rest)[i] = wp[i]
    <3>1. i \in 1..Len(w) + Len(p) /\ i \in 1..Len(wd) + Len(rest)
      BY <1>1, <1>2, <1>5
    <3>2. wp[i] = IF i =< Len(w) THEN w[i] ELSE p[i - Len(w)]
      BY <1>5, <3>1, Zenon
    <3>3. (wd \o rest)[i] = IF i =< Len(wd) THEN wd[i] ELSE rest[i - Len(wd)]
      BY <2>1, <3>1, Zenon
    <3>4. CASE i =< Len(wd)
      <4>1. wd[i] = IF i =< Len(w) THEN w[i] ELSE d[i - Len(w)]
        BY <1>1, <1>5, <3>1, <3>4
      <4>2. i > Len(w) => i - Len(w) \in 1..Len(d)
        BY <1>1, <1>5, <3>1, <3>4
      <4> QED BY <1>1, <1>3, <3>1, <3>2, <3>3, <3>4, <4>1, <4>2, SMTT(30)
    <3>5. CASE i > Len(wd)
      <4>1. /\ i - Len(w) \in 1..Len(p) /\ i - Len(w) > Len(d)
            /\ (i - Len(w)) - Len(d) = i - Len(wd) /\ i > Len(w)
        BY <1>1, <1>5, <3>1, <3>5, SMTT(30)
      <4>2. rest[i - Len(wd)] = p[i - Len(w)]
        BY <1>6, <4>1, Zenon
      <4> QED BY <1>1, <1>5, <3>1, <3>2, <3>3, <3>5, <4>1, <4>2
    <3> QED BY <1>1, <1>5, <3>1, <3>4, <3>5
  <2> QED BY <1>5, <2>1, <2>2, <2>3, SameElements, Zenon
<1> QED BY <1>4, <1>7, Zenon DEF rest, wd, wp

\* The key's path as it is written into the configuration leads back to the key.
LEMMA KeyFileFound ==
  ASSUME NEW k \in KeyArgs, Located(k)
  PROVE  Resolve(ConfArg, key_file_ref_for_config(ConfArg, k)) = Full(k)
<1> DEFINE dir == parent(ConfArg)
           d == dir.parts
           p == k.parts
<1>1. /\ k.abs \in BOOLEAN /\ p \in Seq(STRING) /\ Cwd \in Seq(STRING)
      /\ dir.abs = ConfArg.abs /\ ConfArg.abs \in BOOLEAN /\ ConfArg.parts \in Seq(STRING) /\ ConfArg.parts # <<>>
      /\ d = SubSeq(ConfArg.parts, 1, Len(ConfArg.parts) - 1)
  BY Arguments, Zenon DEF Paths, parent
<1>2. d \in Seq(STRING)
  BY <1>1
<1> HIDE DEF dir, d
<1>3. CASE ~Below(k, dir)
  BY <1>1, <1>3, Zenon DEF key_file_ref_for_config, strip_prefix, Resolve, Full, Located, dir
<1>4. CASE Below(k, dir)
  <2> DEFINE rest == SubSeq(p, Len(d) + 1, Len(p))
  <2>1. Len(d) \in Nat /\ Len(d) =< Len(p) /\ SubSeq(p, 1, Len(d)) = d
    BY <1>2, <1>4 DEF Below, d
  <2>2. p \in Seq(STRING) /\ d \in Seq(STRING) /\ Cwd \in Seq(STRING)
    BY <1>1, <1>2, Zenon
  <2>3. d \o rest = p /\ (Cwd \o d) \o rest = Cwd \o p
    <3> HIDE DEF p
    <3> QED BY <2>1, <2>2, Rejoined, ZenonT(40) DEF rest
  <2>4. Resolve(ConfArg, key_file_ref_for_config(ConfArg, k)) = Full(dir) \o rest
    BY <1>4, Zenon DEF key_file_ref_for_config, strip_prefix, Resolve, dir, d
  <2> QED BY <1>4, <2>3, <2>4, Zenon DEF Full, Below, d
<1> QED BY <1>3, <1>4, Zenon

-----------------------------------------------------------------------------
(* Joining and initialising. *)
\* The one entry of an invitation's bootstrap list.
Inviter(m) == Peer("bootstrap", m, <<V6(m)>>)
LEMMA InvitationShape ==
  ASSUME NEW m, NEW name, NEW at
  PROVE  LET inv == Invitation(m, name, at) IN
         /\ inv.network_name = name /\ inv.network_key = MembersKey /\ inv.bootstrap = <<Inviter(m)>>
         /\ inv.issuer = m
BY Zenon DEF Invitation, Invite, Inviter

\* A token that decodes has the payload that was signed, whatever was done to it.
LEMMA Untouched ==
  ASSUME NEW m, NEW inv, NEW t, t = encode(inv, m), NEW u \in {t} \cup Tampered(t), decode(u) = "ok"
  PROVE  u.parts[2] = inv
<1>1. t.parts = <<Prefix, inv, <<m, inv>>>>
  BY Zenon DEF encode, Token
<1>2. Len(u.parts) = 3 /\ u.parts[2] # Garbage /\ u.parts[3] = <<u.parts[2].issuer, u.parts[2]>>
  BY Zenon DEF decode
<1>3. \A x : [t.parts EXCEPT ![2] = x][3] = t.parts[3]
  BY <1>1
<1>4. u.parts[3] = t.parts[3]
  <2>1. CASE u = t \/ u = Token(t.parts, MaxTokenLen + 1)
    BY <2>1 DEF Token
  <2>2. CASE u = Token([t.parts EXCEPT ![2] = [@ EXCEPT !.expires = @ + 1]], t.size)
    BY <1>3, <2>2, Zenon DEF Token
  <2>3. CASE u = Token([t.parts EXCEPT ![2] = [@ EXCEPT !.network_key = "other"]], t.size)
    BY <1>3, <2>3, Zenon DEF Token
  <2>4. CASE u = Token([t.parts EXCEPT ![2] = Garbage], t.size)
    BY <1>3, <2>4, Zenon DEF Token
  <2>5. CASE u = Token(SubSeq(t.parts, 1, 2), t.size)
    <3>1. Len(SubSeq(t.parts, 1, 2)) = 2
      BY <1>1
    <3> QED BY <1>2, <2>5, <3>1 DEF Token
  <2> QED BY <2>1, <2>2, <2>3, <2>4, <2>5, Zenon DEF Tampered
<1> QED BY <1>1, <1>2, <1>4

\* A peer that has no routes and no name to look up passes the checks.
LEMMA InviterFine ==
  ASSUME NEW m \in CurvePoints
  PROVE  Inviter(m) \in Peers /\ (~Degenerate(m) => PeerError(Inviter(m)) = "ok") /\ RoutesOf(Inviter(m)) = {}
<1> DEFINE p == Inviter(m)
<1>1. /\ p.name = "bootstrap" /\ p.public_key = m /\ p.endpoints = <<V6(m)>> /\ p.routes = <<>>
      /\ p.ddns = "none" /\ p.relay = FALSE /\ p.keepalive = Unset
  BY Zenon DEF Inviter, Peer
<1>2. V6(m) \in EndpointTexts
  BY Keys, Zenon DEF V6, EndpointTexts, Families
<1>3. <<V6(m)>> \in Seq(EndpointTexts) /\ <<>> \in Seq(RouteTexts)
  BY <1>2
<1>4. Inviter(m) \in Peers
  BY <1>3, Zenon, Arguments, Keys DEF Inviter, Peer, Peers
<1> HIDE DEF p
<1>5. ASSUME ~Degenerate(m) PROVE PeerError(p) = "ok"
  <2>1. <<V6(m)>>[1].family = "v6" /\ DOMAIN <<V6(m)>> = {1}
    BY DEF V6
  <2>2. DOMAIN p.routes = {}
    BY <1>1
  <2> QED BY <1>1, <1>5, <2>1, <2>2, Zenon DEF PeerError
<1>6. RoutesOf(p) = {}
  BY <1>1 DEF RoutesOf
<1> QED BY <1>4, <1>5, <1>6, Zenon DEF p

\* The [node] section of the template leaves everything at its default.
LEMMA TemplateNode ==
  LET node == [relay_allow |-> {}, admin_keys |-> {}] IN
  NodeError(node) = "ok" /\ node.relay_allow \cup node.admin_keys \subseteq CurvePoints
BY DEF NodeError, Setting, Default, Has

\* The file of a join: the template and the inviter's block.
LEMMA JoinFile ==
  ASSUME NEW name \in NetworkNames, NEW k \in KeyArgs, NEW m \in Members, NEW id \in Identities,
         ~Degenerate(id), ~Degenerate(m), check_subnet_collisions(Append(KeyOf(<<Inviter(m)>>), id))
  PROVE  LET head == render_template(name, MembersKey, key_file_ref_for_config(ConfArg, k))
             file == <<head>> \o [i \in DOMAIN <<Inviter(m)>> |-> render_peer_block(<<Inviter(m)>>[i])]
         IN  /\ file \in Files /\ Len(file) > 0 /\ file[1] = head
             /\ name \notin Unescaped => ConfigError(file, id) = "ok"
<1> DEFINE head == render_template(name, MembersKey, key_file_ref_for_config(ConfArg, k))
           block == render_peer_block(Inviter(m))
           file == <<head>> \o [i \in DOMAIN <<Inviter(m)>> |-> render_peer_block(<<Inviter(m)>>[i])]
           raw == RawOf(file)
<1>1. file = <<head, block>>
  <2>1. [i \in DOMAIN <<Inviter(m)>> |-> render_peer_block(<<Inviter(m)>>[i])] = <<block>>
    <3> HIDE DEF head
    <3> QED OBVIOUS
  <2> HIDE DEF head, block
  <2>2. <<head>> \o <<block>> = <<head, block>>
    <3>1. <<head>> \in Seq({head, block}) /\ <<block>> \in Seq({head, block}) /\ <<head, block>> \in Seq({head, block})
      OBVIOUS
    <3>2. Len(<<head>>) = 1 /\ Len(<<block>>) = 1 /\ Len(<<head, block>>) = 2
      BY Zenon
    <3>3. /\ <<head>> \o <<block>> \in Seq({head, block}) /\ Len(<<head>> \o <<block>>) = 2
          /\ (<<head>> \o <<block>>)[1] = head /\ (<<head>> \o <<block>>)[2] = block
      OBVIOUS
    <3>4. \A i \in 1..2 : (<<head>> \o <<block>>)[i] = <<head, block>>[i]
      BY <3>3
    <3> QED BY <3>1, <3>2, <3>3, <3>4, SameElements, Zenon
  <2> QED BY <2>1, <2>2, Zenon
<1>2. head \in Heads /\ head.peers = <<>> /\ head.tag = "file" /\ head.key = MembersKey
      /\ head.node = [relay_allow |-> {}, admin_keys |-> {}]
  <2>1. head \in Heads
    BY Arguments DEF Heads
  <2> QED BY <2>1, Zenon DEF render_template
<1>3. name \notin Unescaped => head.parses
  BY Zenon DEF render_template
<1>4. block \in Blocks /\ block.tag = "peer" /\ block.peer = Inviter(m)
  BY InviterFine, Arguments, Zenon DEF Blocks, render_peer_block
<1> HIDE DEF head, block, file
<1>5. file \in Files /\ Len(file) = 2 /\ file[1] = head /\ file[2] = block
  BY <1>1, <1>2, <1>4 DEF Files
<1>6. ASSUME name \notin Unescaped PROVE ConfigError(file, id) = "ok"
  <2>1. Parses(file)
    BY <1>2, <1>3, <1>4, <1>5, <1>6 DEF Parses
  <2>2. raw.key = MembersKey /\ raw.node = [relay_allow |-> {}, admin_keys |-> {}] /\ raw.peers = <<Inviter(m)>>
    <3>1. [i \in 1..Len(file) - 1 |-> file[i + 1].peer] = <<Inviter(m)>>
      BY <1>4, <1>5
    <3>2. raw.key = file[1].key /\ raw.node = file[1].node
          /\ raw.peers = file[1].peers \o [i \in 1..Len(file) - 1 |-> file[i + 1].peer]
      BY Zenon DEF RawOf
    <3>3. <<>> \o <<Inviter(m)>> = <<Inviter(m)>>
      OBVIOUS
    <3> QED BY <1>2, <1>5, <3>1, <3>2, <3>3, Zenon
  <2>3. check_subnet_collisions(KeyOf(<<Inviter(m)>>) \o <<id>>)
    <3>1. <<Inviter(m)>> \in Seq(Peers)
      BY InviterFine, Arguments
    <3>2. KeyOf(<<Inviter(m)>>) \in Seq(KeyTexts) /\ id \in KeyTexts
      BY <3>1, KeysTyped, Arguments, Keys, Zenon
    <3>3. KeyOf(<<Inviter(m)>>) \o <<id>> = Append(KeyOf(<<Inviter(m)>>), id)
      BY <3>2
    <3> QED BY <3>3, Zenon
  <2>4. id # NoOne /\ m \in CurvePoints
    BY Arguments, Keys, Zenon
  <2>5. \A i \in DOMAIN raw.peers : i = 1 /\ raw.peers[i] = Inviter(m)
    BY <2>2
  <2> HIDE DEF raw
  <2>6. ~Conflicts(raw, id) /\ ~Overlap(raw.peers)
    BY <2>4, <2>5, InviterFine, Zenon DEF Conflicts, Overlap
  <2>7. \A i \in DOMAIN raw.peers : PeerError(raw.peers[i]) = "ok"
    BY <2>4, <2>5, InviterFine, Zenon
  <2>8. Loads(raw, id)
    BY <2>2, <2>3, <2>4, <2>5, <2>6, <2>7, TemplateNode, Arguments DEF Loads
  <2> QED BY <1>5, <2>1, <2>8, ConfigChecks, NoFileApart, Zenon DEF raw
<1> QED BY <1>5, <1>6 DEF file, head

\* The file of an init: the template alone.
LEMMA InitFile ==
  ASSUME NEW name \in NetworkNames, NEW netkey \in NetworkKeys, NEW k \in KeyArgs, NEW id \in Identities,
         ~Degenerate(id)
  PROVE  LET head == render_template(name, netkey, key_file_ref_for_config(ConfArg, k))
         IN  /\ <<head>> \in Files
             /\ name \notin Unescaped => ConfigError(<<head>>, id) = "ok"
<1> DEFINE head == render_template(name, netkey, key_file_ref_for_config(ConfArg, k))
           raw == RawOf(<<head>>)
<1>1. head \in Heads /\ head.peers = <<>> /\ head.tag = "file" /\ head.key = netkey
      /\ head.node = [relay_allow |-> {}, admin_keys |-> {}]
  <2>1. head \in Heads
    BY DEF Heads
  <2> QED BY <2>1, Zenon DEF render_template
<1>2. name \notin Unescaped => head.parses
  BY Zenon DEF render_template
<1> HIDE DEF head
<1>3. <<head>> \in Files
  BY <1>1, FilesWritten, Zenon
<1>4. ASSUME name \notin Unescaped PROVE ConfigError(<<head>>, id) = "ok"
  <2>1. Parses(<<head>>)
    BY <1>1, <1>2, <1>4 DEF Parses
  <2>2. raw.key = netkey /\ raw.node = [relay_allow |-> {}, admin_keys |-> {}] /\ raw.peers = <<>>
    <3>1. raw.key = head.key /\ raw.node = head.node
          /\ raw.peers = head.peers \o [i \in 1..Len(<<head>>) - 1 |-> <<head>>[i + 1].peer]
      BY Zenon DEF RawOf
    <3>2. [i \in 1..Len(<<head>>) - 1 |-> <<head>>[i + 1].peer] = <<>>
      OBVIOUS
    <3>3. <<>> \o <<>> = <<>>
      OBVIOUS
    <3> QED BY <1>1, <3>1, <3>2, <3>3, Zenon
  <2> HIDE DEF raw
  <2>3. id # NoOne /\ id \in KeyTexts
    BY Arguments, Keys, Zenon
  <2>4. check_subnet_collisions(KeyOf(raw.peers) \o <<id>>)
    <3>1. KeyOf(raw.peers) = <<>>
      BY <2>2 DEF KeyOf
    <3>2. KeyOf(raw.peers) \o <<id>> = <<id>>
      BY <2>3, <3>1
    <3> QED BY <3>2 DEF check_subnet_collisions
  <2>5. DOMAIN raw.peers = {}
    BY <2>2
  <2>6. ~Conflicts(raw, id) /\ ~Overlap(raw.peers)
    BY <2>5, Zenon DEF Conflicts, Overlap
  <2>7. Loads(raw, id)
    BY <2>2, <2>3, <2>4, <2>5, <2>6, TemplateNode, Zenon DEF Loads
  <2> QED BY <1>3, <2>1, <2>7, ConfigChecks, NoFileApart, Zenon DEF raw
<1> QED BY <1>3, <1>4, Zenon DEF head

-----------------------------------------------------------------------------
(* The hosts file. *)
\* Of two places with the same name the later counts more.
LEMMA Counted ==
  ASSUME NEW base, NEW i \in Nat, NEW j \in Nat, i < j, base[i] = base[j]
  PROVE  Cardinality({x \in 1..i : base[x] = base[i]}) < Cardinality({x \in 1..j : base[x] = base[j]})
<1> DEFINE I == {x \in 1..i : base[x] = base[i]}
           J == {x \in 1..j : base[x] = base[j]}
<1>1. IsFiniteSet(J)
  <2>1. IsFiniteSet(1..j) /\ J \subseteq 1..j
    BY FS_Interval
  <2> QED BY <2>1, FS_Subset, Zenon
<1>2. I \subseteq J /\ I # J
  <2>1. j \in J \/ j = 0
    OBVIOUS
  <2>2. j \notin I
    OBVIOUS
  <2>3. I \subseteq J
    OBVIOUS
  <2> QED BY <2>1, <2>2, <2>3
<1>3. Cardinality(I) =< Cardinality(J) /\ Cardinality(I) # Cardinality(J)
  BY <1>1, <1>2, FS_Subset, Zenon
<1>4. Cardinality(I) \in Nat /\ Cardinality(J) \in Nat
  BY <1>1, <1>2, FS_Subset, FS_CardinalityType, Zenon
<1> QED BY <1>3, <1>4

\* No two lines have the same name, where no peer's name ends in a number.
LEMMA NamesApart ==
  ASSUME NEW peers \in Seq(Peers), NEW netkey, \A i \in DOMAIN peers : HostBase(peers[i].name).numbers = <<>>,
         NEW i \in DOMAIN render_hosts(peers, netkey), NEW j \in DOMAIN render_hosts(peers, netkey), i < j
  PROVE  render_hosts(peers, netkey)[i][2] # render_hosts(peers, netkey)[j][2]
<1> DEFINE base == [x \in DOMAIN peers |-> HostBase(peers[x].name)]
           count(x) == Cardinality({y \in 1..x : base[y] = base[x]})
           name(x) == render_hosts(peers, netkey)[x][2]
<1>1. i \in DOMAIN peers /\ j \in DOMAIN peers /\ i \in Nat /\ j \in Nat
  <2>1. DOMAIN peers = 1..Len(peers) /\ Len(peers) \in Nat
    OBVIOUS
  <2>2. i \in DOMAIN peers /\ j \in DOMAIN peers
    BY Zenon DEF render_hosts
  <2> QED BY <2>1, <2>2
<1>2. ASSUME NEW x \in {i, j}
      PROVE  /\ count(x) = Cardinality({y \in 1..x : HostBase(peers[y].name) = HostBase(peers[x].name)})
             /\ base[x] = HostBase(peers[x].name)
  <2>1. 1..x \subseteq DOMAIN peers /\ x \in DOMAIN peers
    BY <1>1
  <2>2. \A y \in 1..x : base[y] = HostBase(peers[y].name)
    BY <2>1, Zenon
  <2>3. base[x] = HostBase(peers[x].name)
    BY <2>1, Zenon
  <2>4. {y \in 1..x : base[y] = base[x]} = {y \in 1..x : HostBase(peers[y].name) = HostBase(peers[x].name)}
    BY <2>2, <2>3, Zenon
  <2> QED BY <2>3, <2>4, Zenon
<1>3. ASSUME NEW x \in {i, j}
      PROVE  /\ base[x] \in [label : STRING, numbers : Seq(Nat)] /\ base[x].numbers = <<>>
  <2>1. x \in DOMAIN peers
    BY <1>1, Zenon
  <2>2. peers[x] \in Peers
    BY <2>1
  <2>3. peers[x].name \in PeerNames
    BY <2>2, Zenon DEF Peers
  <2> QED BY <1>2, <2>1, <2>3, Arguments, Zenon
<1>4. ASSUME NEW x \in {i, j}
      PROVE  name(x) = IF count(x) = 1 THEN base[x] ELSE [base[x] EXCEPT !.numbers = Append(@, count(x))]
  BY <1>2, Zenon DEF render_hosts
<1>5. ASSUME base[i] = base[j] PROVE count(i) < count(j) /\ count(i) \in Nat /\ count(j) \in Nat
  <2>1. count(i) < count(j)
    BY <1>1, <1>5, Counted, Zenon
  <2>2. ASSUME NEW x \in {i, j} PROVE count(x) \in Nat
    <3>1. x \in Int
      BY <1>1
    <3>2. IsFiniteSet(1..x)
      BY <3>1, FS_Interval
    <3>3. {y \in 1..x : base[y] = base[x]} \in SUBSET (1..x)
      BY Zenon
    <3> QED BY <3>2, <3>3, FS_Subset, FS_CardinalityType, Zenon
  <2> QED BY <2>1, <2>2, Zenon
<1> HIDE DEF base, count, name
<1>6. ASSUME NEW x \in {i, j}
      PROVE  /\ name(x).label = base[x].label
             /\ name(x).numbers = IF count(x) = 1 THEN <<>> ELSE <<count(x)>>
  <2>1. CASE count(x) = 1
    BY <1>3, <1>4, <2>1, Zenon
  <2>2. CASE count(x) # 1
    <3>1. name(x) = [base[x] EXCEPT !.numbers = Append(base[x].numbers, count(x))]
      BY <1>4, <2>2, Zenon
    <3>2. Append(base[x].numbers, count(x)) = <<count(x)>>
      <4>1. Append(<<>>, count(x)) = <<count(x)>>
        OBVIOUS
      <4> QED BY <1>3, <4>1, Zenon
    <3> QED BY <1>3, <2>2, <3>1, <3>2, Zenon
  <2> QED BY <2>1, <2>2, Zenon
<1>7. SUFFICES ASSUME name(i) = name(j) PROVE FALSE
  BY Zenon DEF name
<1>8. base[i] = base[j]
  <2>1. base[i].label = base[j].label /\ base[i].numbers = base[j].numbers
    BY <1>3, <1>6, <1>7, Zenon
  <2> QED BY <1>3, <2>1
<1>9. (IF count(i) = 1 THEN <<>> ELSE <<count(i)>>) = (IF count(j) = 1 THEN <<>> ELSE <<count(j)>>)
  BY <1>6, <1>7, Zenon
<1>10. count(i) = count(j)
  <2>1. <<count(i)>> # <<>> /\ <<count(j)>> # <<>> /\ <<count(i)>>[1] = count(i) /\ <<count(j)>>[1] = count(j)
    BY Zenon
  <2> QED BY <1>9, <2>1, Zenon
<1> QED BY <1>5, <1>8, <1>10

-----------------------------------------------------------------------------
(* A command starts. *)
\* The command that runs is of the kind its name says.
LEMMA CommandKinds ==
  ASSUME CommandOK(cmd)
  PROVE  /\ cmd.op \in {"join", "init"} => WritingOK(cmd)
         /\ cmd.op = "keygen" => cmd \in KeygenCmds
         /\ cmd.op = "add" => AddOK(cmd)
         /\ cmd.op = "hosts" => HostsOK(cmd)
         /\ cmd = Idle <=> cmd.op \notin {"join", "init", "keygen", "add", "hosts"}
<1>1. cmd = Idle => cmd.op = "none"
  BY DEF Idle
<1>2. WritingOK(cmd) => cmd.op \in {"join", "init"}
  BY Zenon DEF WritingOK, WritingCmds
<1>3. cmd \in KeygenCmds => cmd.op = "keygen"
  BY Zenon DEF KeygenCmds
<1>4. AddOK(cmd) => cmd.op = "add"
  BY Zenon DEF AddOK, AddCmds
<1>5. HostsOK(cmd) => cmd.op = "hosts"
  BY Zenon DEF HostsOK
<1> QED BY <1>1, <1>2, <1>3, <1>4, <1>5, Zenon DEF CommandOK

\* The identity a command comes to is one, and there already unless generated.
LEMMA Chosen ==
  ASSUME SetupTypeOK, NEW k \in KeyArgs, NEW require, NEW who \in load_or_generate_identity(k, require)
  PROVE  /\ who.id \in Identities /\ who.generated \in BOOLEAN
         /\ ~who.generated => key[Full(k)] = who.id
<1> DEFINE there == key[Full(k)]
<1>1. there \in Identities \cup {NoKey, TornKey}
  <2>1. Full(k) \in KeyFiles
    BY Zenon DEF KeyFiles
  <2> QED BY <2>1, Zenon DEF SetupTypeOK
<1>2. CASE there # NoKey
  <2>1. who = [id |-> there, generated |-> FALSE] /\ there # TornKey
    BY <1>2, Zenon DEF load_or_generate_identity
  <2> QED BY <1>1, <1>2, <2>1, Zenon
<1>3. CASE there = NoKey
  <2>1. NoKey # TornKey
    BY DEF NoKey, TornKey
  <2>2. PICK i \in Identities : who = [id |-> i, generated |-> TRUE]
    <3>1. there # TornKey
      BY <1>3, <2>1, Zenon
    <3> QED BY <1>3, <3>1, Zenon DEF load_or_generate_identity
  <2> QED BY <2>2, Zenon
<1> QED BY <1>2, <1>3, Zenon

\* A command that will write a file starts with the identity it chose, and with a file that
\* loads with it.
LEMMA WritingStarts ==
  ASSUME SetupTypeOK, NEW k \in KeyArgs, NEW require, NEW who \in load_or_generate_identity(k, require),
         NEW op \in {"join", "init"}, NEW file \in Files, Len(file) > 0,
         file[1].key_file = key_file_ref_for_config(ConfArg, k),
         file[1].name \notin Unescaped => ConfigError(file, who.id) = "ok"
  PROVE  WritingOK(Writing(op, k, who, file))
<1> DEFINE c == Writing(op, k, who, file)
<1>1. /\ who.id \in Identities /\ who.generated \in BOOLEAN
      /\ ~who.generated => key[Full(k)] = who.id
  BY Chosen, Zenon
<1>2. /\ c.step = IF who.generated THEN "key" ELSE "create"
      /\ c.k = k /\ c.id = who.id /\ c.generated = who.generated /\ c.file = file
  BY Zenon DEF Writing
<1>3. c \in WritingCmds
  <2>1. (IF who.generated THEN "key" ELSE "create") \in {"key", "create", "write", "undo"}
    BY Zenon
  <2> QED BY <1>1, <2>1, Zenon DEF Writing, WritingCmds
<1> HIDE DEF c
<1>4. IF c.step = "key" THEN c.generated ELSE key[Full(c.k)] = c.id
  <2>1. CASE who.generated
    BY <1>2, <2>1, Zenon
  <2>2. CASE ~who.generated
    <3>1. c.step = "create"
      BY <1>2, <2>2, Zenon
    <3> QED BY <1>1, <1>2, <2>2, <3>1, Zenon
  <2> QED BY <2>1, <2>2, Zenon
<1>5. /\ Len(c.file) > 0 /\ c.file[1].key_file = key_file_ref_for_config(ConfArg, c.k)
      /\ c.file[1].name \notin Unescaped => ConfigError(c.file, c.id) = "ok"
  BY <1>2, Zenon
<1>6. WritingOK(c)
  BY <1>3, <1>4, <1>5, Zenon DEF WritingOK
<1> QED BY <1>6, Zenon DEF c

\* The identity that comes of a file that loads.
LEMMA LoadedIdentity ==
  ASSUME SetupTypeOK, NEW f \in Files \cup {NoFile}, load_config_and_identity(f) # NoOne
  PROVE  LET id == load_config_and_identity(f) IN
         /\ f \in Files /\ Parses(f) /\ id \in Identities
         /\ ConfigError(f, id) = "ok" /\ IdentityAt(Resolve(ConfArg, f[1].key_file)) = id
<1> DEFINE path == Resolve(ConfArg, f[1].key_file)
           id == IdentityAt(path)
<1>1. /\ ConfigError(f, NoOne) = "ok" /\ id # NoOne /\ ConfigError(f, id) = "ok"
      /\ load_config_and_identity(f) = id
  BY Zenon DEF load_config_and_identity
<1>2. f # NoFile /\ Parses(f)
  BY <1>1, ConfigChecks, Zenon
<1>3. path \in KeyFiles /\ key[path] # TornKey /\ id = key[path]
  BY <1>1, Zenon DEF IdentityAt
<1>4. key[path] \in Identities
  BY <1>1, <1>3, Zenon DEF SetupTypeOK, NoKey, NoOne
<1> QED BY <1>1, <1>2, <1>3, <1>4, Zenon

\* Whatever starts a command leaves the files and the tokens alone.
LEMMA Started ==
  ASSUME SetupInv, NEW c, Begin(c), CommandOK(c)
  PROVE  SetupInv'
<1>1. /\ key' = key /\ conf' = conf /\ hosts' = hosts /\ tmp' = tmp
      /\ tokens' = tokens /\ now' = now /\ changes' = changes /\ cmd' = c
  BY Zenon DEF Begin, files, world
<1>2. SetupTypeOK'
  BY <1>1, Zenon DEF SetupInv, SetupTypeOK
<1>3. CommandOK(c)'
  BY <1>1, Zenon DEF CommandOK, WritingOK, AddOK, HostsOK, IdentityAt
<1>4. TokensOK' /\ hosts' \in {"none", "whole"}
  BY <1>1, Zenon DEF SetupInv, TokensOK
<1> QED BY <1>1, <1>2, <1>3, <1>4, Zenon DEF SetupInv

\* `join` starts: its token holds, its file will load.
LEMMA JoinStep ==
  ASSUME SetupInv, NEW k \in KeyArgs, NEW t \in tokens, NEW u \in {t} \cup Tampered(t), join_network(u, k)
  PROVE  /\ SetupInv'
         /\ cmd'.file[1].key = t.parts[2].network_key /\ now =< t.parts[2].expires
<1>1. PICK m \in Members, name \in NetworkNames, at \in 0..MaxNow : t = encode(Invitation(m, name, at), m)
  BY Zenon DEF SetupInv, TokensOK
<1> DEFINE inv == Invitation(m, name, at)
           head == render_template(name, MembersKey, key_file_ref_for_config(ConfArg, k))
           file == <<head>> \o [i \in DOMAIN <<Inviter(m)>> |-> render_peer_block(<<Inviter(m)>>[i])]
<1>2. u.parts[2] = inv /\ t.parts[2] = inv
  <2>1. decode(u) = "ok"
    BY Zenon DEF join_network
  <2>2. u.parts[2] = inv
    BY <1>1, <2>1, Untouched
  <2>3. t.parts = <<Prefix, inv, <<m, inv>>>>
    BY <1>1, Zenon DEF encode, Token
  <2> QED BY <2>2, <2>3
<1>3. inv.network_name = name /\ inv.network_key = MembersKey /\ inv.bootstrap = <<Inviter(m)>> /\ inv.issuer = m
  BY InvitationShape
<1> HIDE DEF inv
<1>4. PICK who \in load_or_generate_identity(k, FALSE) :
        /\ ~Degenerate(who.id) /\ \A i \in DOMAIN inv.bootstrap : ~Degenerate(inv.bootstrap[i].public_key)
        /\ check_subnet_collisions(Append(KeyOf(inv.bootstrap), who.id))
        /\ Begin(Writing("join", k, who,
             <<render_template(inv.network_name, inv.network_key, key_file_ref_for_config(ConfArg, k))>>
               \o [i \in DOMAIN inv.bootstrap |-> render_peer_block(inv.bootstrap[i])]))
  BY <1>2, Zenon DEF join_network
<1>5. /\ check_subnet_collisions(Append(KeyOf(<<Inviter(m)>>), who.id))
      /\ Begin(Writing("join", k, who, file))
  BY <1>3, <1>4, Zenon
<1>6. ~Degenerate(m)
  <2>1. 1 \in DOMAIN <<Inviter(m)>> /\ <<Inviter(m)>>[1] = Inviter(m)
    OBVIOUS
  <2>2. Inviter(m).public_key = m
    BY Zenon DEF Inviter, Peer
  <2> QED BY <1>3, <1>4, <2>1, <2>2, Zenon
<1>7. who.id \in Identities
  BY Chosen, Zenon DEF SetupInv
<1>8. /\ file \in Files /\ Len(file) > 0 /\ file[1] = head
      /\ name \notin Unescaped => ConfigError(file, who.id) = "ok"
  BY <1>4, <1>5, <1>6, <1>7, JoinFile, Zenon
<1>9. head.key = MembersKey /\ head.name = name /\ head.key_file = key_file_ref_for_config(ConfArg, k)
  BY Zenon DEF render_template
<1> HIDE DEF file, head
<1>10. WritingOK(Writing("join", k, who, file))
  <2>1. file[1].key_file = key_file_ref_for_config(ConfArg, k)
    BY <1>8, <1>9, Zenon
  <2>2. file[1].name \notin Unescaped => ConfigError(file, who.id) = "ok"
    BY <1>8, <1>9, Zenon
  <2>3. SetupTypeOK
    BY Zenon DEF SetupInv
  <2> QED BY <1>8, <2>1, <2>2, <2>3, WritingStarts, Zenon
<1>11. SetupInv'
  <2>1. CommandOK(Writing("join", k, who, file))
    BY <1>10, Zenon DEF CommandOK
  <2> QED BY <1>5, <2>1, Started, Zenon
<1>12. cmd'.file = file
  BY <1>5, Zenon DEF Begin, Writing
<1>13. now =< inv.expires
  BY <1>2, Zenon DEF join_network, check_not_expired
<1> QED BY <1>2, <1>3, <1>8, <1>9, <1>11, <1>12, <1>13, Zenon

\* `init` starts: its file will load.
LEMMA InitStep ==
  ASSUME SetupInv, NEW name \in NetworkNames, NEW netkey, NEW k \in KeyArgs, NEW require,
         init_network(name, netkey, k, require)
  PROVE  SetupInv' /\ cmd'.op = "init"
<1> DEFINE head == render_template(name, netkey, key_file_ref_for_config(ConfArg, k))
<1>1. PICK who \in load_or_generate_identity(k, require) :
        ~Degenerate(who.id) /\ Begin(Writing("init", k, who, <<head>>))
  BY Zenon DEF init_network
<1>2. netkey \in NetworkKeys
  BY Zenon DEF init_network
<1>3. who.id \in Identities
  BY Chosen, Zenon DEF SetupInv
<1>4. <<head>> \in Files /\ (name \notin Unescaped => ConfigError(<<head>>, who.id) = "ok")
  BY <1>1, <1>2, <1>3, InitFile, Zenon
<1>5. head.name = name /\ head.key_file = key_file_ref_for_config(ConfArg, k)
  BY Zenon DEF render_template
<1> HIDE DEF head
<1>6. Len(<<head>>) > 0 /\ <<head>>[1] = head
  OBVIOUS
<1>7. WritingOK(Writing("init", k, who, <<head>>))
  BY <1>4, <1>5, <1>6, WritingStarts, Zenon DEF SetupInv
<1>8. CommandOK(Writing("init", k, who, <<head>>))
  BY <1>7, Zenon DEF CommandOK
<1>9. cmd'.op = "init"
  BY <1>1, Zenon DEF Begin, Writing
<1> QED BY <1>1, <1>8, <1>9, Started, Zenon

\* `peer add` starts with a file that loads.
LEMMA AddStep ==
  ASSUME SetupInv, NEW p \in AddArgs, peer_add(p)
  PROVE  SetupInv' /\ cmd'.op = "add"
<1> DEFINE id == load_config_and_identity(conf)
           c == [op |-> "add", step |-> "append", id |-> id, original |-> conf, block |-> render_peer_block(p)]
<1>1. id # NoOne /\ Begin(c)
  BY Zenon DEF peer_add
<1>2. /\ conf \in Files /\ id \in Identities
      /\ ConfigError(conf, id) = "ok" /\ IdentityAt(Resolve(ConfArg, conf[1].key_file)) = id
  BY <1>1, LoadedIdentity, Zenon DEF SetupInv, SetupTypeOK
<1> HIDE DEF id
<1>3. render_peer_block(p) \in Blocks
  BY Arguments, Zenon DEF render_peer_block, Blocks
<1>4. c \in AddCmds
  BY <1>2, <1>3, Zenon DEF AddCmds
<1>5. AddOK(c)
  <2>1. c.id = id /\ c.original = conf /\ c.step = "append"
    BY Zenon
  <2> HIDE DEF c
  <2> QED BY <1>2, <1>4, <2>1, Zenon DEF AddOK
<1>6. SetupInv'
  <2> HIDE DEF c
  <2>1. CommandOK(c)
    BY <1>5, Zenon DEF CommandOK
  <2> QED BY <1>1, <2>1, Started, Zenon
<1>7. cmd'.op = "add"
  BY <1>1, Zenon DEF Begin
<1> QED BY <1>6, <1>7, Zenon

\* `hosts` starts with lines of different names.
LEMMA HostsStep ==
  ASSUME SetupInv, hosts_out
  PROVE  SetupInv' /\ cmd'.op = "hosts"
<1> DEFINE c == [op |-> "hosts", step |-> "tmp", file |-> render_hosts(RawOf(conf).peers, conf[1].key), conf |-> conf]
<1>1. Begin(c) /\ load_config_and_identity(conf) # NoOne
  BY Zenon DEF hosts_out
<1>2. conf \in Files /\ Parses(conf)
  BY <1>1, LoadedIdentity, Zenon DEF SetupInv, SetupTypeOK
<1>3. HostsOK(c)
  <2>1. /\ DOMAIN c = {"op", "step", "file", "conf"} /\ c.op = "hosts" /\ c.step = "tmp" /\ c.conf = conf
        /\ c.file = render_hosts(RawOf(conf).peers, conf[1].key)
    BY Zenon
  <2> HIDE DEF c
  <2> QED BY <1>2, <2>1, Zenon DEF HostsOK
<1>4. cmd'.op = "hosts"
  BY <1>1, Zenon DEF Begin
<1> HIDE DEF c
<1>5. CommandOK(c)
  BY <1>3, Zenon DEF CommandOK
<1> QED BY <1>1, <1>4, <1>5, Started, Zenon

\* `keygen` starts; it has only its path and its mode to remember.
LEMMA KeygenStep ==
  ASSUME SetupInv, NEW k \in KeyArgs, NEW force \in BOOLEAN, keygen(k, force)
  PROVE  SetupInv' /\ cmd'.op = "keygen" /\ cmd'.force = force
<1>1. PICK i \in Identities : cmd' = [op |-> "keygen", step |-> "key", k |-> k, id |-> i, force |-> force]
  BY Zenon DEF keygen
<1>2. cmd' \in KeygenCmds
  BY <1>1, Zenon DEF KeygenCmds
<1>3. SetupTypeOK'
  <2>1. key' \in [KeyFiles -> Identities \cup {NoKey, TornKey}]
    BY Zenon DEF keygen, SetupInv, SetupTypeOK
  <2> QED BY <2>1, Zenon DEF keygen, SetupInv, SetupTypeOK, world
<1>4. TokensOK' /\ hosts' \in {"none", "whole"}
  BY Zenon DEF keygen, SetupInv, TokensOK, world
<1>5. cmd'.op = "keygen" /\ cmd'.force = force
  BY <1>1, Zenon
<1>6. CommandOK(cmd)'
  BY <1>2, Zenon DEF CommandOK
<1> QED BY <1>3, <1>4, <1>5, <1>6, Zenon DEF SetupInv

-----------------------------------------------------------------------------
(* A command goes on. *)
\* The key is saved: from here on it is at the path the command will name.
LEMMA SaveKeyStep ==
  ASSUME SetupInv, SaveKey
  PROVE  SetupInv' /\ \A p \in KeyFiles : key[p] \in Identities => key'[p] = key[p]
<1>0. NoKey \notin Identities
  BY Arguments, Keys, Zenon DEF NoKey, NoOne
<1>1. cmd.op \in {"join", "init", "keygen"} /\ cmd.step = "key" /\ key[Full(cmd.k)] = NoKey
      /\ conf' = conf /\ hosts' = hosts /\ tmp' = tmp /\ tokens' = tokens /\ now' = now
  BY Zenon DEF SaveKey, world
<1>2. cmd.k \in KeyArgs /\ cmd.id \in Identities
  <2>1. CASE cmd.op = "keygen"
    BY <2>1, CommandKinds, Zenon DEF SetupInv, KeygenCmds
  <2>2. CASE cmd.op \in {"join", "init"}
    BY <2>2, CommandKinds, Zenon DEF SetupInv, WritingOK, WritingCmds
  <2> QED BY <1>1, <2>1, <2>2, Zenon
<1>3. Full(cmd.k) \in KeyFiles
  BY <1>2, Zenon DEF KeyFiles
<1>4. PICK v \in {cmd.id, TornKey} : key' = [key EXCEPT ![Full(cmd.k)] = v]
  BY Zenon DEF SaveKey
<1>5. changes' \in 0..MaxChanges
  BY BudgetAssumption DEF SaveKey, Spend, SetupInv, SetupTypeOK
<1>6. SetupTypeOK'
  <2>1. key' \in [KeyFiles -> Identities \cup {NoKey, TornKey}]
    BY <1>2, <1>4, Zenon DEF SetupInv, SetupTypeOK
  <2> QED BY <1>1, <1>5, <2>1, Zenon DEF SetupInv, SetupTypeOK
<1>7. TokensOK' /\ hosts' \in {"none", "whole"}
  BY <1>1, Zenon DEF SetupInv, TokensOK
<1>8. \A p \in KeyFiles : key[p] \in Identities => key'[p] = key[p]
  BY <1>0, <1>1, <1>4, Zenon DEF SetupInv, SetupTypeOK
<1>9. CommandOK(cmd)'
  <2>1. CASE cmd' = Idle
    BY <2>1, Zenon DEF CommandOK
  <2>2. CASE cmd' # Idle
    <3>1. cmd.op \in {"join", "init"} /\ cmd' = [cmd EXCEPT !.step = "create"]
          /\ key' = [key EXCEPT ![Full(cmd.k)] = cmd.id]
      BY <2>2, Zenon DEF SaveKey, End
    <3>2. WritingOK(cmd)
      BY <3>1, CommandKinds, Zenon DEF SetupInv
    <3>3. cmd' \in WritingCmds /\ cmd'.step = "create" /\ cmd'.k = cmd.k /\ cmd'.id = cmd.id /\ cmd'.file = cmd.file
      BY <3>1, <3>2, Zenon DEF WritingOK, WritingCmds
    <3>4. key'[Full(cmd.k)] = cmd.id
      BY <1>3, <3>1, Zenon DEF SetupInv, SetupTypeOK
    <3>5. WritingOK(cmd)'
      BY <3>2, <3>3, <3>4, Zenon DEF WritingOK
    <3> QED BY <3>5, Zenon DEF CommandOK
  <2> QED BY <2>1, <2>2, Zenon
<1> QED BY <1>6, <1>7, <1>8, <1>9, Zenon DEF SetupInv

\* A step after which no command runs has only the files to keep typed.
LEMMA Ended ==
  ASSUME SetupInv, End, tokens' = tokens, now' = now, changes' = changes \/ Spend,
         key' \in [KeyFiles -> Identities \cup {NoKey, TornKey}], conf' \in Files \cup {NoFile},
         hosts' \in {"none", "whole"}
  PROVE  SetupInv'
<1>1. changes' \in 0..MaxChanges
  BY BudgetAssumption DEF Spend, SetupInv, SetupTypeOK
<1>2. SetupTypeOK'
  BY <1>1, Zenon DEF SetupInv, SetupTypeOK
<1>3. TokensOK'
  BY Zenon DEF SetupInv, TokensOK
<1>4. CommandOK(cmd)'
  BY Zenon DEF CommandOK, End
<1> QED BY <1>2, <1>3, <1>4, Zenon DEF SetupInv

\* The writing command moves on to a later step.
LEMMA WritingMoves ==
  ASSUME SetupInv, cmd.op \in {"join", "init"}, cmd.step # "key",
         NEW step \in {"create", "write", "undo"}, cmd' = [cmd EXCEPT !.step = step],
         key' = key, hosts' = hosts, tokens' = tokens, now' = now, changes' = changes \/ Spend,
         conf' \in Files \cup {NoFile}
  PROVE  SetupInv'
<1>1. changes' \in 0..MaxChanges
  BY BudgetAssumption DEF Spend, SetupInv, SetupTypeOK
<1>2. SetupTypeOK'
  BY <1>1, Zenon DEF SetupInv, SetupTypeOK
<1>3. TokensOK' /\ hosts' \in {"none", "whole"}
  BY Zenon DEF SetupInv, TokensOK
<1>4. WritingOK(cmd)
  BY CommandKinds, Zenon DEF SetupInv
<1>5. cmd' \in WritingCmds /\ cmd'.step = step /\ cmd'.k = cmd.k /\ cmd'.id = cmd.id /\ cmd'.file = cmd.file
  BY <1>4, Zenon DEF WritingOK, WritingCmds
<1>6. WritingOK(cmd)'
  BY <1>4, <1>5, Zenon DEF WritingOK
<1>7. CommandOK(cmd)'
  BY <1>6, Zenon DEF CommandOK
<1> QED BY <1>2, <1>3, <1>7, Zenon DEF SetupInv

\* The file is created, empty.
LEMMA CreateStep ==
  ASSUME SetupInv, CreateConfig
  PROVE  SetupInv' /\ key' = key
<1>1. cmd.op \in {"join", "init"} /\ cmd.step = "create" /\ key' = key /\ hosts' = hosts /\ tokens' = tokens /\ now' = now
  BY Zenon DEF CreateConfig, world
<1>2. PICK step \in {"write", "undo"} : cmd' = [cmd EXCEPT !.step = step]
  BY Zenon DEF CreateConfig
<1>3. conf' \in Files \cup {NoFile}
  BY FilesWritten, Zenon DEF CreateConfig, SetupInv, SetupTypeOK
<1>4. changes' = changes \/ Spend
  BY Zenon DEF CreateConfig
<1> QED BY <1>1, <1>2, <1>3, <1>4, WritingMoves, Zenon

\* The file is written, whole or torn.
LEMMA WriteStep ==
  ASSUME SetupInv, WriteConfig
  PROVE  SetupInv' /\ key' = key
<1>1. cmd.op \in {"join", "init"} /\ cmd.step = "write" /\ key' = key /\ hosts' = hosts /\ tokens' = tokens /\ now' = now
  BY Zenon DEF WriteConfig, world
<1>2. CASE conf' = cmd.file /\ End /\ UNCHANGED changes
  <2>1. cmd.file \in Files
    BY <1>1, CommandKinds, Zenon DEF SetupInv, WritingOK, WritingCmds
  <2> QED BY <1>1, <1>2, <2>1, Ended, Zenon DEF SetupInv, SetupTypeOK
<1>3. CASE Spend /\ conf' = <<Torn>> /\ cmd' = [cmd EXCEPT !.step = "undo"]
  BY <1>1, <1>3, WritingMoves, FilesWritten, Zenon
<1> QED BY <1>1, <1>2, <1>3, Zenon DEF WriteConfig

\* The key that goes is the one the command made.
LEMMA UndoStep ==
  ASSUME SetupInv, Undo
  PROVE  /\ SetupInv'
         /\ \A p \in KeyFiles : key'[p] # key[p] => cmd.op \in {"join", "init"} /\ cmd.generated /\ cmd.id = key[p]
<1>1. cmd.op \in {"join", "init"} /\ cmd.step = "undo" /\ End /\ conf' = conf /\ hosts' = hosts /\ tokens' = tokens /\ now' = now
  BY Zenon DEF Undo, world
<1>2. WritingOK(cmd)
  BY <1>1, CommandKinds, Zenon DEF SetupInv
<1>3. cmd.k \in KeyArgs /\ key[Full(cmd.k)] = cmd.id
  BY <1>1, <1>2, Zenon DEF WritingOK, WritingCmds
<1>4. Full(cmd.k) \in KeyFiles
  BY <1>3, Zenon DEF KeyFiles
<1>5. key' = key \/ (cmd.generated /\ key' = [key EXCEPT ![Full(cmd.k)] = NoKey])
  BY Zenon DEF Undo, Orphan
<1>6. key' \in [KeyFiles -> Identities \cup {NoKey, TornKey}]
  BY <1>5, Zenon DEF SetupInv, SetupTypeOK
<1>7. changes' = changes \/ Spend
  BY Zenon DEF Undo
<1>8. SetupInv'
  BY <1>1, <1>6, <1>7, Ended, Zenon DEF SetupInv, SetupTypeOK
<1>9. ASSUME NEW p \in KeyFiles, key'[p] # key[p] PROVE cmd.generated /\ cmd.id = key[p]
  BY <1>3, <1>5, <1>9, Zenon DEF SetupInv, SetupTypeOK
<1> QED BY <1>1, <1>8, <1>9, Zenon

\* `peer add` appends its block, whole or torn.
LEMMA AppendStep ==
  ASSUME SetupInv, AppendBlock
  PROVE  SetupInv' /\ key' = key
<1>1. cmd.op = "add" /\ cmd.step = "append" /\ key' = key /\ hosts' = hosts /\ tokens' = tokens /\ now' = now
  BY Zenon DEF AppendBlock, world
<1>2. AddOK(cmd)
  BY <1>1, CommandKinds, Zenon DEF SetupInv
<1>3. conf = cmd.original /\ conf \in Files /\ cmd.block \in Blocks /\ conf # <<>>
  <2>1. conf = cmd.original /\ conf \in Files /\ cmd.block \in Blocks
    BY <1>1, <1>2, Zenon DEF AddOK, AddCmds
  <2>2. Parses(conf)
    BY <1>2, <2>1, ConfigChecks, Zenon DEF AddOK
  <2> QED BY <2>1, <2>2, FileRaw, Zenon
<1>4. Append(conf, cmd.block) \in Files /\ Append(conf, Torn) \in Files
  BY <1>3, FilesWritten, Zenon
<1>5. CASE End
  <2>1. changes' = changes \/ Spend
    BY Zenon DEF AppendBlock
  <2>2. conf' \in Files
    BY <1>3, <1>4, Zenon DEF AppendBlock
  <2> QED BY <1>1, <1>5, <2>1, <2>2, Ended, Zenon DEF SetupInv, SetupTypeOK
<1>6. CASE conf' = Append(conf, cmd.block) /\ cmd' = [cmd EXCEPT !.step = "verify"] /\ UNCHANGED changes
  <2>1. cmd' \in AddCmds /\ cmd'.step = "verify" /\ cmd'.id = cmd.id /\ cmd'.original = cmd.original /\ cmd'.block = cmd.block
    BY <1>2, <1>6, Zenon DEF AddOK, AddCmds
  <2>2. AddOK(cmd)'
    BY <1>1, <1>2, <1>3, <1>6, <2>1, Zenon DEF AddOK, IdentityAt
  <2>3. SetupTypeOK'
    BY <1>1, <1>4, <1>6, Zenon DEF SetupInv, SetupTypeOK
  <2>4. TokensOK' /\ hosts' \in {"none", "whole"}
    BY <1>1, Zenon DEF SetupInv, TokensOK
  <2> QED BY <1>1, <2>2, <2>3, <2>4, Zenon DEF SetupInv, CommandOK
<1> QED BY <1>1, <1>5, <1>6, Zenon DEF AppendBlock

\* A file that loads with the key it names.
LEMMA LoadsBack ==
  ASSUME NEW f \in Files, NEW id \in Identities, ConfigError(f, id) = "ok",
         IdentityAt(Resolve(ConfArg, f[1].key_file)) = id
  PROVE  load_config_and_identity(f) = id
<1>1. id \in CurvePoints /\ id # NoOne
  BY Arguments, Keys, Zenon
<1>2. ConfigError(f, NoOne) = "ok"
  BY <1>1, ConfigAnyway, Zenon
<1> QED BY <1>1, <1>2, Zenon DEF load_config_and_identity

\* `peer add` loads what it wrote, and puts the old text back if that fails.
LEMMA VerifyStep ==
  ASSUME SetupInv, Verify
  PROVE  /\ SetupInv' /\ key' = key
         /\ changes' = changes => /\ conf' \in {cmd.original, Append(cmd.original, cmd.block)}
                                /\ load_config_and_identity(conf)' # NoOne
<1>1. /\ cmd.op = "add" /\ cmd.step = "verify" /\ End
      /\ key' = key /\ hosts' = hosts /\ tokens' = tokens /\ now' = now
  BY Zenon DEF Verify, world
<1>2. AddOK(cmd)
  BY <1>1, CommandKinds, Zenon DEF SetupInv
<1>3. /\ conf = Append(cmd.original, cmd.block) /\ cmd.original \in Files /\ cmd.block \in Blocks /\ cmd.id \in Identities
      /\ ConfigError(cmd.original, cmd.id) = "ok"
      /\ IdentityAt(Resolve(ConfArg, cmd.original[1].key_file)) = cmd.id
  BY <1>1, <1>2, Zenon DEF AddOK, AddCmds
<1>4. cmd.original # <<>>
  BY <1>3, ConfigChecks, FileRaw, Zenon
<1>5. conf \in Files /\ conf[1] = cmd.original[1]
  <2>1. cmd.original \in Seq(Heads \cup Blocks \cup {Torn})
    BY <1>3, Zenon DEF Files
  <2>2. conf[1] = cmd.original[1]
    BY <1>3, <1>4, <2>1
  <2> QED BY <1>3, <1>4, <2>2, FilesWritten, Zenon
<1>6. changes' = changes \/ Spend
  BY Zenon DEF Verify
<1>7. conf' \in Files
  BY <1>3, <1>5, FilesWritten, Zenon DEF Verify, Restored
<1>8. SetupInv'
  BY <1>1, <1>6, <1>7, Ended, Zenon DEF SetupInv, SetupTypeOK
<1>9. ASSUME changes' = changes
      PROVE  /\ conf' \in {cmd.original, Append(cmd.original, cmd.block)}
             /\ load_config_and_identity(conf)' # NoOne
  <2>1. ~Spend
    BY <1>9 DEF Spend, SetupInv, SetupTypeOK
  <2>2. PICK f \in {cmd.original, conf} : conf' = f /\ ConfigError(f, cmd.id) = "ok"
    BY <1>3, <2>1, Zenon DEF Verify, Restored
  <2>3. f \in Files /\ IdentityAt(Resolve(ConfArg, f[1].key_file)) = cmd.id
    BY <1>3, <1>5, Zenon
  <2>4. load_config_and_identity(f) = cmd.id
    BY <1>3, <2>2, <2>3, LoadsBack, Zenon
  <2>5. load_config_and_identity(conf)' = load_config_and_identity(f)
    BY <1>1, <2>2, Zenon DEF load_config_and_identity, IdentityAt
  <2>6. cmd.id # NoOne
    BY <1>3, Arguments, Keys, Zenon
  <2> QED BY <1>3, <2>2, <2>4, <2>5, <2>6, Zenon
<1> QED BY <1>1, <1>8, <1>9, Zenon

\* The temporary hosts file is written, whole or torn.
LEMMA WriteHostsStep ==
  ASSUME SetupInv, WriteHosts
  PROVE  SetupInv' /\ key' = key
<1>1. cmd.op = "hosts" /\ cmd.step = "tmp" /\ key' = key /\ conf' = conf /\ hosts' = hosts /\ tokens' = tokens /\ now' = now
  BY Zenon DEF WriteHosts, WriteTmp, world
<1>2. HostsOK(cmd)
  BY <1>1, CommandKinds, Zenon DEF SetupInv
<1>3. CASE Spend /\ End
  BY <1>1, <1>3, Ended, Zenon DEF SetupInv, SetupTypeOK
<1>4. CASE tmp' = "whole" /\ cmd' = [cmd EXCEPT !.step = "rename"] /\ UNCHANGED changes
  <2>1. /\ DOMAIN cmd' = {"op", "step", "file", "conf"}
        /\ cmd'.op = cmd.op /\ cmd'.step = "rename" /\ cmd'.file = cmd.file /\ cmd'.conf = cmd.conf
    BY <1>2, <1>4, Zenon DEF HostsOK
  <2>2. HostsOK(cmd)'
    BY <1>2, <1>4, <2>1, Zenon DEF HostsOK
  <2>3. SetupTypeOK'
    BY <1>1, <1>4, Zenon DEF SetupInv, SetupTypeOK
  <2>4. TokensOK' /\ hosts' \in {"none", "whole"}
    BY <1>1, Zenon DEF SetupInv, TokensOK
  <2> QED BY <1>1, <2>2, <2>3, <2>4, Zenon DEF SetupInv, CommandOK
<1> QED BY <1>1, <1>3, <1>4, Zenon DEF WriteHosts, WriteTmp

\* The temporary hosts file takes the place of the other.
LEMMA RenameStep ==
  ASSUME SetupInv, Rename
  PROVE  SetupInv' /\ key' = key
<1>1. cmd.op = "hosts" /\ cmd.step = "rename" /\ End /\ key' = key /\ conf' = conf /\ hosts' = tmp
      /\ tokens' = tokens /\ now' = now /\ changes' = changes
  BY Zenon DEF Rename, world
<1>2. tmp = "whole"
  BY <1>1, CommandKinds, Zenon DEF SetupInv, HostsOK
<1> QED BY <1>1, <1>2, Ended, Zenon DEF SetupInv, SetupTypeOK

\* A killed command leaves what it wrote.
LEMMA KillStep ==
  ASSUME SetupInv, Kill
  PROVE  SetupInv' /\ \A p \in KeyFiles : key[p] \in Identities => key'[p] = key[p]
<1>1. cmd # Idle /\ Spend /\ End /\ tokens' = tokens /\ now' = now
  BY Zenon DEF Kill, world
<1>2. NoKey \notin Identities
  BY Arguments, Keys, Zenon DEF NoKey, NoOne
<1>3. /\ key' = key \/ (key[Full(cmd.k)] = NoKey /\ key' = [key EXCEPT ![Full(cmd.k)] = TornKey])
      /\ hosts' = hosts
      /\ conf' = conf \/ conf' = <<Torn>> \/ (cmd.step = "append" /\ conf' = Append(conf, Torn))
  BY Zenon DEF Kill, WriteTmp, files
<1>4. key' \in [KeyFiles -> Identities \cup {NoKey, TornKey}]
  BY <1>3, Zenon DEF SetupInv, SetupTypeOK
<1>5. conf' \in Files \cup {NoFile}
  <2>1. CASE cmd.step = "append"
    <3>1. cmd.op = "add"
      <4>1. CommandOK(cmd)
        BY Zenon DEF SetupInv
      <4>2. ~WritingOK(cmd) /\ cmd \notin KeygenCmds /\ ~HostsOK(cmd)
        BY <2>1, Zenon DEF WritingOK, WritingCmds, KeygenCmds, HostsOK
      <4> QED BY <1>1, <4>1, <4>2, Zenon DEF CommandOK, AddOK, AddCmds
    <3>2. conf = cmd.original /\ conf \in Files /\ ConfigError(conf, cmd.id) = "ok"
      BY <2>1, <3>1, CommandKinds, Zenon DEF SetupInv, AddOK, AddCmds
    <3>3. conf # <<>>
      BY <3>2, ConfigChecks, FileRaw, Zenon
    <3> QED BY <1>3, <3>2, <3>3, FilesWritten, Zenon
  <2>2. CASE cmd.step # "append"
    BY <1>3, <2>2, FilesWritten, Zenon DEF SetupInv, SetupTypeOK
  <2> QED BY <2>1, <2>2, Zenon
<1>6. SetupInv'
  BY <1>1, <1>3, <1>4, <1>5, Ended, Zenon DEF SetupInv
<1> QED BY <1>2, <1>3, <1>6, Zenon DEF SetupInv, SetupTypeOK

\* A user edits the configuration while no command runs.
LEMMA EditStep ==
  ASSUME SetupInv, Edit
  PROVE  SetupInv' /\ key' = key
<1>1. cmd = Idle /\ Spend /\ cmd' = cmd /\ key' = key /\ hosts' = hosts /\ tokens' = tokens /\ now' = now
  BY Zenon DEF Edit, world
<1>2. conf' \in Files \cup {NoFile}
  BY FilesWritten DEF Edit, Heads
<1> QED BY <1>1, <1>2, Ended, Zenon DEF End, SetupInv, SetupTypeOK

\* What happens outside of the host leaves the command as it is.
LEMMA WorldStep ==
  ASSUME SetupInv, UNCHANGED <<files, cmd>>, changes' = changes \/ Spend, now' \in 0..MaxNow, TokensOK'
  PROVE  SetupInv'
<1>1. key' = key /\ conf' = conf /\ hosts' = hosts /\ tmp' = tmp /\ cmd' = cmd
  BY Zenon DEF files
<1>2. changes' \in 0..MaxChanges
  BY BudgetAssumption DEF Spend, SetupInv, SetupTypeOK
<1>3. SetupTypeOK'
  BY <1>1, <1>2, Zenon DEF SetupInv, SetupTypeOK
<1>4. CommandOK(cmd)'
  BY <1>1, Zenon DEF SetupInv, CommandOK, WritingOK, AddOK, HostsOK, IdentityAt
<1> QED BY <1>1, <1>3, <1>4, Zenon DEF SetupInv

\* The clock goes on.
LEMMA TickStep ==
  ASSUME SetupInv, ClockTick
  PROVE  SetupInv'
<1>1. UNCHANGED <<files, cmd>> /\ changes' = changes /\ tokens' = tokens
  BY Zenon DEF ClockTick
<1>2. now' \in 0..MaxNow
  BY Arguments DEF ClockTick, SetupInv, SetupTypeOK
<1>3. TokensOK'
  BY <1>1, Zenon DEF SetupInv, TokensOK
<1> QED BY <1>1, <1>2, <1>3, WorldStep, Zenon

\* `invite new` adds a token that the member signed.
LEMMA InviteStep ==
  ASSUME SetupInv, NEW m \in Members, NEW name \in NetworkNames,
         invite_new(m, name, MembersKey, 1, 1, <<V6(m)>>)
  PROVE  SetupInv'
<1>1. UNCHANGED <<files, cmd>> /\ Spend /\ now' = now
  BY Zenon DEF invite_new
<1>2. tokens' = tokens \cup {encode(Invitation(m, name, now), m)}
  BY Zenon DEF invite_new, Invitation
<1>3. now \in 0..MaxNow
  BY Zenon DEF SetupInv, SetupTypeOK
<1>4. TokensOK'
  BY <1>2, <1>3, Zenon DEF SetupInv, TokensOK
<1> QED BY <1>1, <1>3, <1>4, WorldStep, Zenon

\* The clock and `invite new` leave the keys and the command as they are.
LEMMA OutsideStep ==
  ASSUME ClockTick \/ \E m \in Members, name \in NetworkNames : invite_new(m, name, MembersKey, 1, 1, <<V6(m)>>)
  PROVE  key' = key /\ cmd' = cmd
<1>1. CASE ClockTick
  BY <1>1, Zenon DEF ClockTick, files
<1>2. ASSUME NEW m \in Members, NEW name \in NetworkNames, invite_new(m, name, MembersKey, 1, 1, <<V6(m)>>)
      PROVE  key' = key /\ cmd' = cmd
  BY <1>2 DEF invite_new, files
<1> QED BY <1>1, <1>2, Zenon

-----------------------------------------------------------------------------
(* The theorems. *)
\* The invariant holds on a host that has nothing yet.
LEMMA SetupInitOK == SetupInit => SetupInv
<1> SUFFICES ASSUME SetupInit PROVE SetupInv
  BY Zenon
<1>1. SetupTypeOK
  BY BudgetAssumption, Arguments DEF SetupInit, SetupTypeOK
<1> QED BY <1>1, Zenon DEF SetupInit, SetupInv, CommandOK, TokensOK

\* What any step keeps, and what it may do to the keys and with a token.
KeyStep ==
  \A p \in KeyFiles : key[p] \in Identities /\ key'[p] # key[p] =>
       \/ cmd'.op = "keygen" /\ cmd'.force
       \/ cmd.op \in {"join", "init"} /\ cmd.generated /\ cmd.id = key[p]
TokenStep ==
  cmd = Idle /\ cmd'.op = "join" =>
       \E t \in tokens : /\ t.parts[2].network_key = cmd'.file[1].key
                         /\ now =< t.parts[2].expires
\* The start of any command keeps the invariant, the keys and the joins.
LEMMA StartOK ==
  ASSUME SetupInv, cmd = Idle, StartCommand
  PROVE  SetupInv' /\ KeyStep /\ TokenStep
<1>1. ASSUME NEW k \in KeyArgs, NEW t \in tokens, NEW u \in {t} \cup Tampered(t), join_network(u, k)
      PROVE  SetupInv' /\ KeyStep /\ TokenStep
  <2>1. key' = key
    BY <1>1, Zenon DEF join_network, Begin, files
  <2>2. SetupInv' /\ cmd'.file[1].key = t.parts[2].network_key /\ now =< t.parts[2].expires
    BY <1>1, JoinStep, Zenon
  <2> QED BY <2>1, <2>2, Zenon DEF KeyStep, TokenStep
<1>2. ASSUME NEW k \in KeyArgs, NEW name \in NetworkNames, NEW netkey \in NetworkKeys, NEW require \in BOOLEAN,
             init_network(name, netkey, k, require)
      PROVE  SetupInv' /\ KeyStep /\ TokenStep
  <2>1. key' = key
    BY <1>2, Zenon DEF init_network, Begin, files
  <2>2. SetupInv' /\ cmd'.op = "init"
    BY <1>2, InitStep, Zenon
  <2> QED BY <2>1, <2>2, Zenon DEF KeyStep, TokenStep
<1>3. ASSUME NEW k \in KeyArgs, NEW force \in BOOLEAN, keygen(k, force)
      PROVE  SetupInv' /\ KeyStep /\ TokenStep
  <2>1. SetupInv' /\ cmd'.op = "keygen" /\ cmd'.force = force
    BY <1>3, KeygenStep, Zenon
  <2>2. NoKey \notin Identities
    BY Arguments, Keys, Zenon DEF NoKey, NoOne
  <2>3. \A p \in KeyFiles : key[p] \in Identities /\ key'[p] # key[p] => force
    BY <1>3, <2>2, Zenon DEF keygen, SetupInv, SetupTypeOK
  <2>4. KeyStep
    BY <2>1, <2>3, Zenon DEF KeyStep
  <2> QED BY <2>1, <2>4, Zenon DEF TokenStep
<1>4. ASSUME NEW p \in AddArgs, peer_add(p)
      PROVE  SetupInv' /\ KeyStep /\ TokenStep
  <2>1. key' = key
    BY <1>4, Zenon DEF peer_add, Begin, files
  <2>2. SetupInv' /\ cmd'.op = "add"
    BY <1>4, AddStep, Zenon
  <2> QED BY <2>1, <2>2, Zenon DEF KeyStep, TokenStep
<1>5. ASSUME hosts_out
      PROVE  SetupInv' /\ KeyStep /\ TokenStep
  <2>1. key' = key
    BY <1>5, Zenon DEF hosts_out, Begin, files
  <2>2. SetupInv' /\ cmd'.op = "hosts"
    BY <1>5, HostsStep, Zenon
  <2> QED BY <2>1, <2>2, Zenon DEF KeyStep, TokenStep
<1> QED BY <1>1, <1>2, <1>3, <1>4, <1>5, Zenon DEF StartCommand

\* Any step does.
LEMMA StepOK ==
  ASSUME SetupInv, [SetupNext]_setupVars
  PROVE  SetupInv' /\ KeyStep /\ TokenStep
<1> DEFINE Kept == \A p \in KeyFiles : key[p] \in Identities => key'[p] = key[p]
<1>0. Kept => KeyStep
  BY Zenon DEF KeyStep
<1>1. CASE UNCHANGED setupVars
  <2>1. UNCHANGED <<files, cmd>> /\ changes' = changes /\ now' = now /\ tokens' = tokens /\ key' = key
    BY <1>1, Zenon DEF setupVars, files
  <2>2. now' \in 0..MaxNow /\ TokensOK'
    BY <2>1, Zenon DEF SetupInv, SetupTypeOK, TokensOK
  <2>3. TokenStep
    BY <2>1 DEF TokenStep, Idle
  <2> QED BY <1>0, <2>1, <2>2, <2>3, WorldStep, Zenon
<1>2. CASE cmd = Idle /\ StartCommand
  BY <1>2, StartOK, Zenon
<1>3. ASSUME SaveKey \/ CreateConfig \/ WriteConfig \/ Undo \/ AppendBlock \/ Verify \/ WriteHosts \/ Rename \/ Kill
      PROVE  TokenStep
  <2>1. cmd # Idle
    BY <1>3 DEF SaveKey, CreateConfig, WriteConfig, Undo, AppendBlock, Verify, WriteHosts, Rename, Kill, Idle
  <2> QED BY <2>1, Zenon DEF TokenStep
<1>4. CASE SaveKey
  BY <1>0, <1>3, <1>4, SaveKeyStep, Zenon
<1>5. CASE CreateConfig \/ WriteConfig \/ AppendBlock \/ Verify \/ WriteHosts \/ Rename
  BY <1>0, <1>3, <1>5, CreateStep, WriteStep, AppendStep, VerifyStep, WriteHostsStep, RenameStep, Zenon
<1>6. CASE Undo
  BY <1>3, <1>6, UndoStep, Zenon DEF KeyStep
<1>7. CASE Kill
  BY <1>0, <1>3, <1>7, KillStep, Zenon
<1>8. CASE Edit
  <2>1. cmd = Idle /\ cmd' = cmd
    BY <1>8, Zenon DEF Edit
  <2>2. TokenStep
    BY <2>1, Zenon DEF TokenStep, Idle
  <2> QED BY <1>0, <1>8, <2>2, EditStep, Zenon
<1>9. CASE ClockTick \/ \E m \in Members, name \in NetworkNames : invite_new(m, name, MembersKey, 1, 1, <<V6(m)>>)
  <2>1. key' = key /\ cmd' = cmd
    BY <1>9, OutsideStep, Zenon
  <2>2. TokenStep
    BY <2>1 DEF TokenStep, Idle
  <2>3. SetupInv'
    BY <1>9, TickStep, InviteStep, Zenon
  <2> QED BY <1>0, <2>1, <2>2, <2>3, Zenon
<1> QED BY <1>1, <1>2, <1>4, <1>5, <1>6, <1>7, <1>8, <1>9, Zenon DEF SetupNext

\* SetupInv is an invariant.
LEMMA SetupInvariant == SetupSpec => []SetupInv
<1>1. SetupInv /\ [SetupNext]_setupVars => SetupInv'
  BY StepOK, Zenon
<1> QED BY SetupInitOK, <1>1, PTL DEF SetupSpec

\* With the invariant, whatever loads is unambiguous.
LEMMA InvUnambiguous == SetupInv => Unambiguous
<1> SUFFICES ASSUME SetupInv, load_config_and_identity(conf) # NoOne
             PROVE  LET id == load_config_and_identity(conf)
                        raw == RawOf(conf)
                        spec == build_device_spec(raw)
                        ranges == [i \in DOMAIN spec |-> spec[i].allowed_ips] \o
                                  <<{Route(derive_node_addr(raw.key, id).site, SiteLen)}>>
                        owners(a) == {i \in DOMAIN ranges : \E r \in ranges[i] : contains(r, a)}
                    IN  \A a \in Ipv6Addr : \A i, j \in owners(a) : i = j
  BY Zenon DEF Unambiguous
<1> DEFINE id == load_config_and_identity(conf)
           raw == RawOf(conf)
           spec == build_device_spec(raw)
           own == Route(derive_node_addr(raw.key, id).site, SiteLen)
           peers == [i \in DOMAIN spec |-> spec[i].allowed_ips]
           ranges == peers \o <<{own}>>
<1>1. conf \in Files /\ Parses(conf) /\ id \in Identities /\ ConfigError(conf, id) = "ok"
  BY LoadedIdentity, Zenon DEF SetupInv, SetupTypeOK
<1>2. id \in CurvePoints /\ raw.peers \in Seq(Peers) /\ Loads(raw, id)
  BY <1>1, ConfigChecks, FileRaw, Arguments, Zenon
<1> HIDE DEF id, raw
<1>3. DOMAIN raw.peers = 1..Len(raw.peers) /\ Len(raw.peers) \in Nat
  BY <1>2
<1>4. ASSUME NEW i \in 1..Len(raw.peers) PROVE peers[i] = RangesAt(raw, id, i)
  BY <1>3, Zenon DEF build_device_spec, allowed_ips_for, RangesAt, NodeAt, RoutesAt
<1>5. peers = [i \in 1..Len(raw.peers) |-> RangesAt(raw, id, i)]
  <2>1. DOMAIN peers = 1..Len(raw.peers)
    BY <1>3, Zenon DEF build_device_spec
  <2>2. peers = [i \in DOMAIN spec |-> peers[i]]
    BY Zenon
  <2> QED BY <1>4, <2>1, <2>2, Zenon
<1>6. {own} = RangesAt(raw, id, Len(raw.peers) + 1)
  BY <1>3 DEF RangesAt, NodeAt, RoutesAt
<1> HIDE DEF peers, own
<1>7. DOMAIN ranges = 1..Len(raw.peers) + 1 /\ \A i \in 1..Len(raw.peers) + 1 : ranges[i] = RangesAt(raw, id, i)
  <2> DEFINE S == {RangesAt(raw, id, i) : i \in 1..Len(raw.peers) + 1}
             last == <<{own}>>
  <2>1. \A i \in 1..Len(raw.peers) + 1 : RangesAt(raw, id, i) \in S
    BY Zenon
  <2> HIDE DEF S
  <2>2. peers \in Seq(S) /\ Len(peers) = Len(raw.peers)
    <3>1. 1..Len(raw.peers) \subseteq 1..Len(raw.peers) + 1
      BY <1>3
    <3> QED BY <1>3, <1>5, <2>1, <3>1
  <2>3. last \in Seq(S) /\ Len(last) = 1 /\ last[1] = RangesAt(raw, id, Len(raw.peers) + 1)
    <3>1. Len(raw.peers) + 1 \in 1..Len(raw.peers) + 1
      BY <1>3
    <3>2. {own} \in S
      BY <1>6, <2>1, <3>1, Zenon
    <3> QED BY <1>6, <3>2
  <2>4. ranges = peers \o last
    BY Zenon
  <2> HIDE DEF last, ranges
  <2>5. /\ ranges \in Seq(S) /\ Len(ranges) = Len(raw.peers) + 1
        /\ \A i \in 1..Len(raw.peers) + 1 : ranges[i] = IF i =< Len(peers) THEN peers[i] ELSE last[i - Len(peers)]
    <3>1. /\ peers \o last \in Seq(S) /\ Len(peers \o last) = Len(peers) + Len(last)
          /\ \A i \in 1..Len(peers) + Len(last) :
               (peers \o last)[i] = IF i =< Len(peers) THEN peers[i] ELSE last[i - Len(peers)]
      BY <2>2, <2>3, Joined, ZenonT(30)
    <3> QED BY <2>2, <2>3, <2>4, <3>1, Zenon
  <2>6. ASSUME NEW i \in 1..Len(raw.peers) + 1 PROVE ranges[i] = RangesAt(raw, id, i)
    <3>1. ranges[i] = IF i =< Len(peers) THEN peers[i] ELSE last[i - Len(peers)]
      BY <2>5, Zenon
    <3>2. CASE i \in 1..Len(raw.peers)
      BY <1>3, <1>5, <2>2, <3>1, <3>2, SMTT(30)
    <3>3. CASE i = Len(raw.peers) + 1
      BY <1>3, <2>2, <2>3, <3>1, <3>3, SMTT(30)
    <3> QED BY <1>3, <3>2, <3>3
  <2> QED BY <1>3, <2>5, <2>6
<1> HIDE DEF ranges
<1>8. ASSUME NEW a \in Ipv6Addr, NEW i \in DOMAIN ranges, NEW j \in DOMAIN ranges,
             \E r \in ranges[i] : contains(r, a), \E s \in ranges[j] : contains(s, a)
      PROVE  i = j
  BY <1>2, <1>7, <1>8, LoadedApart
<1> QED BY <1>8, Zenon DEF ranges, peers, own, id, raw

\* The checks of Config::load suffice for every configuration, key and hash:
\* no address is in the AllowedIPs of two peers, or of a peer and this node.
THEOREM SetupUnambiguous == SetupSpec => []Unambiguous
BY SetupInvariant, InvUnambiguous, PTL

\* Only keygen --force replaces a key, and only the command that made one takes
\* it away: for any paths and keys, and wherever the commands are killed.
THEOREM SetupKeyKept == SetupSpec => KeyKept
<1>1. SetupInv /\ [SetupNext]_setupVars => [KeyStep]_setupVars
  BY StepOK, Zenon
<1>2. SetupSpec => [][KeyStep]_setupVars
  BY <1>1, SetupInvariant, PTL DEF SetupSpec
<1> QED BY <1>2, Zenon DEF KeyKept, KeyStep

\* Whoever joins was invited, and the invitation still held.
THEOREM SetupJoined == SetupSpec => JoinedByInvitation
<1>1. SetupInv /\ [SetupNext]_setupVars => [TokenStep]_setupVars
  BY StepOK, Zenon
<1>2. SetupSpec => [][TokenStep]_setupVars
  BY <1>1, SetupInvariant, PTL DEF SetupSpec
<1> QED BY <1>2, Zenon DEF JoinedByInvitation, TokenStep

\* The lines of a hosts file have different names.
LEMMA InvHosts == SetupInv => SetupTypeOK /\ HostsWhole /\ HostsDistinct
<1> SUFFICES ASSUME SetupInv PROVE SetupTypeOK /\ HostsWhole /\ HostsDistinct
  BY Zenon
<1>1. SetupTypeOK /\ HostsWhole
  BY Zenon DEF SetupInv, HostsWhole
<1>2. ASSUME cmd.op = "hosts", ~Suffixed, NEW i \in DOMAIN cmd.file, NEW j \in DOMAIN cmd.file, i # j
      PROVE  cmd.file[i][2] # cmd.file[j][2]
  <2> DEFINE peers == RawOf(cmd.conf).peers
  <2>1. HostsOK(cmd)
    BY <1>2, CommandKinds, Zenon DEF SetupInv
  <2>2. cmd.file = render_hosts(peers, cmd.conf[1].key) /\ peers \in Seq(Peers)
    BY <2>1, FileRaw, Zenon DEF HostsOK
  <2>3. \A x \in DOMAIN peers : HostBase(peers[x].name).numbers = <<>>
    BY <1>2, Zenon DEF Suffixed
  <2> HIDE DEF peers
  <2>4. i < j \/ j < i
    <3>1. DOMAIN cmd.file \subseteq DOMAIN peers /\ DOMAIN peers = 1..Len(peers) /\ Len(peers) \in Nat
      <4>1. DOMAIN render_hosts(peers, cmd.conf[1].key) \subseteq DOMAIN peers
        BY Zenon DEF render_hosts
      <4> QED BY <2>2, <4>1
    <3> QED BY <1>2, <3>1
  <2>5. CASE i < j
    BY <1>2, <2>2, <2>3, <2>5, NamesApart
  <2>6. CASE j < i
    <3>1. cmd.file[j][2] # cmd.file[i][2]
      BY <1>2, <2>2, <2>3, <2>6, NamesApart
    <3> QED BY <3>1, Zenon
  <2> QED BY <2>4, <2>5, <2>6, Zenon
<1> QED BY <1>1, <1>2, Zenon DEF HostsDistinct

\* A configuration that was written whole loads with the key that came with it.
LEMMA UsableStep ==
  ASSUME SetupInv, SetupNext, Succeeds, Located(cmd.k), cmd.file[1].name \notin Unescaped
  PROVE  load_config_and_identity(conf)' = cmd.id
<1>1. cmd.op \in {"join", "init"} /\ cmd.step = "write" /\ conf' = cmd.file
  BY Zenon DEF Succeeds
<1>2. WritingOK(cmd)
  BY <1>1, CommandKinds, Zenon DEF SetupInv
<1>3. /\ cmd.k \in KeyArgs /\ cmd.id \in Identities /\ cmd.file \in Files
      /\ key[Full(cmd.k)] = cmd.id /\ ConfigError(cmd.file, cmd.id) = "ok"
      /\ cmd.file[1].key_file = key_file_ref_for_config(ConfArg, cmd.k)
  BY <1>1, <1>2, Zenon DEF WritingOK, WritingCmds
<1>4. key' = key
  <2>1. cmd # Idle
    BY <1>1 DEF Idle
  <2>2. CASE WriteConfig
    BY <2>2, Zenon DEF WriteConfig
  <2>3. CASE Kill
    BY <1>1, <2>3, Zenon DEF Kill, files
  <2>4. CASE ClockTick \/ \E m \in Members, name \in NetworkNames : invite_new(m, name, MembersKey, 1, 1, <<V6(m)>>)
    BY <2>4, OutsideStep, Zenon
  <2>5. ~SaveKey /\ ~CreateConfig /\ ~Undo /\ ~AppendBlock /\ ~Verify /\ ~WriteHosts /\ ~Rename /\ ~Edit
    BY <1>1, <2>1, Zenon DEF SaveKey, CreateConfig, Undo, AppendBlock, Verify, WriteHosts, Rename, Edit
  <2> QED BY <2>1, <2>2, <2>3, <2>4, <2>5, Zenon DEF SetupNext
<1>5. Resolve(ConfArg, cmd.file[1].key_file) = Full(cmd.k) /\ Full(cmd.k) \in KeyFiles
  BY <1>3, KeyFileFound, Zenon DEF KeyFiles
<1>6. IdentityAt(Full(cmd.k)) = cmd.id
  BY <1>3, <1>5, Arguments, Zenon DEF IdentityAt
<1>7. load_config_and_identity(cmd.file) = cmd.id
  BY <1>3, <1>5, <1>6, LoadsBack, Zenon
<1>8. load_config_and_identity(conf)' = load_config_and_identity(cmd.file)
  BY <1>1, <1>4, Zenon DEF load_config_and_identity, IdentityAt
<1> QED BY <1>7, <1>8, Zenon

\* What `peer add` reports done is done, or undone.
LEMMA AddKeepsStep ==
  ASSUME SetupInv, SetupNext, cmd.op = "add", cmd' = Idle, changes' = changes
  PROVE  /\ conf' \in {cmd.original, Append(cmd.original, cmd.block)}
         /\ load_config_and_identity(conf)' # NoOne
<1>1. ~Spend /\ cmd # Idle
  BY DEF Spend, SetupInv, SetupTypeOK, Idle
<1>2. Verify
  <2>1. ~SaveKey /\ ~CreateConfig /\ ~WriteConfig /\ ~Undo /\ ~WriteHosts /\ ~Rename /\ ~Edit
    BY <1>1, Zenon DEF SaveKey, CreateConfig, WriteConfig, Undo, WriteHosts, Rename, Edit
  <2>2. ~Kill
    BY <1>1, Zenon DEF Kill
  <2>3. ~AppendBlock
    <3>1. CommandOK(cmd) /\ AddOK(cmd)
      BY CommandKinds, Zenon DEF SetupInv
    <3>2. [cmd EXCEPT !.step = "verify"] # Idle
      <4>1. [cmd EXCEPT !.step = "verify"].op = "add"
        BY <3>1, Zenon DEF AddOK, AddCmds
      <4> QED BY <4>1, Zenon DEF Idle
    <3> QED BY <1>1, <3>2, Zenon DEF AppendBlock
  <2>4. ~ClockTick /\ ~\E m \in Members, name \in NetworkNames : invite_new(m, name, MembersKey, 1, 1, <<V6(m)>>)
    BY <1>1, OutsideStep, Zenon
  <2> QED BY <1>1, <2>1, <2>2, <2>3, <2>4, Zenon DEF SetupNext
<1> QED BY <1>2, VerifyStep, Zenon

\* What the commands leave on disk is fit for use: hosts files are whole and
\* unambiguous, `init` and `join` end in a configuration that loads with the key
\* they used, and `peer add` leaves one that loads.
THEOREM SetupFiles == SetupSpec => FilesSound
<1>1. SetupSpec => [](SetupTypeOK /\ HostsWhole /\ HostsDistinct)
  BY SetupInvariant, InvHosts, PTL
<1>2. SetupSpec => SetupUsableThere
  <2>1. SetupInv /\ [SetupNext]_setupVars =>
          [Succeeds /\ Located(cmd.k) /\ cmd.file[1].name \notin Unescaped
             => load_config_and_identity(conf)' = cmd.id]_setupVars
    BY UsableStep, Zenon
  <2> QED BY <2>1, SetupInvariant, PTL DEF SetupSpec, SetupUsableThere
<1>3. SetupSpec => AddKeeps
  <2>1. SetupInv /\ [SetupNext]_setupVars =>
          [cmd.op = "add" /\ cmd' = Idle /\ changes' = changes =>
             /\ conf' \in {cmd.original, Append(cmd.original, cmd.block)}
             /\ load_config_and_identity(conf)' # NoOne]_setupVars
    BY AddKeepsStep, Zenon
  <2> QED BY <2>1, SetupInvariant, PTL DEF SetupSpec, AddKeeps
<1> QED BY <1>1, <1>2, <1>3, Zenon DEF FilesSound
=============================================================================
