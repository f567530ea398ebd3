-------------------------------- MODULE Config --------------------------------
(***************************************************************************)
(* Addresses, subnet routes and the checks of Config::load (core/src/addr.rs, *)
(* route.rs, network.rs, config.rs) and what becomes of a configuration in   *)
(* the WireGuard device (engine/src/spec.rs).                                *)
(*                                                                          *)
(* An IPv6 address is its Width bits, the first the most significant.  The   *)
(* hashes that derive the network's prefix and a node's numbers are arbitrary *)
(* functions.  A text that should be a key, an address or a name stands for   *)
(* what parsing it gives; the ones that do not parse are values of their own. *)
(***************************************************************************)
EXTENDS Integers, Sequences

CONSTANTS Width,             \* bits of an address (128)
          OverlayLen,        \* NetworkPrefix::PREFIX_LEN (48)
          SiteLen,           \* length of a node's site (64)
          NetworkId(_),      \* network key -> the bits of the overlay derived from it
          SubnetId(_),       \* node -> the bits of its subnet id
          Iid(_),            \* node -> the lower half of its address
          NetworkKeys,       \* what NetworkKey::from_base64 accepts
          KeyTexts,          \* what may stand where a node's key should
          PeerNames,         \* what a peer may be called
          CurvePoints        \* what NodePublicKey::from_base64 accepts

Bits(n) == [1..n -> {0, 1}]
Ipv6Addr == Bits(Width)
ASSUME Lengths ==
  /\ {OverlayLen, SiteLen, Width} \subseteq Nat
  /\ OverlayLen < SiteLen /\ SiteLen =< Width
\* A node is its public key; nobody has the key 0.
NoOne == 0
ASSUME Keys == CurvePoints \subseteq KeyTexts /\ NoOne \notin CurvePoints
ASSUME Hashes ==
  /\ \A k \in NetworkKeys : NetworkId(k) \in Bits(OverlayLen)
  /\ \A n \in CurvePoints : SubnetId(n) \in Bits(SiteLen - OverlayLen) /\ Iid(n) \in Bits(Width - SiteLen)

-----------------------------------------------------------------------------
(* Routes. *)
\* The bits that are set in a mask.
mask(len) == 1..len
apply_mask(addr, len) == [b \in 1..Width |-> IF b \in mask(len) THEN addr[b] ELSE 0]
Route(addr, len) == [prefix |-> addr, len |-> len]
\* from_str and Ipv6Route::new; `family` is what the text before the slash is.
RouteError(r) ==
  IF r.family = "v4" THEN "Ipv4"
  ELSE IF r.family # "v6" THEN "Invalid"
  ELSE IF r.len = 0 \/ r.len > Width THEN "BadPrefixLen"
  ELSE IF apply_mask(r.prefix, r.len) # r.prefix THEN "HostBitsSet"
  ELSE "ok"
contains(r, addr) == apply_mask(addr, r.len) = r.prefix
\* Mutant: only one of the two ways round.
overlaps_one_way(r, s) == contains(r, s.prefix)
overlaps(r, s) == contains(r, s.prefix) \/ contains(s, r.prefix)

(* Addresses. *)
\* Bits that are copied to the places after `from`, the rest of addr as it was.
Copied(addr, from, bits) ==
  [b \in 1..Width |-> IF b - from \in DOMAIN bits THEN bits[b - from] ELSE addr[b]]
Zero == [b \in 1..Width |-> 0]
network(key) == Copied(Zero, 0, NetworkId(key))
derive_node_addr(key, node) ==
  LET site == Copied(network(key), OverlayLen, SubnetId(node))
  IN  [subnet_id |-> SubnetId(node), site |-> site, address |-> Copied(site, SiteLen, Iid(node))]
Degenerate(node) == \A b \in DOMAIN Iid(node) : Iid(node)[b] = 0
check_subnet_collisions(nodes) ==
  \A i, j \in DOMAIN nodes : SubnetId(nodes[i]) = SubnetId(nodes[j]) => i = j

\* The site and the routes, none twice.
allowed_ips_for(site, routes) == {Route(site, SiteLen)} \cup routes

-----------------------------------------------------------------------------
(* Config::load.  The defaults of what a [node] section leaves out. *)
Default == [lan_discovery |-> TRUE, relay |-> FALSE, gossip |-> TRUE, dht |-> TRUE,
            ddns |-> FALSE, ddns_provider |-> "webhook", keepalive |-> 25]
Setting(node, f) == IF f \in DOMAIN node THEN node[f] ELSE Default[f]
Has(node, f) == f \in DOMAIN node /\ node[f] # ""
NodeError(node) ==
  LET ddns == Setting(node, "ddns")
      by(provider) == Setting(node, "ddns_provider") = provider
  IN  IF ("http_addr" \in DOMAIN node) # ("http_port" \in DOMAIN node) THEN "HttpAddrPortMismatch"
      ELSE IF ddns /\ ~Has(node, "ddns_fqdn") THEN "DdnsMissingFqdn"
      ELSE IF ddns /\ by("webhook") /\ ~Has(node, "ddns_webhook_url") THEN "DdnsMissingWebhookUrl"
      ELSE IF ddns /\ by("cloudflare") /\ ~("ddns_secret" \in DOMAIN node /\ Has(node, "ddns_zone"))
        THEN "DdnsMissingCloudflare"
      ELSE "ok"

\* A [[peers]] block, of which the file may leave out the keepalive.
Unset == -1
Families == {"v4", "v6", "neither"}
EndpointTexts == [family : Families, addr : KeyTexts]   \* the address of a node
RouteTexts == [family : Families, prefix : Ipv6Addr, len : Nat]
Peers == [name : PeerNames, public_key : KeyTexts, endpoints : Seq(EndpointTexts),
          routes : Seq(RouteTexts), ddns : {"none", "fqdn", "neither"}, relay : BOOLEAN, keepalive : Nat \cup {Unset}]
Peer(name, key, endpoints) ==
  [name |-> name, public_key |-> key, endpoints |-> endpoints, routes |-> <<>>,
   ddns |-> "none", relay |-> FALSE, keepalive |-> Unset]
BareRoute(r) == Route(r.prefix, r.len)
PeerError(p) ==
  IF p.public_key \notin CurvePoints THEN "BadKey"
  ELSE IF \E i \in DOMAIN p.endpoints : p.endpoints[i].family # "v6" THEN "BadEndpoint"
  ELSE IF \E i \in DOMAIN p.routes : RouteError(p.routes[i]) # "ok" THEN "BadRoute"
  ELSE IF \E i, j \in DOMAIN p.routes : i < j /\ p.routes[i] = p.routes[j] THEN "DuplicateRoute"
  ELSE IF p.ddns \notin {"none", "fqdn"} THEN "BadDdnsFqdn"
  ELSE IF Degenerate(p.public_key) THEN "DegenerateIid"
  ELSE IF p.relay /\ p.endpoints = <<>> THEN "RelayWithoutEndpoint"
  ELSE "ok"

KeyOf(peers) == [i \in DOMAIN peers |-> peers[i].public_key]
RoutesOf(p) == {BareRoute(p.routes[i]) : i \in DOMAIN p.routes}
\* A parsed file, and this node's key or NoOne where it is not known yet.
Conflicts(raw, own) ==
  LET taken == {Route(network(raw.key), OverlayLen)} \cup
               (IF own = NoOne THEN {} ELSE {Route(derive_node_addr(raw.key, own).site, SiteLen)})
  IN  \E i \in DOMAIN raw.peers : \E r \in RoutesOf(raw.peers[i]), t \in taken : overlaps(r, t)
Overlap(peers) ==
  \E i, j \in DOMAIN peers : i < j /\ \E r \in RoutesOf(peers[i]), s \in RoutesOf(peers[j]) :
    overlaps(r, s)
load(raw, own) ==
  IF NodeError(raw.node) # "ok" THEN NodeError(raw.node)
  ELSE IF raw.key \notin NetworkKeys THEN "BadNetworkKey"
  ELSE IF \E i \in DOMAIN raw.peers : PeerError(raw.peers[i]) # "ok" THEN "BadPeer"
  ELSE IF \E i, j \in DOMAIN raw.peers : i < j /\ raw.peers[i].public_key = raw.peers[j].public_key
    THEN "DuplicatePeer"
  ELSE IF ~raw.node.relay_allow \cup raw.node.admin_keys \subseteq CurvePoints THEN "BadKey"
  ELSE IF own # NoOne /\ Degenerate(own) THEN "DegenerateIid"
  ELSE IF ~check_subnet_collisions(KeyOf(raw.peers) \o (IF own = NoOne THEN <<>> ELSE <<own>>))
    THEN "SubnetCollision"
  ELSE IF Conflicts(raw, own) THEN "RouteConflict"
  ELSE IF Overlap(raw.peers) THEN "RouteOverlap"
  ELSE "ok"

-----------------------------------------------------------------------------
(* The device a loaded configuration describes. *)
peer_keepalive_secs(p, node) ==
  IF p.keepalive # Unset THEN p.keepalive ELSE Setting(node, "keepalive")
build_device_spec(raw) ==
  [i \in DOMAIN raw.peers |->
    LET p == raw.peers[i] IN
    [wg_public |-> p.public_key,
     endpoint |-> IF p.endpoints = <<>> THEN <<>> ELSE <<p.endpoints[1]>>,
     allowed_ips |-> allowed_ips_for(derive_node_addr(raw.key, p.public_key).site, RoutesOf(p)),
     keepalive |-> peer_keepalive_secs(p, raw.node)]]
=============================================================================
