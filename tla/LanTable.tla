------------------------------- MODULE LanTable -------------------------------
(***************************************************************************)
(* LAN beacons: core/src/beacon.rs and the table of engine/src/lan.rs.  An    *)
(* address is a number (their order is that of the enumeration); Usable are   *)
(* the ones is_usable_endpoint_addr lets through.  A table maps a node to the  *)
(* endpoints it announced, the second it announced them in, and the second of *)
(* our own clock in which it was last heard.                                 *)
(***************************************************************************)
EXTENDS Integers, FiniteSets

CONSTANTS Usable, BeaconMaxAddrs, MaxTracked, EntryTTL, SkewTolerance
ASSUME LanAssumption ==
  IsFiniteSet(Usable) /\ {BeaconMaxAddrs, MaxTracked, EntryTTL, SkewTolerance} \subseteq Nat

take(S, n) == {x \in S : Cardinality({y \in S : y < x}) < n}
Beacon(node, seq, addrs) == [node |-> node, seq |-> seq, addrs |-> take(addrs, BeaconMaxAddrs), mac |-> TRUE]
decodes(b) == b.mac /\ Cardinality(b.addrs) <= BeaconMaxAddrs
endpoints(b) == b.addrs \cap Usable

prune(table, now) == [n \in {m \in DOMAIN table : now - table[m].seen <= EntryTTL} |-> table[n]]

Insert(table, node, entry) ==
  [n \in DOMAIN table \cup {node} |-> IF n = node THEN entry ELSE table[n]]
\* Each variant returns the table, and whether the endpoints of the node changed.
\* Mutant: an older announcement is taken as well.
record_any(table, node, eps, seq, now) ==
  IF node \notin DOMAIN table /\ Cardinality(DOMAIN table) >= MaxTracked THEN [table |-> table, changed |-> FALSE]
  ELSE [table |-> Insert(table, node, [eps |-> eps, seq |-> seq, seen |-> now]), changed |-> TRUE]
record(table, node, eps, seq, now) ==
  LET entry == [eps |-> eps, seq |-> seq, seen |-> now]
      kept == IF Cardinality(DOMAIN table) >= MaxTracked THEN prune(table, now) ELSE table
  IN  IF node \in DOMAIN table
      THEN IF seq < table[node].seq THEN [table |-> table, changed |-> FALSE]
           ELSE [table |-> Insert(table, node, entry), changed |-> table[node].eps # eps]
      ELSE IF Cardinality(DOMAIN kept) >= MaxTracked THEN [table |-> kept, changed |-> FALSE]
      ELSE [table |-> Insert(kept, node, entry), changed |-> TRUE]

abs_diff(x, y) == IF x < y THEN y - x ELSE x - y
Ignored(b, self, now) ==
  \/ ~decodes(b)
  \/ b.node = self
  \/ abs_diff(b.seq, now) > SkewTolerance
  \/ endpoints(b) = {}
handle_datagram(table, b, self, now) ==
  IF Ignored(b, self, now) THEN [table |-> table, changed |-> FALSE]
  ELSE record(table, b.node, endpoints(b), b.seq, now)
===============================================================================
