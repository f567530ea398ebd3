------------------------------- MODULE MCSetup -------------------------------
(***************************************************************************)
(* Two keys to generate (1 and 2), a member who invites (3), and nodes to be *)
(* added; 2 and 3 have the same subnet id, 5 a degenerate address.           *)
(***************************************************************************)
EXTENDS Setup, TLC

MCNetworkId(k) == IF k = "home" THEN <<1, 1>> ELSE <<1, 0>>
MCSubnetId(n) == <<<<0, 0>>, <<0, 1>>, <<0, 1>>, <<1, 0>>, <<0, 0>>, <<1, 1>>>>[n]
MCIid(n) == IF n = 5 THEN <<0>> ELSE <<1>>
MCHostBase(name) ==
  [label |-> IF name = "?" THEN "" ELSE IF name \in {"A", "a", "a-2"} THEN "a" ELSE name,
   numbers |-> IF name = "a-2" THEN <<2>> ELSE <<>>]

Rel(parts) == [abs |-> FALSE, parts |-> parts]
MCCwd == <<"home">>
MCConfArg == Rel(<<"conf", "hextet.toml">>)
MCKeyArgs == {Rel(<<"conf", "node.key">>), [abs |-> TRUE, parts |-> <<"keys", "node.key">>]}

\* A route is its first bits.
R(bits) == [family |-> "v6", prefix |-> Copied(Zero, 0, bits), len |-> Len(bits)]
With(name, n, routes) == [Peer(name, n, <<>>) EXCEPT !.routes = routes]
\* Good; a route inside that of the file; one inside the overlay; twice the same;
\* a degenerate key; no key at all; an IPv4 endpoint.
MCAddArgs ==
  {With("A", 4, <<>>), With("b", 4, <<R(<<0, 1, 0, 0>>)>>), With("b", 4, <<R(<<1, 1, 0, 1>>)>>),
   With("c", 3, <<R(<<0, 0, 0>>), R(<<0, 0, 0>>)>>), With("d", 5, <<>>), With("e", 7, <<>>),
   Peer("f", 4, <<[family |-> "v4", addr |-> 1]>>)}
File(node, peers) ==
  [tag |-> "file", parses |-> TRUE, name |-> "net", key |-> "home",
   key_file |-> key_file_ref_for_config(ConfArg, CHOOSE k \in KeyArgs : k.abs \/ \A l \in KeyArgs : ~l.abs), node |-> node,
   peers |-> peers]
Plain == [relay_allow |-> {}, admin_keys |-> {}]
\* Good, with names that collide; a route that holds another; ddns without a name;
\* a relay without an address.
MCHandWritten ==
  {File(Plain, <<With("?", 6, <<>>), With("a", 3, <<R(<<0, 1, 0>>)>>)>>),
   File(Plain, <<With("a", 3, <<R(<<0, 1, 0>>)>>), With("a-2", 4, <<>>)>>),
   File(Plain, <<With("x", 3, <<R(<<0, 1, 0, 1>>)>>), With("y", 4, <<R(<<0, 1, 0>>)>>)>>),
   File([ddns |-> TRUE] @@ Plain, <<>>),
   File(Plain, <<[Peer("z", 4, <<>>) EXCEPT !.relay = TRUE]>>)}
=============================================================================
