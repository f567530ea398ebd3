------------------------------ MODULE MCRelayNet ------------------------------
(* A relay with room for one session: the two sides of the pair 1, 2, and node
   3, which registers for 1 once and is not answered by it. *)
EXTENDS RelayNet, TLC

MCLinks == {<<1, 2>>, <<2, 1>>}
MCHomes == (1 :> {"i1", "j1"}) @@ (2 :> {"i2"}) @@ (3 :> {"i3"})
MCPorts == {5001, 5002}
Plain(a, b, port) == [kind |-> "Register", port |-> port, self |-> a, peer |-> b]
Stray(w, src, age) == [wire |-> w, src |-> src, age |-> age]
\* The frame of node 3; then what must be dropped: a frame of another network,
\* one of a later version, one cut off, one of a node the policy does not
\* allow, one that is too old, and one without a port.
MCStrays == {Stray(encode(Plain(3, 1, 4193), "key"), "i3", 0),
             Stray(encode(Plain(2, 3, 4193), "other network"), NoAddr, 0),
             Stray([encode(Plain(2, 3, 4193), "key") EXCEPT ![2] = 2], NoAddr, 0),
             Stray(SubSeq(encode(Plain(2, 3, 4193), "key"), 1, 5), NoAddr, 0),
             Stray(encode(Plain(4, 1, 4193), "key"), NoAddr, 0),
             Stray(encode(Plain(2, 3, 4193), "key"), NoAddr, SeqSkew + 1),
             Stray(encode(Plain(2, 3, 0), "key"), NoAddr, 0)}
=============================================================================
