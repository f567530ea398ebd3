----------------------------- MODULE MCPeerFsm -----------------------------
(* PeerFsm on small instances. *)
EXTENDS PeerFsm, TLC

CONSTANTS a, b, c

\* Lists that grow, shrink, change their order and keep or lose the current
\* candidate; the peer answers at one address, or roams over several.
MCEndpoints == {a, b, c}
MCLists == {<<>>, <<a>>, <<a, b>>, <<b, a>>, <<c, a, b>>}
MCLive == {{a}, {b, c}}
=============================================================================
