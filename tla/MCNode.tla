-------------------------------- MODULE MCNode --------------------------------
(***************************************************************************)
(* A configured peer "a" that announces two routes, one of which a user may  *)
(* have added by hand, a configured peer "b" with one, and a node "m" that    *)
(* gossip admits.                                                           *)
(***************************************************************************)
EXTENDS Node

MCConfig == <<"a", "b">>
MCOne == <<"a">>
MCRoutesOf(p) == CASE p = "a" -> <<"r1", "r2">> [] p = "b" -> <<"r3">> [] OTHER -> <<>>
=============================================================================
