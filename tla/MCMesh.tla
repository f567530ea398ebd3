-------------------------------- MODULE MCMesh --------------------------------
(* Two daemons, each the other's peer.  Node 3 is configured at the second and
   not at the first; node 4 only announces an address. *)
EXTENDS Mesh

MCConfigured == <<{2}, {1, 3}>>
MCPayload(kind) == IF kind = "Revocation" THEN {0} ELSE 0..3
Stray(w, inside) == [wire |-> w, dst |-> 2, inside |-> inside]
\* An announcement of node 4, which takes a place in the table; then what must be
\* dropped: an address of node 1 announced by 4, node 3 admitted by itself and by
\* somebody who is no administrator, a datagram from outside the prefix, a bad
\* signature, a later version, a cut one, a padded one, and unusable addresses.
MCStrays == {Stray(encode(sign_endpoint(4, 1, 0)), TRUE),
             Stray(encode(Entry(4, "Endpoint", 1, 1, 4, 1)), TRUE),
             Stray(encode(Entry(3, "Member", 1, 3, 3, 1)), TRUE),
             Stray(encode(sign_member(4, 3, 1, 1)), TRUE),
             Stray(encode(sign_revocation(1, 3, 1)), FALSE),
             Stray(encode([sign_revocation(1, 3, 1) EXCEPT !.seq = 2]), TRUE),
             Stray([encode(sign_revocation(1, 3, 1)) EXCEPT ![2] = 2], TRUE),
             Stray(SubSeq(encode(sign_revocation(1, 3, 1)), 1, 6), TRUE),
             Stray(Append(encode(sign_revocation(1, 3, 1)), 0), TRUE),
             Stray(encode(sign_endpoint(4, 3, 2)), TRUE)}
=============================================================================
