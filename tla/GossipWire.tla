------------------------------ MODULE GossipWire ------------------------------
(***************************************************************************)
(* The entries of the gossip and the table that keeps the newest of them    *)
(* (core/src/gossip.rs).  A datagram is the sequence of its fields.  Nodes   *)
(* and payloads are numbers, in the order of their bytes.  A signature is    *)
(* ideal: the pair of the signer and of what it covers.                     *)
(***************************************************************************)
EXTENDS Naturals, Sequences, FiniteSets

CONSTANTS CurvePoints,       \* the public keys that from_bytes accepts
          Payload(_),        \* kind -> the payloads that are well formed
          Unusable,          \* lists of addresses without one that can be an endpoint
          MaxStoreEntries    \* MAX_STORE_ENTRIES

Magic == "HXTG"
Version == 1
Kinds == {"Endpoint", "Member", "Revocation"}
as_u8 == [Endpoint |-> 1, Member |-> 2, Revocation |-> 3]
from_u8(v) == CHOOSE k \in Kinds : as_u8[k] = v

\* What is signed: all but the signature.
signed_region(kind, seq, node, signer, body) ==
  <<Magic, Version, as_u8[kind], seq, node, signer, body>>
sign(identity, region) == <<identity, region>>
verify(signer, region, sig) == sig = <<signer, region>>
Entry(identity, kind, seq, node, signer, body) ==
  [kind |-> kind, seq |-> seq, node |-> node, signer |-> signer, body |-> body,
   sig |-> sign(identity, signed_region(kind, seq, node, signer, body))]
sign_endpoint(id, addrs, seq) == Entry(id, "Endpoint", seq, id, id, addrs)
sign_member(id, node, name, seq) == Entry(id, "Member", seq, node, id, name)
sign_revocation(id, node, seq) == Entry(id, "Revocation", seq, node, id, 0)

RegionOf(e) == signed_region(e.kind, e.seq, e.node, e.signer, e.body)
encode(e) == Append(RegionOf(e), e.sig)

\* An address is only announced by its node, a membership only by somebody else.
signer_ok(kind, node, signer) == (kind = "Endpoint") <=> (signer = node)

\* The error, or "ok".
check(w) ==
  IF Len(w) < 7 THEN "TooShort"
  ELSE IF w[1] # Magic THEN "BadMagic"
  ELSE IF w[2] # Version THEN "BadVersion"
  ELSE IF ~\E k \in Kinds : as_u8[k] = w[3] THEN "BadKind"
  ELSE IF ~{w[5], w[6]} \subseteq CurvePoints THEN "BadPublicKey"
  ELSE IF Len(w) # 8 \/ w[7] \notin Payload(from_u8(w[3])) THEN "LengthMismatch"
  ELSE IF ~verify(w[6], SubSeq(w, 1, 7), w[8]) THEN "BadSignature"
  ELSE IF ~signer_ok(from_u8(w[3]), w[5], w[6]) THEN "NotByThisSigner"
  ELSE "ok"
\* The entry of a datagram that passes.
decode(w) == [kind |-> from_u8(w[3]), seq |-> w[4], node |-> w[5], signer |-> w[6],
              body |-> w[7], sig |-> w[8]]
is_valid(e) == signer_ok(e.kind, e.node, e.signer) /\ verify(e.signer, RegionOf(e), e.sig)
HasEndpoints(e) == e.kind = "Endpoint" /\ e.body \notin Unusable   \* endpoint_addrs # []

-----------------------------------------------------------------------------
(* The table: the newest entry per node and kind. *)
NoEntry == <<>>
Smaller(a, b) == a.signer < b.signer \/ (a.signer = b.signer /\ a.body < b.body)
\* lww_compare(a, b) = Greater: a replaces b.
Beats(a, b) == a.seq > b.seq \/ (a.seq = b.seq /\ Smaller(a, b))

KeyOf(e) == <<e.node, e.kind>>
Size(store) == Cardinality({k \in DOMAIN store : store[k] # NoEntry})
Merged(store, e) == [store EXCEPT ![KeyOf(e)] = e]
\* MergeOutcome.
merge(store, e) ==
  IF ~is_valid(e) THEN "Invalid"
  ELSE IF store[KeyOf(e)] # NoEntry /\ ~Beats(e, store[KeyOf(e)]) THEN "Stale"
  ELSE IF store[KeyOf(e)] = NoEntry /\ Size(store) >= MaxStoreEntries THEN "Rejected"
  ELSE "Applied"
\* Mutant: a Revocation is only looked up where the Member entry is.
is_revoked_never(store, node) == FALSE
is_revoked(store, node) == store[<<node, "Revocation">>] # NoEntry
entries(store) == {store[k] : k \in DOMAIN store} \ {NoEntry}
=============================================================================
