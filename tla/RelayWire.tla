------------------------------ MODULE RelayWire ------------------------------
(***************************************************************************)
(* The control frame of the relay (core/src/relay.rs).  A datagram is the   *)
(* sequence of its fields; the MAC is ideal: the pair of the key and of     *)
(* what it covers.  The time of sending (`seq`) is kept by the network as   *)
(* the frame's age.                                                         *)
(***************************************************************************)
EXTENDS Naturals, Sequences

CONSTANTS CurvePoints   \* the public keys that from_bytes accepts

Magic == "HXTR"
Version == 1
FrameLen == 7
Mac(key, body) == <<key, body>>

RelayKinds == {"Register", "RegisterAck", "Unregister"}
as_u8 == [Register |-> 1, RegisterAck |-> 2, Unregister |-> 3]
from_u8(v) == CHOOSE k \in RelayKinds : as_u8[k] = v

encode(f, key) ==
  LET body == <<Magic, Version, as_u8[f.kind], f.port, f.self, f.peer>>
  IN  Append(body, Mac(key, body))

\* The error, or "ok"; what follows the frame is ignored.
check(w, key) ==
  IF Len(w) < FrameLen THEN "TooShort"
  ELSE IF w[1] # Magic THEN "BadMagic"
  ELSE IF w[2] # Version THEN "BadVersion"
  ELSE IF ~\E k \in RelayKinds : as_u8[k] = w[3] THEN "BadKind"
  ELSE IF w[7] # Mac(key, SubSeq(w, 1, 6)) THEN "BadMac"
  ELSE IF w[5] = w[6] THEN "SelfPair"
  ELSE IF ~{w[5], w[6]} \subseteq CurvePoints THEN "BadPublicKey"
  ELSE "ok"

\* The frame of a datagram that passes.
decode(w) == [kind |-> from_u8(w[3]), port |-> w[4], self |-> w[5], peer |-> w[6]]

\* The key of a pair, the same from both sides.
session_key_of(a, b) == IF a =< b THEN <<a, b>> ELSE <<b, a>>
session_key(f) == session_key_of(f.self, f.peer)
=============================================================================
