------------------------------ MODULE Endpoint ------------------------------
(***************************************************************************)
(* Endpoints as the engine compares them: SocketAddrV6 values after         *)
(* candidates::normalize (flowinfo and scope_id cleared).                   *)
(***************************************************************************)
EXTENDS Naturals, Sequences, FiniteSets

CONSTANTS Endpoints,     \* normalised SocketAddrV6 values
          NoEndpoint     \* Option::<SocketAddrV6>::None

ASSUME NoEndpointAssumption == NoEndpoint \notin Endpoints

Elements(s) == {s[i] : i \in 1..Len(s)}
\* The entries of s at the places I, in their order.
Picked(s, I) ==
  [k \in 1..Cardinality(I) |-> s[CHOOSE i \in I : Cardinality({j \in I : j =< i}) = k]]
Without(s, e) == Picked(s, {i \in 1..Len(s) : s[i] # e})
Distinct(s) == \A i, j \in 1..Len(s) : s[i] = s[j] => i = j
=============================================================================
