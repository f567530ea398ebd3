--------------------------- MODULE MCCandidateLoop ---------------------------
(* build_candidates on small sources, with a cap of three. *)
EXTENDS CandidateLoop

CONSTANTS a, b, c, r
MCEndpoints == {a, b, c, r}

UpTo2(S) == {<<>>} \cup {<<x>> : x \in S} \cup {<<x, y>> : x, y \in S}
MCInputs ==
  {s \in [last_good : {NoEndpoint, a},
          discovered : UpTo2({[src |-> LAN, ep |-> e] : e \in {a, b, c}}),
          configured : UpTo2({a, b, c}),
          cached : UpTo2({[ep |-> e, seen |-> t] : e \in {a, b, c}, t \in 1..2}),
          relay : {NoEndpoint, a, r}] :
     Distinct(s.discovered) /\ Distinct(Endpoints_of(s.cached))}
=============================================================================
