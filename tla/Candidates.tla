----------------------------- MODULE Candidates -----------------------------
(***************************************************************************)
(* candidates.rs: the candidate list of a peer, put together from the cache,*)
(* the rendezvous layers, the configuration and the relay session.          *)
(* build_candidates is the list that the daemon's calls get; CandidateLoop  *)
(* runs the loops that make it, one push_unique at a time.                  *)
(*                                                                          *)
(* An entry of `discovered` is [src, ep]; `cached` entries are [ep, seen].  *)
(***************************************************************************)
EXTENDS Endpoint

CONSTANT MaxCandidates    \* MAX_CANDIDATES
ASSUME MaxCandidatesAssumption == MaxCandidates \in Nat \ {0}

\* Source, in the order of Source::priority.
LAN == 0
Gossip == 1
DHT == 2
DDNS == 3

\* Mutant: the last place is never used.
push_unique_early_cap(out, e, cap) ==
  IF Len(out) + 1 < cap /\ e \notin Elements(out) THEN Append(out, e) ELSE out
\* Mutant: an endpoint known from two sources is listed twice.
push_unique_repeats(out, e, cap) ==
  IF Len(out) < cap THEN Append(out, e) ELSE out
push_unique(out, e, cap) ==
  IF Len(out) < cap /\ e \notin Elements(out) THEN Append(out, e) ELSE out

\* Mutant: the relay gets no place of its own.
direct_cap_unreserved(relay) == MaxCandidates
direct_cap(relay) == MaxCandidates - (IF relay = NoEndpoint THEN 0 ELSE 1)

\* A stable sort, newest first.
ByLastSeen(cached) ==
  LET before(i, j) == \/ cached[i].seen > cached[j].seen
                      \/ cached[i].seen = cached[j].seen /\ i =< j
      place(i) == Cardinality({j \in 1..Len(cached) : before(j, i)})
  IN  [k \in 1..Len(cached) |-> cached[CHOOSE i \in 1..Len(cached) : place(i) = k]]

Endpoints_of(s) == [i \in 1..Len(s) |-> s[i].ep]
\* Mutant: the configuration comes before what the rendezvous layers report.
DirectChain_configured_first(s) ==
  (IF s.last_good = NoEndpoint THEN <<>> ELSE <<s.last_good>>)
    \o s.configured \o Endpoints_of(s.discovered) \o Endpoints_of(ByLastSeen(s.cached))
\* Everything offered to push_unique before the relay, in order.
DirectChain(s) ==
  (IF s.last_good = NoEndpoint THEN <<>> ELSE <<s.last_good>>)
    \o Endpoints_of(s.discovered) \o s.configured \o Endpoints_of(ByLastSeen(s.cached))

FirstOccurrences(s) ==
  Picked(s, {i \in 1..Len(s) : \A j \in 1..(i - 1) : s[j] # s[i]})
Truncate(s, n) == IF Len(s) > n THEN SubSeq(s, 1, n) ELSE s

\* What the loops of the function compute (CandidateLoop runs them).
build_candidates(s) ==
  LET direct == Truncate(FirstOccurrences(DirectChain(s)), direct_cap(s.relay))
  IN  IF s.relay = NoEndpoint THEN direct ELSE push_unique(direct, s.relay, MaxCandidates)
=============================================================================
