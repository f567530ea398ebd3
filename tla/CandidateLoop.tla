---------------------------- MODULE CandidateLoop ----------------------------
(***************************************************************************)
(* The loops of build_candidates, one push_unique per step, on every        *)
(* CandidateSources of Inputs.                                              *)
(***************************************************************************)
EXTENDS Candidates

CONSTANT Inputs

Sources == [last_good : Endpoints \cup {NoEndpoint},
            discovered : Seq([src : {LAN, Gossip, DHT, DDNS}, ep : Endpoints]),
            configured : Seq(Endpoints),
            cached : Seq([ep : Endpoints, seen : Nat]),
            relay : Endpoints \cup {NoEndpoint}]
ASSUME InputsAssumption == \A s \in Inputs : s \in Sources

VARIABLES given,    \* the sources
          todo,     \* what the loops have not offered yet
          made,     \* the list so far (`out`)
          returned  \* the function has returned
loopVars == <<given, todo, made, returned>>

LoopTypeOK == /\ given \in Inputs /\ todo \in Seq(Endpoints) /\ made \in Seq(Endpoints)
              /\ returned \in BOOLEAN /\ (returned => todo = <<>>)

LoopInit == given \in Inputs /\ todo = DirectChain(given) /\ made = <<>> /\ returned = FALSE

\* Mutant: the direct loops use the full cap.
PushDirect_full_cap ==
  /\ todo # <<>>
  /\ made' = push_unique(made, Head(todo), MaxCandidates)
  /\ todo' = Tail(todo)
  /\ UNCHANGED <<given, returned>>
PushDirect ==
  /\ todo # <<>>
  /\ made' = push_unique(made, Head(todo), direct_cap(given.relay))
  /\ todo' = Tail(todo)
  /\ UNCHANGED <<given, returned>>

PushRelay ==
  /\ todo = <<>> /\ ~returned
  /\ made' = IF given.relay = NoEndpoint THEN made
             ELSE push_unique(made, given.relay, MaxCandidates)
  /\ returned' = TRUE
  /\ UNCHANGED <<given, todo>>

LoopNext == PushDirect \/ PushRelay
LoopSpec == LoopInit /\ [][LoopNext]_loopVars

-----------------------------------------------------------------------------
\* The place of an endpoint in the order of the sources.
Rank(s, e) ==
  CASE e = s.last_good -> 1
    [] e # s.last_good /\ e \in Elements(Endpoints_of(s.discovered)) -> 2
    [] e \notin {s.last_good} \cup Elements(Endpoints_of(s.discovered))
         /\ e \in Elements(s.configured) -> 3
    [] e \notin {s.last_good} \cup Elements(Endpoints_of(s.discovered)) \cup Elements(s.configured)
         /\ e \in Elements(Endpoints_of(s.cached)) -> 4
    [] OTHER -> 5

\* The list that PeerFsm gets has no repetitions, whatever the sources repeat:
\* `set_candidates` and the rotation rely on it.
NoRepeats == Distinct(made)

\* However many direct candidates there are, a relay session is in the finished
\* list, and the list does not exceed MAX_CANDIDATES (the reserved place).
RelayHasPlace ==
  /\ Len(made) =< MaxCandidates
  /\ returned /\ given.relay # NoEndpoint => given.relay \in Elements(made)

\* An endpoint is left out only because the direct part of the list was full.
LeftOutOnlyWhenFull ==
  returned => \A e \in Elements(DirectChain(given)) :
            e \in Elements(made) \/ Len(made) >= direct_cap(given.relay)

\* An earlier source is never displaced by a later one: the list is ordered by
\* source, and what is left out does not rank before a direct candidate kept.
EarlierSourceFirst ==
  returned =>
    /\ \A i, j \in 1..Len(made) : i < j => Rank(given, made[i]) =< Rank(given, made[j])
    /\ \A e \in Elements(DirectChain(given)) \ Elements(made) :
         \A i \in 1..Len(made) : made[i] # given.relay => Rank(given, made[i]) =< Rank(given, e)

\* The cached endpoints that no other source names come newest first.
CacheNewestFirst ==
  returned => \A i, j \in 1..Len(made) :
    i < j /\ Rank(given, made[i]) = 4 /\ Rank(given, made[j]) = 4 =>
      \E p, q \in 1..Len(given.cached) :
        /\ given.cached[p].ep = made[i] /\ given.cached[q].ep = made[j]
        /\ given.cached[p].seen >= given.cached[q].seen

\* The loops compute the list that the daemon's model uses: the endpoints of the
\* sources in order, each at its first occurrence, cut at the cap, then the relay.
LoopComputesList == returned => made = build_candidates(given)

\* The priorities of build_candidates' comment: source by source, and the cached
\* endpoints newest first, at every length of the list up to the cap.
ListOrdered == EarlierSourceFirst /\ CacheNewestFirst
=============================================================================
