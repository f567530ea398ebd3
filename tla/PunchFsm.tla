------------------------------ MODULE PunchFsm ------------------------------
(***************************************************************************)
(* The punching state machine of one peer, engine/src/fsm.rs: PeerFsm and   *)
(* its operations as pure operators.  Candidate lists are sequences of      *)
(* normalised endpoints; `candidate_index` keeps the code's base 0.         *)
(*                                                                          *)
(* The two instants of PeerFsm are read only by comparing them with now and *)
(* with the kernel's last handshake.  An operation therefore reports, in    *)
(* `transition` and `rotate`, whether it sets last_transition and           *)
(* last_rotate to now; who runs the machine keeps the two comparisons.      *)
(***************************************************************************)
EXTENDS Endpoint, Integers, FiniteSetsExt

CONSTANT MaxRounds       \* u32::MAX: where `rounds` saturates
ASSUME MaxRoundsAssumption == MaxRounds \in Nat

Probing(i, r) == [tag |-> "Probing", index |-> i, rounds |-> r]
Connected(e) == [tag |-> "Connected", endpoint |-> e]
PunchStates == [tag : {"Probing"}, index : Nat, rounds : 0..MaxRounds]
                 \cup [tag : {"Connected"}, endpoint : Endpoints]

SetEndpoint(e) == [act |-> "SetEndpoint", ep |-> e]
Rehandshake(e) == [act |-> "Rehandshake", ep |-> e]
MarkGood(e) == [act |-> "MarkGood", ep |-> e]
Nudge == [act |-> "Nudge", ep |-> NoEndpoint]
Actions == [act : {"SetEndpoint", "Rehandshake", "MarkGood"}, ep : Endpoints]
             \cup [act : {"Nudge"}, ep : {NoEndpoint}]

\* What an operation leaves behind and asks for.
Outcome(cands, st, acts, transition, rotate) ==
  [fsm |-> [candidates |-> cands, state |-> st], acts |-> acts,
   transition |-> transition, rotate |-> rotate]
Nothing(f) == Outcome(f.candidates, f.state, <<>>, FALSE, FALSE)

\* Vec::get: the element at a base-0 index, if there is one.
Get(s, i) == IF i < Len(s) THEN s[i + 1] ELSE NoEndpoint
\* Iterator::position over the (base-1) indices that satisfy the predicate.
Position(I) == Min(I) - 1

-----------------------------------------------------------------------------
new(cands) == [candidates |-> cands, state |-> Probing(0, 0)]

current_candidate(f) ==
  IF f.state.tag = "Connected" THEN f.state.endpoint
                               ELSE Get(f.candidates, f.state.index)

\* Mutant: the kick also moves last_transition.
kick_moves_transition(f) ==
  LET acts == IF f.state.tag = "Connected" THEN <<Nudge>>
              ELSE IF current_candidate(f) = NoEndpoint THEN <<>>
              ELSE <<SetEndpoint(current_candidate(f)), Nudge>>
  IN  Outcome(f.candidates, f.state, acts, TRUE, TRUE)

kick(f) ==
  LET acts == IF f.state.tag = "Connected" THEN <<Nudge>>
              ELSE IF current_candidate(f) = NoEndpoint THEN <<>>
              ELSE <<SetEndpoint(current_candidate(f)), Nudge>>
  IN  Outcome(f.candidates, f.state, acts, FALSE, TRUE)

\* Where Probing points after the list `old` has been replaced by `list`.
Repoint(old, list, previous) ==
  LET unseen == {i \in 1..Len(list) : list[i] \notin Elements(old)}
      same == {i \in 1..Len(list) : list[i] = previous}
  IN  IF unseen # {} THEN Position(unseen)
      ELSE IF same # {} THEN Position(same) ELSE 0

\* Mutant: the old index is kept although the list has changed.
set_candidates_keeps_index(f, list) ==
  IF list = f.candidates THEN Nothing(f)
  ELSE IF f.state.tag = "Connected" THEN Outcome(list, f.state, <<>>, FALSE, FALSE)
  ELSE IF list = <<>> THEN Outcome(list, Probing(0, 0), <<>>, FALSE, FALSE)
  ELSE Outcome(list, f.state, <<>>, FALSE, FALSE)

\* `list` has no repetitions (build_candidates makes none, see Candidates), so
\* the deduplication loop at the head of the function leaves it as it is.
set_candidates(f, list) ==
  LET previous == Get(f.candidates, f.state.index)
      index == Repoint(f.candidates, list, previous)
      moved == Get(list, index) # previous
  IN  IF list = f.candidates THEN Nothing(f)
      ELSE IF f.state.tag = "Connected"
        THEN Outcome(list, f.state, <<>>, FALSE, FALSE)
      ELSE IF list = <<>> THEN Outcome(list, Probing(0, 0), <<>>, FALSE, FALSE)
      ELSE Outcome(list, Probing(index, f.state.rounds),
                   IF moved THEN <<SetEndpoint(list[index + 1]), Nudge>> ELSE <<>>,
                   moved, moved)

retry_from(f, avoid, flush) ==
  LET others == {i \in 1..Len(f.candidates) : f.candidates[i] # avoid}
      index == Position(others)
      target == f.candidates[index + 1]
  IN  IF f.state.tag = "Probing" \/ others = {} THEN Nothing(f)
      ELSE Outcome(f.candidates, Probing(index, 0),
                   <<IF flush THEN Rehandshake(target) ELSE SetEndpoint(target), Nudge>>,
                   TRUE, TRUE)

-----------------------------------------------------------------------------
(***************************************************************************)
(* tick.  obs.fresh: the last handshake is younger than HANDSHAKE_FRESH;    *)
(* obs.after: it is not older than last_transition; obs.ep: the kernel's    *)
(* endpoint; due: ROTATE_INTERVAL has passed since last_rotate.             *)
(***************************************************************************)
Proves(f, obs) == obs.fresh /\ (obs.after \/ Len(f.candidates) = 1)

Connect(f, obs) ==
  LET ep == IF obs.ep # NoEndpoint THEN obs.ep ELSE current_candidate(f)
  IN  IF ep = NoEndpoint THEN Nothing(f)
      ELSE Outcome(f.candidates, Connected(ep), <<MarkGood(ep)>>, TRUE, FALSE)

\* Mutants: the round counter does not saturate; the index does not wrap.
Rotate_unbounded(f) ==
  LET next == (f.state.index + 1) % Len(f.candidates)
  IN  Outcome(f.candidates,
              Probing(next, IF next = 0 THEN f.state.rounds + 1 ELSE f.state.rounds),
              <<SetEndpoint(f.candidates[next + 1]), Nudge>>, TRUE, TRUE)
Rotate_stops_at_end(f) ==
  LET next == Min({f.state.index + 1, Len(f.candidates) - 1})
      moved == next # f.state.index
  IN  Outcome(f.candidates, Probing(next, f.state.rounds),
              IF moved THEN <<SetEndpoint(f.candidates[next + 1]), Nudge>> ELSE <<Nudge>>,
              moved, TRUE)

Rotate(f) ==
  LET next == (f.state.index + 1) % Len(f.candidates)
      rounds == IF next = 0 /\ f.state.rounds < MaxRounds
                THEN f.state.rounds + 1 ELSE f.state.rounds
      moved == next # f.state.index
  IN  Outcome(f.candidates, Probing(next, rounds),
              IF moved THEN <<SetEndpoint(f.candidates[next + 1]), Nudge>> ELSE <<Nudge>>,
              moved, TRUE)

TickProbing(f, obs, due) ==
  IF Proves(f, obs) THEN Connect(f, obs)
  ELSE IF f.candidates = <<>> \/ ~due THEN Nothing(f)
  ELSE Rotate(f)

\* Mutant: falling back to Probing only nudges.
TickConnected_only_nudges(f, obs) ==
  IF ~obs.fresh THEN Outcome(f.candidates, Probing(0, 0), <<Nudge>>, TRUE, TRUE)
  ELSE IF obs.ep \notin {NoEndpoint, f.state.endpoint}
  THEN Outcome(f.candidates, Connected(obs.ep), <<MarkGood(obs.ep)>>, TRUE, FALSE)
  ELSE Nothing(f)

TickConnected(f, obs) ==
  IF ~obs.fresh
  THEN Outcome(f.candidates, Probing(0, 0),
               IF f.candidates = <<>> THEN <<>>
               ELSE <<SetEndpoint(f.candidates[1]), Nudge>>, TRUE, TRUE)
  ELSE IF obs.ep \notin {NoEndpoint, f.state.endpoint}
  THEN Outcome(f.candidates, Connected(obs.ep), <<MarkGood(obs.ep)>>, TRUE, FALSE)
  ELSE Nothing(f)

tick(f, obs, due) ==
  IF f.state.tag = "Probing" THEN TickProbing(f, obs, due) ELSE TickConnected(f, obs)
=============================================================================
