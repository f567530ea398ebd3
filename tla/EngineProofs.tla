----------------------------- MODULE EngineProofs -----------------------------
(***************************************************************************)
(* What the operators of the engine crate guarantee, for all endpoints,     *)
(* lists and limits: the operations of PeerFsm (PunchFsm) and the candidate *)
(* list (Candidates, CandidateLoop).  ReachProofs and RelayLinkProofs       *)
(* use these lemmas; the theorems about build_candidates are at the end.    *)
(***************************************************************************)
EXTENDS PunchFsm, CandidateLoop, FiniteSetTheorems, TLAPS

-----------------------------------------------------------------------------
(* The operations of the machine.                                          *)
Fsms == [candidates : Seq(Endpoints), state : PunchStates]

\* IndexInBounds of a machine f.
Bounded(f) ==
  f.state.tag = "Probing" =>
    f.state.index < Len(f.candidates) \/ (f.candidates = <<>> /\ f.state.index = 0)

\* The shapes of the action lists that the operations return.
ActLists == {<<>>, <<Nudge>>}
              \cup {<<MarkGood(e)>> : e \in Endpoints}
              \cup {<<SetEndpoint(e), Nudge>> : e \in Endpoints}
              \cup {<<Rehandshake(e), Nudge>> : e \in Endpoints}

\* The list of actions begins by pointing the kernel at e.
Points(acs, e) == acs = <<SetEndpoint(e), Nudge>> \/ acs = <<Rehandshake(e), Nudge>>
Searching(f) == f.state.tag = "Probing" /\ f.candidates # <<>>

\* What every operation on f guarantees: the machine stays well formed, and if
\* it is probing afterwards the kernel is told so, unless it already was.
Sound(f, out) ==
  /\ out.fsm \in Fsms /\ Bounded(out.fsm)
  /\ out.acts \in ActLists
  /\ out.transition \in BOOLEAN /\ out.rotate \in BOOLEAN
  /\ Searching(out.fsm) =>
       \/ Points(out.acts, current_candidate(out.fsm))
       \/ /\ Searching(f) /\ current_candidate(out.fsm) = current_candidate(f)
          /\ out.acts \in {<<>>, <<Nudge>>}

-----------------------------------------------------------------------------
\* A non-empty set of naturals has a least element: Iterator::position returns
\* an index that satisfies the predicate.
LEMMA MinIsMember ==
  ASSUME NEW I \in SUBSET Nat, I # {}
  PROVE  Min(I) \in I
<1> DEFINE LT == {p \in Nat \X Nat : p[1] < p[2]}
<1>1. IsWellFoundedOn(LT, Nat)
  BY NatLessThanWellFounded, Zenon DEF OpToRel
<1>2. PICK x \in I : \A y \in I : ~(<<y, x>> \in LT)
  BY <1>1, WFMin, Zenon
<1>3. ASSUME NEW y \in I PROVE x =< y
  <2>1. x \in Nat /\ y \in Nat
    BY Zenon
  <2>2. y < x => <<y, x>> \in LT
    BY <2>1, Zenon
  <2> QED
    BY <1>2, <2>1, <2>2
<1> QED
  BY <1>2, <1>3, Zenon DEF Min

\* Position of a set of indices of a list is an index of that list.
LEMMA PositionInBounds ==
  ASSUME NEW n \in Nat, NEW I \in SUBSET (1..n), I # {}
  PROVE  Position(I) \in Nat /\ Position(I) < n /\ Position(I) + 1 \in I
<1>1. Min(I) \in I
  BY MinIsMember
<1>2. Min(I) \in 1..n
  BY <1>1, Zenon
<1> QED
  BY <1>1, <1>2 DEF Position
-----------------------------------------------------------------------------
(* The operations of the machine are sound. *)

\* Facts about a machine, its tag and its current candidate.
LEMMA FsmFacts ==
  ASSUME NEW f \in Fsms
  PROVE  /\ f.candidates \in Seq(Endpoints) /\ Len(f.candidates) \in Nat
         /\ f.state \in PunchStates /\ f.state.tag \in {"Probing", "Connected"}
         /\ f.state.tag = "Probing" => f.state.index \in Nat /\ f.state.rounds \in 0..MaxRounds
         /\ f.state.tag = "Connected" => f.state.endpoint \in Endpoints
  BY DEF Fsms, PunchStates

\* The current candidate of a searching machine is an endpoint of its list.
LEMMA CandidateIsEndpoint ==
  ASSUME NEW f \in Fsms, Bounded(f), Searching(f)
  PROVE  /\ current_candidate(f) = f.candidates[f.state.index + 1]
         /\ current_candidate(f) \in Endpoints
  BY FsmFacts DEF Bounded, Searching, current_candidate, Get

\* kick re-points a probing machine and only nudges a connected one.
LEMMA KickSound ==
  ASSUME NEW f \in Fsms, Bounded(f)
  PROVE  Sound(f, kick(f))
<1> DEFINE out == kick(f)
<1>1. /\ out.fsm = [candidates |-> f.candidates, state |-> f.state]
      /\ out.transition = FALSE /\ out.rotate = TRUE
  BY Zenon DEF kick, Outcome
<1>2. out.fsm = f
  BY <1>1, Zenon DEF Fsms
<1>3. CASE f.state.tag = "Connected"
  BY <1>1, <1>2, <1>3, Zenon DEF Sound, kick, Outcome, ActLists, Searching
<1>4. CASE f.state.tag = "Probing" /\ f.candidates = <<>>
  <2>1. out.acts = <<>> \/ \E e \in Endpoints : out.acts = <<SetEndpoint(e), Nudge>>
    BY <1>4, FsmFacts DEF Bounded, kick, Outcome, current_candidate, Get
  <2> QED
    BY <1>1, <1>2, <1>4, <2>1, Zenon DEF Sound, ActLists, Searching
<1>5. CASE Searching(f)
  <2>1. out.acts = <<SetEndpoint(current_candidate(f)), Nudge>>
    BY <1>5, CandidateIsEndpoint, NoEndpointAssumption, Zenon DEF Searching, kick, Outcome
  <2> QED
    BY <1>1, <1>2, <1>5, <2>1, CandidateIsEndpoint, Zenon DEF Sound, ActLists, Points
<1> QED
  BY <1>3, <1>4, <1>5, FsmFacts, Zenon DEF Searching

\* An operation that changes neither the machine nor anything else.
LEMMA NothingSound ==
  ASSUME NEW f \in Fsms, Bounded(f)
  PROVE  Sound(f, Nothing(f)) /\ Nothing(f).fsm = f /\ ~Nothing(f).transition
<1>1. Nothing(f).fsm = f
  BY Zenon DEF Nothing, Outcome, Fsms
<1> QED
  BY <1>1, Zenon DEF Sound, Nothing, Outcome, ActLists

\* Repoint returns an index of the new list.
LEMMA RepointInBounds ==
  ASSUME NEW old, NEW list \in Seq(Endpoints), list # <<>>, NEW previous
  PROVE  Repoint(old, list, previous) \in Nat /\ Repoint(old, list, previous) < Len(list)
<1> DEFINE unseen == {i \in 1..Len(list) : list[i] \notin Elements(old)}
           same == {i \in 1..Len(list) : list[i] = previous}
<1>1. Len(list) \in Nat /\ Len(list) > 0
  OBVIOUS
<1>2. unseen # {} => Position(unseen) \in Nat /\ Position(unseen) < Len(list)
  BY <1>1, PositionInBounds, Zenon
<1>3. same # {} => Position(same) \in Nat /\ Position(same) < Len(list)
  BY <1>1, PositionInBounds, Zenon
<1> QED
  BY <1>1, <1>2, <1>3, Zenon DEF Repoint

\* set_candidates: wherever the new list points, the kernel is told.
LEMMA SetCandidatesSound ==
  ASSUME NEW f \in Fsms, Bounded(f), NEW list \in Seq(Endpoints)
  PROVE  Sound(f, set_candidates(f, list))
<1> DEFINE out == set_candidates(f, list)
           previous == Get(f.candidates, f.state.index)
           index == Repoint(f.candidates, list, previous)
           moved == Get(list, index) # previous
<1>1. CASE list = f.candidates
  BY <1>1, NothingSound, Zenon DEF set_candidates
<1>2. CASE list # f.candidates /\ f.state.tag = "Connected"
  <2>1. out = Outcome(list, f.state, <<>>, FALSE, FALSE)
    BY <1>2, Zenon DEF set_candidates
  <2>2. /\ out.fsm = [candidates |-> list, state |-> f.state] /\ out.acts = <<>>
        /\ out.transition = FALSE /\ out.rotate = FALSE
    BY <2>1 DEF Outcome
  <2>3. out.fsm \in Fsms /\ out.fsm.state.tag = "Connected"
    BY <1>2, <2>2, FsmFacts, Zenon DEF Fsms
  <2> QED
    BY <2>2, <2>3, Zenon DEF Sound, Bounded, ActLists, Searching
<1>3. CASE list # f.candidates /\ f.state.tag = "Probing" /\ list = <<>>
  <2>1. out = Outcome(list, Probing(0, 0), <<>>, FALSE, FALSE)
    BY <1>3, Zenon DEF set_candidates
  <2>2. Probing(0, 0) \in PunchStates
    BY MaxRoundsAssumption DEF Probing, PunchStates
  <2>3. /\ out.fsm = [candidates |-> <<>>, state |-> Probing(0, 0)] /\ out.acts = <<>>
        /\ out.transition = FALSE /\ out.rotate = FALSE
    BY <1>3, <2>1 DEF Outcome
  <2>4. out.fsm \in Fsms /\ Bounded(out.fsm)
    BY <2>2, <2>3 DEF Fsms, Bounded, Probing
  <2>5. ~Searching(out.fsm) /\ out.acts \in ActLists
    BY <2>3 DEF Searching, ActLists
  <2> QED
    BY <2>3, <2>4, <2>5, Zenon DEF Sound
<1>4. CASE list # f.candidates /\ f.state.tag = "Probing" /\ list # <<>>
  <2>1. index \in Nat /\ index < Len(list)
    BY <1>4, RepointInBounds, Zenon
  <2>2. Get(list, index) = list[index + 1] /\ list[index + 1] \in Endpoints
    BY <2>1 DEF Get
  <2>3. out = Outcome(list, Probing(index, f.state.rounds),
                      IF moved THEN <<SetEndpoint(list[index + 1]), Nudge>> ELSE <<>>,
                      moved, moved)
    BY <1>4, Zenon DEF set_candidates
  <2>4. /\ out.fsm = [candidates |-> list, state |-> Probing(index, f.state.rounds)]
        /\ out.transition = moved /\ out.rotate = moved
        /\ out.acts = IF moved THEN <<SetEndpoint(list[index + 1]), Nudge>> ELSE <<>>
    BY <2>3 DEF Outcome
  <2>5. out.fsm \in Fsms /\ Bounded(out.fsm)
    BY <1>4, <2>1, <2>4, FsmFacts DEF Fsms, PunchStates, Probing, Bounded
  <2>6. current_candidate(out.fsm) = list[index + 1]
    BY <2>2, <2>4 DEF current_candidate, Probing
  <2>7. CASE moved
    BY <2>2, <2>4, <2>5, <2>6, <2>7, Zenon DEF Sound, ActLists, Points
  <2>8. CASE ~moved
    <3>1. previous = list[index + 1] /\ previous = current_candidate(f)
      BY <1>4, <2>2, <2>8, Zenon DEF current_candidate
    <3>2. f.candidates # <<>>
      BY <1>4, <2>2, <3>1, NoEndpointAssumption, FsmFacts, SMTT(60) DEF Get
    <3> QED
      BY <1>4, <2>4, <2>5, <2>6, <2>8, <3>1, <3>2, Zenon DEF Sound, ActLists, Searching
  <2> QED
    BY <2>7, <2>8, Zenon
<1> QED
  BY <1>1, <1>2, <1>3, <1>4, FsmFacts, Zenon

\* Moving to Probing at an index of the list while pointing the kernel at it.
LEMMA PointingSound ==
  ASSUME NEW f \in Fsms, NEW i \in Nat, i < Len(f.candidates), NEW r \in 0..MaxRounds,
         NEW flush \in BOOLEAN, NEW rotate \in BOOLEAN, NEW moved \in BOOLEAN
  PROVE  Sound(f, Outcome(f.candidates, Probing(i, r),
                          <<IF flush THEN Rehandshake(f.candidates[i + 1])
                            ELSE SetEndpoint(f.candidates[i + 1]), Nudge>>, moved, rotate))
<1> DEFINE e == f.candidates[i + 1]
           acs == <<IF flush THEN Rehandshake(e) ELSE SetEndpoint(e), Nudge>>
           out == Outcome(f.candidates, Probing(i, r), acs, moved, rotate)
<1>1. f.candidates \in Seq(Endpoints) /\ e \in Endpoints
  BY FsmFacts
<1>2. /\ out.fsm = [candidates |-> f.candidates, state |-> Probing(i, r)]
      /\ out.transition = moved /\ out.rotate = rotate /\ out.acts = acs
  BY SMTT(60) DEF Outcome
<1>3. out.fsm \in Fsms /\ Bounded(out.fsm)
  BY <1>1, <1>2, SMTT(60) DEF Fsms, PunchStates, Probing, Bounded
<1>4. current_candidate(out.fsm) = e
  BY <1>2 DEF current_candidate, Probing, Get
<1>5. Points(acs, e) /\ acs \in ActLists
  BY <1>1, Zenon DEF Points, ActLists
<1> QED
  BY <1>2, <1>3, <1>4, <1>5, Zenon DEF Sound

\* retry_from points at the first candidate other than `avoid`, if there is one.
LEMMA RetryFromSound ==
  ASSUME NEW f \in Fsms, Bounded(f), NEW avoid, NEW flush \in BOOLEAN
  PROVE  Sound(f, retry_from(f, avoid, flush))
<1> DEFINE others == {i \in 1..Len(f.candidates) : f.candidates[i] # avoid}
           index == Position(others)
<1>1. CASE f.state.tag = "Probing" \/ others = {}
  BY <1>1, NothingSound, Zenon DEF retry_from
<1>2. CASE ~(f.state.tag = "Probing" \/ others = {})
  <2>1. index \in Nat /\ index < Len(f.candidates)
    BY <1>2, PositionInBounds, FsmFacts, Zenon
  <2>2. 0 \in 0..MaxRounds
    BY MaxRoundsAssumption
  <2> QED
    BY <1>2, <2>1, <2>2, PointingSound, Zenon DEF retry_from
<1> QED
  BY <1>1, <1>2, Zenon

\* Probing to Connected: the endpoint is the kernel's, else the current candidate.
LEMMA ConnectSound ==
  ASSUME NEW f \in Fsms, Bounded(f), NEW ob, ob.ep \in Endpoints \cup {NoEndpoint}
  PROVE  /\ Sound(f, Connect(f, ob))
         /\ ob.ep # NoEndpoint => Connect(f, ob).fsm.state.tag = "Connected"
<1> DEFINE ep == IF ob.ep # NoEndpoint THEN ob.ep ELSE current_candidate(f)
           out == Connect(f, ob)
<1>1. ep \in Endpoints \cup {NoEndpoint}
  BY FsmFacts DEF current_candidate, Get
<1>2. CASE ep = NoEndpoint
  BY <1>2, NothingSound, Zenon DEF Connect
<1>3. CASE ep # NoEndpoint
  <2>1. /\ out.fsm = [candidates |-> f.candidates, state |-> Connected(ep)]
        /\ out.acts = <<MarkGood(ep)>> /\ out.transition = TRUE /\ out.rotate = FALSE
    BY <1>3, Zenon DEF Connect, Outcome
  <2>2. out.fsm \in Fsms /\ out.fsm.state.tag = "Connected"
    BY <1>1, <1>3, <2>1, FsmFacts DEF Fsms, PunchStates, Connected
  <2> QED
    BY <1>1, <1>3, <2>1, <2>2, ZenonT(60) DEF Sound, Bounded, ActLists, Searching
<1> QED
  BY <1>2, <1>3, Zenon

\* The 2.5 s rotation wraps inside the list; only a move sets the endpoint.
LEMMA RotateSound ==
  ASSUME NEW f \in Fsms, Bounded(f), Searching(f)
  PROVE  Sound(f, Rotate(f))
<1> DEFINE next == (f.state.index + 1) % Len(f.candidates)
           rounds == IF next = 0 /\ f.state.rounds < MaxRounds
                     THEN f.state.rounds + 1 ELSE f.state.rounds
           moved == next # f.state.index
<1>1. /\ f.state.index \in Nat /\ f.state.index < Len(f.candidates)
      /\ Len(f.candidates) \in Nat /\ f.state.rounds \in 0..MaxRounds
  BY FsmFacts, Zenon DEF Bounded, Searching
<1>2. next \in Nat /\ next < Len(f.candidates)
  BY <1>1
<1>3. rounds \in 0..MaxRounds
  BY <1>1, MaxRoundsAssumption
<1>4. CASE moved
  <2>1. Rotate(f) = Outcome(f.candidates, Probing(next, rounds),
                            <<SetEndpoint(f.candidates[next + 1]), Nudge>>, TRUE, TRUE)
    BY <1>4, Zenon DEF Rotate
  <2> QED
    BY <1>2, <1>3, <2>1, PointingSound, Zenon
<1>5. CASE ~moved
  <2> DEFINE out == Rotate(f)
  <2>1. /\ out.fsm = [candidates |-> f.candidates, state |-> Probing(next, rounds)]
        /\ out.acts = <<Nudge>> /\ out.transition = FALSE /\ out.rotate = TRUE
    BY <1>5, Zenon DEF Rotate, Outcome
  <2>2. out.fsm \in Fsms /\ Bounded(out.fsm)
    BY <1>2, <1>3, <2>1, FsmFacts DEF Fsms, PunchStates, Probing, Bounded
  <2>3. current_candidate(out.fsm) = current_candidate(f)
    BY <1>5, <2>1 DEF current_candidate, Probing, Searching
  <2> QED
    BY <2>1, <2>2, <2>3, Zenon DEF Sound, ActLists
<1> QED
  BY <1>4, <1>5, Zenon

\* tick, all branches.
LEMMA TickSound ==
  ASSUME NEW f \in Fsms, Bounded(f), NEW ob, ob.ep \in Endpoints \cup {NoEndpoint},
         NEW due \in BOOLEAN
  PROVE  Sound(f, tick(f, ob, due))
<1>1. CASE f.state.tag = "Probing"
  BY <1>1, NothingSound, ConnectSound, RotateSound, Zenon DEF tick, TickProbing, Searching
<1>2. CASE f.state.tag = "Connected" /\ ~ob.fresh /\ f.candidates = <<>>
  <2> DEFINE out == tick(f, ob, due)
  <2>1. /\ out.fsm = [candidates |-> <<>>, state |-> Probing(0, 0)]
        /\ out.acts = <<>> /\ out.transition = TRUE /\ out.rotate = TRUE
    BY <1>2, Zenon DEF tick, TickConnected, Outcome
  <2>2. out.fsm \in Fsms /\ Bounded(out.fsm)
    BY <2>1, MaxRoundsAssumption DEF Fsms, PunchStates, Probing, Bounded
  <2>3. ~Searching(out.fsm) /\ out.acts \in ActLists
    BY <2>1 DEF Searching, ActLists
  <2> QED
    BY <2>1, <2>2, <2>3, Zenon DEF Sound
<1>3. CASE f.state.tag = "Connected" /\ ~ob.fresh /\ f.candidates # <<>>
  <2>1. 0 < Len(f.candidates) /\ 0 \in 0..MaxRounds /\ 0 + 1 = 1
    BY <1>3, FsmFacts, MaxRoundsAssumption
  <2>2. tick(f, ob, due) = Outcome(f.candidates, Probing(0, 0),
                                   <<SetEndpoint(f.candidates[1]), Nudge>>, TRUE, TRUE)
    BY <1>3, Zenon DEF tick, TickConnected
  <2>3. Sound(f, Outcome(f.candidates, Probing(0, 0),
                         <<SetEndpoint(f.candidates[0 + 1]), Nudge>>, TRUE, TRUE))
    BY <2>1, PointingSound, Zenon
  <2> QED
    BY <2>1, <2>2, <2>3, Zenon
<1>4. CASE f.state.tag = "Connected" /\ ob.fresh
  <2>1. CASE ob.ep \in {NoEndpoint, f.state.endpoint}
    BY <1>4, <2>1, NothingSound, Zenon DEF tick, TickConnected
  <2>2. CASE ob.ep \notin {NoEndpoint, f.state.endpoint}
    <3> DEFINE out == tick(f, ob, due)
    <3>1. /\ out.fsm = [candidates |-> f.candidates, state |-> Connected(ob.ep)]
          /\ out.acts = <<MarkGood(ob.ep)>> /\ out.transition = TRUE /\ out.rotate = FALSE
      BY <1>4, <2>2, Zenon DEF tick, TickConnected, Outcome
    <3>2. out.fsm \in Fsms /\ out.fsm.state.tag = "Connected"
      BY <2>2, <3>1, FsmFacts DEF Fsms, PunchStates, Connected
    <3> QED
      BY <2>2, <3>1, <3>2, Zenon DEF Sound, Bounded, ActLists, Searching
  <2> QED
    BY <2>1, <2>2, Zenon
<1> QED
  BY <1>1, <1>2, <1>3, <1>4, FsmFacts, Zenon

-----------------------------------------------------------------------------
(* What the operations do to the evidence of a handshake. *)

\* If out is probing, then it has moved to another candidate, or f was probing
\* and last_transition has not moved.
Keeps(f, out) ==
  out.fsm.state.tag = "Probing" =>
    IF out.transition THEN current_candidate(out.fsm) # current_candidate(f)
                      ELSE f.state.tag = "Probing"

\* An operation that changes nothing keeps the evidence.
LEMMA NothingKeeps ==
  ASSUME NEW f \in Fsms
  PROVE  Keeps(f, Nothing(f)) /\ Nothing(f).fsm.candidates = f.candidates
  BY Zenon DEF Keeps, Nothing, Outcome

\* kick leaves last_transition alone, so the evidence stays.
LEMMA KickKeeps ==
  ASSUME NEW f \in Fsms
  PROVE  Keeps(f, kick(f)) /\ kick(f).fsm.candidates = f.candidates
  BY Zenon DEF Keeps, kick, Outcome

\* set_candidates moves last_transition only together with the candidate.
LEMMA SetCandidatesKeeps ==
  ASSUME NEW f \in Fsms, NEW list \in Seq(Endpoints)
  PROVE  Keeps(f, set_candidates(f, list)) /\ set_candidates(f, list).fsm.candidates = list
<1> DEFINE out == set_candidates(f, list)
           previous == Get(f.candidates, f.state.index)
           index == Repoint(f.candidates, list, previous)
           moved == Get(list, index) # previous
<1>1. CASE list = f.candidates
  BY <1>1, NothingKeeps, Zenon DEF set_candidates
<1>2. CASE list # f.candidates /\ f.state.tag = "Connected"
  BY <1>2, Zenon DEF set_candidates, Outcome, Keeps
<1>3. CASE list # f.candidates /\ f.state.tag = "Probing" /\ list = <<>>
  BY <1>3, Zenon DEF set_candidates, Outcome, Keeps
<1>4. CASE list # f.candidates /\ f.state.tag = "Probing" /\ list # <<>>
  <2>1. /\ out.fsm = [candidates |-> list, state |-> Probing(index, f.state.rounds)]
        /\ out.fsm.candidates = list
        /\ moved => out.transition = TRUE
        /\ ~moved => out.transition = FALSE
    BY <1>4, ZenonT(60) DEF set_candidates, Outcome
  <2>2. /\ current_candidate(out.fsm) = Get(list, index)
        /\ current_candidate(f) = previous
    BY <1>4, <2>1 DEF current_candidate, Probing
  <2> HIDE DEF index, previous, out
  <2>3. CASE moved
    BY <2>1, <2>2, <2>3, Zenon DEF Keeps, out
  <2>4. CASE ~moved
    BY <1>4, <2>1, <2>4, Zenon DEF Keeps, out
  <2> QED
    BY <2>3, <2>4, SMTT(60)
<1> QED
  BY <1>1, <1>2, <1>3, <1>4, FsmFacts, Zenon

\* retry_from leaves the endpoint it was connected to.
LEMMA RetryFromKeeps ==
  ASSUME NEW f \in Fsms, f.state.tag = "Connected", NEW flush \in BOOLEAN
  PROVE  /\ Keeps(f, retry_from(f, f.state.endpoint, flush))
         /\ retry_from(f, f.state.endpoint, flush).fsm.candidates = f.candidates
<1> DEFINE others == {i \in 1..Len(f.candidates) : f.candidates[i] # f.state.endpoint}
           index == Position(others)
           out == retry_from(f, f.state.endpoint, flush)
<1>1. CASE others = {}
  BY <1>1, NothingKeeps, Zenon DEF retry_from
<1>2. CASE others # {}
  <2>1. index \in Nat /\ index < Len(f.candidates) /\ index + 1 \in others
    BY <1>2, PositionInBounds, FsmFacts, ZenonT(60)
  <2>2. /\ out.fsm = [candidates |-> f.candidates, state |-> Probing(index, 0)]
        /\ out.transition = TRUE
    BY <1>2, Zenon DEF retry_from, Outcome
  <2>3. current_candidate(out.fsm) = f.candidates[index + 1]
    BY <2>1, <2>2 DEF current_candidate, Probing, Get
  <2>4. current_candidate(f) = f.state.endpoint
    BY Zenon DEF current_candidate
  <2> QED
    BY <2>1, <2>2, <2>3, <2>4 DEF Keeps
<1> QED
  BY <1>1, <1>2, Zenon

\* tick moves last_transition and stays on its candidate only on a stale snapshot.
LEMMA TickKeeps ==
  ASSUME NEW f \in Fsms, Bounded(f), Distinct(f.candidates), NEW ob, NEW due \in BOOLEAN
  PROVE  /\ Keeps(f, tick(f, ob, due)) \/ (f.state.tag = "Connected" /\ ~ob.fresh)
         /\ tick(f, ob, due).fsm.candidates = f.candidates
<1> DEFINE out == tick(f, ob, due)
<1>1. CASE f.state.tag = "Probing" /\ Proves(f, ob)
  BY <1>1, NothingKeeps, Zenon DEF tick, TickProbing, Connect, Outcome, Keeps, Connected
<1>2. CASE f.state.tag = "Probing" /\ ~Proves(f, ob) /\ (f.candidates = <<>> \/ ~due)
  BY <1>2, NothingKeeps, Zenon DEF tick, TickProbing
<1>3. CASE f.state.tag = "Probing" /\ ~Proves(f, ob) /\ ~(f.candidates = <<>> \/ ~due)
  <2> DEFINE next == (f.state.index + 1) % Len(f.candidates)
             moved == next # f.state.index
  <2>1. out = Rotate(f)
    BY <1>3, Zenon DEF tick, TickProbing
  <2>2. /\ out.fsm.candidates = f.candidates /\ out.fsm.state.tag = "Probing"
        /\ out.fsm.state.index = next /\ out.transition = moved
    BY <2>1 DEF Rotate, Outcome, Probing
  <2>3. /\ f.state.index \in Nat /\ f.state.index < Len(f.candidates)
        /\ Len(f.candidates) \in Nat
    BY <1>3, FsmFacts, Zenon DEF Bounded
  <2>4. next \in Nat /\ next < Len(f.candidates)
    BY <2>3
  <2>5. /\ current_candidate(out.fsm) = f.candidates[next + 1]
        /\ current_candidate(f) = f.candidates[f.state.index + 1]
    BY <1>3, <2>2, <2>3, <2>4, Zenon DEF current_candidate, Get
  <2>6. moved => f.candidates[next + 1] # f.candidates[f.state.index + 1]
    <3> HIDE DEF next
    <3>1. next + 1 \in 1..Len(f.candidates) /\ f.state.index + 1 \in 1..Len(f.candidates)
      BY <2>3, <2>4
    <3>2. moved => next + 1 # f.state.index + 1
      BY <2>3, <2>4
    <3> QED
      BY <3>1, <3>2, Zenon DEF Distinct
  <2> QED
    BY <1>3, <2>2, <2>5, <2>6, Zenon DEF Keeps
<1>4. CASE f.state.tag = "Connected"
  <2>1. CASE ~ob.fresh
    BY <1>4, <2>1, Zenon DEF tick, TickConnected, Outcome
  <2>2. CASE ob.fresh
    BY <1>4, <2>2, NothingKeeps, Zenon DEF tick, TickConnected, Outcome, Keeps, Connected
  <2> QED
    BY <2>1, <2>2, SMTT(60)
<1> QED
  BY <1>1, <1>2, <1>3, <1>4, FsmFacts, Zenon

\* The action lists of the operations consist of actions.
LEMMA ActListsTyped == ActLists \subseteq Seq(Actions)
<1>1. Nudge \in Actions
  BY Zenon DEF Nudge, Actions
<1>2. \A e \in Endpoints : /\ MarkGood(e) \in Actions /\ SetEndpoint(e) \in Actions
                            /\ Rehandshake(e) \in Actions
  BY Zenon DEF MarkGood, SetEndpoint, Rehandshake, Actions
<1>3. \A x, y \in Actions : <<>> \in Seq(Actions) /\ <<x>> \in Seq(Actions)
                             /\ <<x, y>> \in Seq(Actions)
  OBVIOUS
<1> SUFFICES ASSUME NEW l \in ActLists PROVE l \in Seq(Actions)
  BY Zenon
<1>4. CASE l \in {<<>>, <<Nudge>>}
  BY <1>1, <1>3, <1>4, Zenon
<1>5. CASE \E e \in Endpoints : l \in {<<MarkGood(e)>>, <<SetEndpoint(e), Nudge>>,
                                       <<Rehandshake(e), Nudge>>}
  BY <1>1, <1>2, <1>3, <1>5, Zenon
<1> QED
  BY <1>4, <1>5, Zenon DEF ActLists

\* Minimum of two naturals, as Elapse caps an age.
LEMMA MinOfTwo ==
  ASSUME NEW m \in Nat, NEW n \in Nat
  PROVE  Min({m, n}) \in {m, n} /\ Min({m, n}) =< n
<1>1. \E x \in {m, n} : \A y \in {m, n} : x =< y
  <2>1. CASE m =< n
    BY <2>1
  <2>2. CASE n =< m
    BY <2>2
  <2> QED
    BY <2>1, <2>2
<1>2. Min({m, n}) \in {m, n} /\ \A y \in {m, n} : Min({m, n}) =< y
  BY <1>1, Zenon DEF Min
<1> QED
  BY <1>2, Zenon

-----------------------------------------------------------------------------
(* Picking and sorting, by counting places.                                *)

\* How many of the places I do not come after i.
Place(I, i) == Cardinality({j \in I : j =< i})

\* Places are numbered from 1 on, in order.
LEMMA Places ==
  ASSUME NEW n \in Nat, NEW I \in SUBSET (1..n)
  PROVE  /\ IsFiniteSet(I) /\ Cardinality(I) \in Nat /\ Cardinality(I) =< n
         /\ \A i \in I : Place(I, i) \in 1..Cardinality(I)
         /\ \A i, j \in I : i < j => Place(I, i) < Place(I, j)
         /\ \A k \in 1..Cardinality(I) : \E i \in I : Place(I, i) = k
<1>0. \A i \in I : i \in Nat
  OBVIOUS
<1>1. IsFiniteSet(1..n) /\ Cardinality(1..n) = n
  BY FS_Interval
<1>2. IsFiniteSet(I) /\ Cardinality(I) \in Nat /\ Cardinality(I) =< n
  BY <1>1, FS_Subset, FS_CardinalityType, Zenon
<1>3. ASSUME NEW i \in I
      PROVE  /\ IsFiniteSet({j \in I : j =< i})
             /\ Place(I, i) \in 1..Cardinality(I)
  <2> DEFINE T == {j \in I : j =< i}
  <2>1. T \in SUBSET I /\ i \in T
    OBVIOUS
  <2>2. IsFiniteSet(T) /\ Cardinality(T) =< Cardinality(I)
    BY <1>2, <2>1, FS_Subset, Zenon
  <2>3. Cardinality(T) \in Nat /\ Cardinality(T) # 0
    BY <2>1, <2>2, FS_CardinalityType, FS_EmptySet, Zenon
  <2> QED
    BY <1>2, <2>2, <2>3 DEF Place
<1>4. ASSUME NEW i \in I, NEW j \in I, i < j PROVE Place(I, i) < Place(I, j)
  <2> DEFINE T == {x \in I : x =< i}
             U == {x \in I : x =< j}
  <2>0. i \in Nat /\ j \in Nat
    BY <1>0, Zenon
  <2>1. j \in U /\ j \notin T
    BY <1>4, <2>0
  <2>a. T \in SUBSET U
    <3>1. \A x \in I : x =< i => x =< j
      BY <1>0, <1>4, <2>0
    <3> QED
      BY <3>1, Zenon
  <2>2. IsFiniteSet(U) /\ Cardinality(T) \in Nat /\ Cardinality(U) \in Nat
    BY <1>3, FS_CardinalityType, Zenon
  <2>3. Cardinality(T) =< Cardinality(U) /\ Cardinality(T) # Cardinality(U)
    BY <2>1, <2>2, <2>a, FS_Subset, Zenon
  <2> QED
    BY <2>2, <2>3 DEF Place
<1>5. ASSUME NEW k \in 1..Cardinality(I) PROVE \E i \in I : Place(I, i) = k
  <2> DEFINE f == [i \in I |-> Place(I, i)]
             K == 1..Cardinality(I)
  <2>1. ASSUME NEW i \in I, NEW j \in I, f[i] = f[j] PROVE i = j
    <3>a. f[i] = Place(I, i) /\ f[j] = Place(I, j)
      BY Zenon
    <3>b. Place(I, i) = Place(I, j)
      BY <2>1, <3>a, Zenon
    <3>c. Place(I, i) \in 1..Cardinality(I)
      BY <1>3, Zenon
    <3>1. i \in Nat /\ j \in Nat /\ Place(I, i) \in Nat /\ Place(I, i) = Place(I, j)
      BY <1>0, <1>2, <3>b, <3>c
    <3>2. ~(i < j) /\ ~(j < i)
      BY <1>4, <3>1
    <3> QED
      BY <3>1, <3>2
  <2>2. f \in Injection(I, K)
    BY <1>3, <2>1, Zenon DEF Injection, IsInjective
  <2>3. IsFiniteSet(K) /\ Cardinality(K) = Cardinality(I)
    BY <1>2, FS_Interval
  <2>4. f \in Surjection(I, K)
    BY <2>2, <2>3, FS_Injection, Zenon
  <2> QED
    BY <2>4, Zenon DEF Surjection
<1> QED
  BY <1>2, <1>3, <1>4, <1>5, Zenon

\* What is picked: the entries at those places, in their order.
LEMMA PickedFacts ==
  ASSUME NEW S, NEW s \in Seq(S), NEW I \in SUBSET (1..Len(s))
  PROVE  /\ Picked(s, I) \in Seq(S) /\ Len(Picked(s, I)) = Cardinality(I)
         /\ Cardinality(I) \in Nat /\ Cardinality(I) =< Len(s)
         /\ \A i \in I : Place(I, i) \in 1..Len(Picked(s, I)) /\ Picked(s, I)[Place(I, i)] = s[i]
         /\ \A k \in 1..Len(Picked(s, I)) : \E i \in I : Place(I, i) = k /\ Picked(s, I)[k] = s[i]
<1> DEFINE P == Picked(s, I)
           at(k) == CHOOSE i \in I : Place(I, i) = k
<1>1. Len(s) \in Nat /\ \A i \in 1..Len(s) : s[i] \in S
  OBVIOUS
<1>2. /\ IsFiniteSet(I) /\ Cardinality(I) \in Nat /\ Cardinality(I) =< Len(s)
      /\ \A i \in I : Place(I, i) \in 1..Cardinality(I)
      /\ \A i, j \in I : i < j => Place(I, i) < Place(I, j)
      /\ \A k \in 1..Cardinality(I) : \E i \in I : Place(I, i) = k
  BY <1>1, Places, Zenon
<1>3. \A k \in 1..Cardinality(I) : at(k) \in I /\ Place(I, at(k)) = k
  BY <1>2, Zenon
<1>4. \A i \in I : at(Place(I, i)) = i
  <2> SUFFICES ASSUME NEW i \in I PROVE at(Place(I, i)) = i
    BY Zenon
  <2> DEFINE x == at(Place(I, i))
  <2>1. x \in I /\ Place(I, x) = Place(I, i)
    BY <1>2, <1>3, Zenon
  <2> HIDE DEF x
  <2>2. x \in Nat /\ i \in Nat /\ Place(I, x) \in Nat
    BY <1>1, <1>2, <2>1
  <2>3. ~(x < i) /\ ~(i < x)
    BY <1>2, <2>1, <2>2
  <2> QED
    BY <2>2, <2>3 DEF x
<1>5. P = [k \in 1..Cardinality(I) |-> s[at(k)]]
  BY Zenon DEF Picked, Place
<1> HIDE DEF at
<1>6. P \in Seq(S) /\ Len(P) = Cardinality(I)
  <2>1. \A k \in 1..Cardinality(I) : s[at(k)] \in S
    BY <1>1, <1>3, Zenon
  <2> HIDE DEF P
  <2> QED
    BY <1>2, <1>5, <2>1
<1>7. \A i \in I : Place(I, i) \in 1..Len(P) /\ P[Place(I, i)] = s[i]
  BY <1>2, <1>4, <1>5, <1>6, Zenon
<1>8. \A k \in 1..Len(P) : \E i \in I : Place(I, i) = k /\ P[k] = s[i]
  BY <1>3, <1>5, <1>6, Zenon
<1> QED
  BY <1>2, <1>6, <1>7, <1>8, Zenon

\* Sequences of equal length and entries are equal.
LEMMA SeqEqual ==
  ASSUME NEW S, NEW s \in Seq(S), NEW t \in Seq(S), Len(s) = Len(t), \A i \in 1..Len(s) : s[i] = t[i]
  PROVE  s = t
OBVIOUS

PicksLast(s, I, e) ==
  /\ Picked(Append(s, e), I) = Picked(s, I)
  /\ Picked(Append(s, e), I \cup {Len(s) + 1}) = Append(Picked(s, I), e)

\* An entry at a new last place is picked last.
LEMMA PickedLast ==
  ASSUME NEW S, NEW s \in Seq(S), NEW I \in SUBSET (1..Len(s)), NEW e \in S
  PROVE  PicksLast(s, I, e)
<1> DEFINE n == Len(s)
           t == Append(s, e)
           J == I \cup {n + 1}
           P == Picked(s, I)
           Q == Picked(t, J)
           R == Picked(t, I)
<1>1. /\ n \in Nat /\ t \in Seq(S) /\ Len(t) = n + 1 /\ t[n + 1] = e
      /\ \A i \in 1..n : t[i] = s[i]
  OBVIOUS
<1>a. \A i \in I : i \in 1..n
  BY Zenon
<1> HIDE DEF t, n
<1>b. \A i \in J : i \in 1..Len(t)
  BY <1>1, <1>a
<1>2. I \in SUBSET (1..Len(t)) /\ J \in SUBSET (1..Len(t)) /\ \A i \in I : i \in 1..n
  BY <1>a, <1>b, Zenon
<1>3. /\ P \in Seq(S) /\ Len(P) = Cardinality(I) /\ Cardinality(I) \in Nat
      /\ \A k \in 1..Len(P) : \E i \in I : Place(I, i) = k /\ P[k] = s[i]
  BY PickedFacts, Zenon
<1>4. /\ R \in Seq(S) /\ Len(R) = Cardinality(I)
      /\ \A i \in I : R[Place(I, i)] = t[i]
  BY <1>1, <1>2, PickedFacts, Zenon
<1>5. /\ Q \in Seq(S) /\ Len(Q) = Cardinality(J)
      /\ \A i \in J : Q[Place(J, i)] = t[i]
  BY <1>1, <1>2, PickedFacts, Zenon
<1>6. IsFiniteSet(I)
  BY <1>1, <1>2, Places, Zenon DEF n
<1>7. Cardinality(J) = Cardinality(I) + 1
  <2>1. n + 1 \notin I
    BY <1>1, <1>2
  <2> QED
    BY <1>6, <2>1, FS_AddElement, Zenon
<1>8. \A i \in I : Place(J, i) = Place(I, i)
  <2>1. ASSUME NEW i \in I PROVE {j \in J : j =< i} = {j \in I : j =< i}
    <3>1. ~(n + 1 =< i)
      BY <1>1, <1>2
    <3> QED
      BY <3>1, Zenon
  <2> QED
    BY <2>1, Zenon DEF Place
<1>9. Place(J, n + 1) = Cardinality(J)
  <2>1. \A j \in J : j =< n + 1
    BY <1>1, <1>2
  <2>2. {j \in J : j =< n + 1} = J
    BY <2>1, Zenon
  <2> QED
    BY <2>2, Zenon DEF Place
<1> HIDE DEF P, Q, R
<1>10. R = P
  <2>1. ASSUME NEW k \in 1..Len(P) PROVE P[k] = R[k]
    <3>1. PICK i \in I : Place(I, i) = k /\ P[k] = s[i]
      BY <1>3, Zenon
    <3> QED
      BY <1>1, <1>2, <1>4, <3>1, Zenon
  <2> QED
    BY <1>3, <1>4, <2>1, SeqEqual, Zenon
<1>11. Q = Append(P, e)
  <2>1. Append(P, e) \in Seq(S) /\ Len(Append(P, e)) = Len(P) + 1 /\ Append(P, e)[Len(P) + 1] = e
        /\ \A k \in 1..Len(P) : Append(P, e)[k] = P[k]
    BY <1>3
  <2>2. ASSUME NEW k \in 1..Len(P) PROVE Q[k] = P[k]
    <3>1. PICK i \in I : Place(I, i) = k /\ P[k] = s[i]
      BY <1>3, Zenon
    <3>2. i \in J /\ Place(J, i) = k
      BY <1>8, <3>1, Zenon
    <3> QED
      BY <1>1, <1>2, <1>5, <3>1, <3>2, Zenon
  <2>3. Q[Len(P) + 1] = e
    <3>1. n + 1 \in J
      BY Zenon
    <3>2. Q[Cardinality(J)] = e
      BY <1>1, <1>5, <1>9, <3>1, Zenon
    <3> QED
      BY <1>3, <1>7, <3>2, Zenon
  <2>4. Len(Q) = Len(P) + 1 /\ Len(P) \in Nat
    BY <1>3, <1>5, <1>7, Zenon
  <2>5. ASSUME NEW k \in 1..Len(Q) PROVE Q[k] = Append(P, e)[k]
    <3>1. k \in 1..Len(P) \/ k = Len(P) + 1
      BY <2>4
    <3> QED
      BY <2>1, <2>2, <2>3, <3>1, Zenon
  <2>6. Len(Q) = Len(Append(P, e))
    BY <2>1, <2>4, Zenon
  <2> HIDE DEF J
  <2> QED
    BY <1>5, <2>1, <2>5, <2>6, SeqEqual, Zenon
<1> QED
  BY <1>10, <1>11, Zenon DEF P, Q, R, t, n, PicksLast

\* The places of first occurrences.
Firsts(s) == {i \in 1..Len(s) : \A j \in 1..(i - 1) : s[j] # s[i]}

\* Another entry is a first occurrence if it is not in the list.
LEMMA FirstsAppended ==
  ASSUME NEW S, NEW s \in Seq(S), NEW e \in S
  PROVE  FirstOccurrences(Append(s, e)) =
           IF e \in Elements(s) THEN FirstOccurrences(s) ELSE Append(FirstOccurrences(s), e)
<1> DEFINE n == Len(s)
           t == Append(s, e)
<1>1. /\ n \in Nat /\ t \in Seq(S) /\ Len(t) = n + 1 /\ t[n + 1] = e
      /\ \A i \in 1..n : t[i] = s[i]
  OBVIOUS
<1>2. Firsts(s) \in SUBSET (1..Len(s))
  BY Zenon DEF Firsts
<1>a. PicksLast(s, Firsts(s), e)
  BY <1>2, PickedLast, Zenon
<1> HIDE DEF t
<1>3. ASSUME NEW i \in 1..n PROVE i \in Firsts(t) <=> i \in Firsts(s)
  <2>1. i \in 1..Len(t) /\ i \in 1..Len(s) /\ t[i] = s[i] /\ \A j \in 1..(i - 1) : j \in 1..n /\ t[j] = s[j]
    BY <1>1
  <2> QED
    BY <2>1, Zenon DEF Firsts
<1>4. n + 1 \in Firsts(t) <=> e \notin Elements(s)
  <2>1. (n + 1) - 1 = n /\ n + 1 \in 1..Len(t)
    BY <1>1
  <2>2. n + 1 \in Firsts(t) <=> \A j \in 1..n : t[j] # e
    BY <1>1, <2>1, Zenon DEF Firsts
  <2> QED
    BY <1>1, <2>2, Zenon DEF Elements
<1>5. \A i \in Firsts(t) : i \in 1..n \/ i = n + 1
  BY <1>1 DEF Firsts
<1>6. n + 1 \notin Firsts(s)
  BY <1>1 DEF Firsts
<1>7. CASE e \in Elements(s)
  <2>1. Firsts(t) = Firsts(s)
    BY <1>2, <1>3, <1>4, <1>5, <1>7, Zenon
  <2>2. Picked(t, Firsts(s)) = Picked(s, Firsts(s))
    BY <1>a, Zenon DEF PicksLast, t
  <2> QED
    BY <1>7, <2>1, <2>2, Zenon DEF FirstOccurrences, Firsts, t
<1>8. CASE e \notin Elements(s)
  <2>1. Firsts(t) = Firsts(s) \cup {n + 1}
    BY <1>2, <1>3, <1>4, <1>5, <1>8, Zenon
  <2>2. Picked(t, Firsts(s) \cup {n + 1}) = Append(Picked(s, Firsts(s)), e)
    BY <1>a, Zenon DEF PicksLast, t
  <2> QED
    BY <1>8, <2>1, <2>2, Zenon DEF FirstOccurrences, Firsts, t
<1> QED
  BY <1>7, <1>8, Zenon

\* Some place of e in s is the first.
LEMMA FirstExists ==
  ASSUME NEW S, NEW s \in Seq(S), NEW e \in Elements(s)
  PROVE  \E p \in Firsts(s) : s[p] = e
<1> DEFINE n == Len(s)
           J == {i \in 1..n : s[i] = e}
<1>1. n \in Nat /\ J \in SUBSET (1..n) /\ \E i \in 1..n : i \in J
  BY DEF Elements
<1> HIDE DEF J, n
<1>2. /\ Cardinality(J) \in Nat
      /\ \A i \in J : Place(J, i) \in 1..Cardinality(J)
      /\ \A i, j \in J : i < j => Place(J, i) < Place(J, j)
      /\ \A k \in 1..Cardinality(J) : \E i \in J : Place(J, i) = k
  BY <1>1, Places, Zenon
<1>3. 1 \in 1..Cardinality(J)
  BY <1>1, <1>2
<1>4. PICK p \in J : Place(J, p) = 1
  BY <1>2, <1>3, Zenon
<1>5. ASSUME NEW j \in 1..(p - 1) PROVE s[j] # e
  <2>1. p \in 1..n /\ j \in 1..n /\ j < p
    BY <1>1
  <2>2. ASSUME j \in J PROVE FALSE
    <3>1. Place(J, j) < 1 /\ Place(J, j) \in 1..Cardinality(J)
      BY <1>2, <1>4, <2>1, <2>2, Zenon
    <3> QED
      BY <1>2, <3>1
  <2> QED
    BY <2>1, <2>2, Zenon DEF J
<1> QED
  BY <1>5, Zenon DEF Firsts, J, n

\* What the list of first occurrences holds: every element, each once, in order.
LEMMA FirstOccurrencesFacts ==
  ASSUME NEW S, NEW s \in Seq(S)
  PROVE  LET F == FirstOccurrences(s) IN
         /\ F \in Seq(S) /\ Len(F) \in Nat
         /\ \A p \in Firsts(s) : Place(Firsts(s), p) \in 1..Len(F) /\ F[Place(Firsts(s), p)] = s[p]
         /\ \A k \in 1..Len(F) : \E p \in Firsts(s) : Place(Firsts(s), p) = k /\ F[k] = s[p]
         /\ Elements(F) = Elements(s)
<1> DEFINE F == FirstOccurrences(s)
           I == Firsts(s)
<1>1. I \in SUBSET (1..Len(s)) /\ F = Picked(s, I)
  BY Zenon DEF Firsts, FirstOccurrences
<1> HIDE DEF F, I
<1>2. /\ F \in Seq(S) /\ Len(F) = Cardinality(I) /\ Cardinality(I) \in Nat
      /\ \A i \in I : Place(I, i) \in 1..Len(F) /\ F[Place(I, i)] = s[i]
      /\ \A k \in 1..Len(F) : \E i \in I : Place(I, i) = k /\ F[k] = s[i]
  BY <1>1, PickedFacts, Zenon
<1>3. Elements(F) \subseteq Elements(s)
  BY <1>1, <1>2 DEF Elements
<1>4. \A e \in Elements(s) : \E p \in I : s[p] = e
  BY FirstExists, Zenon DEF I
<1>5. Elements(s) \subseteq Elements(F)
  BY <1>2, <1>4, Zenon DEF Elements
<1> QED
  BY <1>2, <1>3, <1>5, Zenon DEF F, I

\* push_unique into a list cut at the cap is the cut list of one offer more.
LEMMA PushIsNextCut ==
  ASSUME NEW pre \in Seq(Endpoints), NEW e \in Endpoints, NEW cap \in Nat
  PROVE  push_unique(Truncate(FirstOccurrences(pre), cap), e, cap) =
           Truncate(FirstOccurrences(Append(pre, e)), cap)
<1> DEFINE F == FirstOccurrences(pre)
           G == FirstOccurrences(Append(pre, e))
           D == Truncate(F, cap)
<1>1. F \in Seq(Endpoints) /\ Len(F) \in Nat /\ Elements(F) = Elements(pre)
  BY FirstOccurrencesFacts, Zenon
<1>2. G = IF e \in Elements(pre) THEN F ELSE Append(F, e)
  BY FirstsAppended, Zenon
<1> HIDE DEF F, G
<1>3. /\ D \in Seq(Endpoints)
      /\ Len(F) =< cap => D = F
      /\ Len(F) > cap => D = SubSeq(F, 1, cap) /\ Len(D) = cap
      /\ \A i \in 1..Len(D) : D[i] = F[i]
  BY <1>1 DEF Truncate
<1> HIDE DEF D
<1>4. CASE e \in Elements(pre)
  <2>1. ~(Len(D) < cap /\ e \notin Elements(D))
    BY <1>1, <1>3, <1>4
  <2>2. push_unique(D, e, cap) = D
    BY <2>1, Zenon DEF push_unique
  <2> QED
    BY <1>2, <1>4, <2>2, Zenon DEF D, F, G
<1>5. CASE e \notin Elements(pre) /\ Len(F) < cap
  <2>1. D = F /\ e \notin Elements(D)
    BY <1>1, <1>3, <1>5
  <2>2. push_unique(D, e, cap) = Append(F, e)
    BY <1>5, <2>1, Zenon DEF push_unique
  <2>3. Truncate(G, cap) = G /\ G = Append(F, e)
    <3>1. G = Append(F, e) /\ Len(G) = Len(F) + 1
      BY <1>1, <1>2, <1>5
    <3>2. ~(Len(G) > cap)
      BY <1>1, <1>5, <3>1
    <3> QED
      BY <3>1, <3>2, Zenon DEF Truncate
  <2> QED
    BY <2>2, <2>3, Zenon DEF D, F, G
<1>6. CASE e \notin Elements(pre) /\ ~(Len(F) < cap)
  <2>1. Len(D) = cap
    BY <1>1, <1>3, <1>6
  <2>2. push_unique(D, e, cap) = D
    BY <2>1 DEF push_unique
  <2>3. /\ G \in Seq(Endpoints) /\ Len(G) = Len(F) + 1
        /\ \A i \in 1..Len(F) : G[i] = F[i]
    BY <1>1, <1>2, <1>6
  <2>4. Len(G) > cap
    BY <1>1, <1>6, <2>3
  <2> DEFINE H == Truncate(G, cap)
  <2>5. H = SubSeq(G, 1, cap)
    BY <2>4, Zenon DEF Truncate
  <2>6. H \in Seq(Endpoints) /\ Len(H) = cap /\ \A i \in 1..cap : H[i] = G[i]
    BY <2>3, <2>4, <2>5
  <2> HIDE DEF H
  <2>7. \A i \in 1..Len(D) : D[i] = H[i]
    <3> SUFFICES ASSUME NEW i \in 1..Len(D) PROVE D[i] = H[i]
      BY Zenon
    <3>1. i \in 1..cap /\ i \in 1..Len(F)
      BY <1>1, <1>6, <2>1
    <3> QED
      BY <1>3, <2>3, <2>6, <3>1, Zenon
  <2>8. D = H
    BY <1>3, <2>1, <2>6, <2>7, SeqEqual, Zenon
  <2> QED
    BY <2>2, <2>8, Zenon DEF D, F, G, H
<1> QED
  BY <1>4, <1>5, <1>6, Zenon

-----------------------------------------------------------------------------
(* The order of the sources in the chain.                                  *)

\* The entries of a sequence over S are in S, and a function on 1..n into S is one.
LEMMA EntriesTyped ==
  ASSUME NEW S
  PROVE  /\ \A s \in Seq(S) : Len(s) \in Nat /\ \A i \in 1..Len(s) : s[i] \in S
         /\ \A n \in Nat : \A f \in [1..n -> S] : f \in Seq(S) /\ Len(f) = n
OBVIOUS

CachedSeqs == Seq([ep : Endpoints, seen : Nat])
Precedes(c, i, j) == \/ c[i].seen > c[j].seen
                     \/ c[i].seen = c[j].seen /\ i =< j
SortPlace(c, i) == Cardinality({j \in 1..Len(c) : Precedes(c, j, i)})
Sorted(c, t) ==
  /\ t \in CachedSeqs /\ Len(t) = Len(c)
  /\ \A k \in 1..Len(c) : \E i \in 1..Len(c) : t[k] = c[i]
  /\ \A i \in 1..Len(c) : \E k \in 1..Len(c) : t[k] = c[i]
  /\ \A k, l \in 1..Len(c) : k < l => t[k].seen >= t[l].seen

\* The sort of the cached endpoints is a permutation, newest first.
LEMMA SortFacts ==
  ASSUME NEW c \in CachedSeqs
  PROVE  Sorted(c, ByLastSeen(c))
<1>0. Len(c) \in Nat /\ \A i \in 1..Len(c) : c[i] \in [ep : Endpoints, seen : Nat]
  BY EntriesTyped, Zenon DEF CachedSeqs
<1> DEFINE n == Len(c)
           D == 1..n
           T(i) == {j \in D : Precedes(c, j, i)}
           p == [i \in D |-> SortPlace(c, i)]
           t == ByLastSeen(c)
<1>1. n \in Nat /\ \A i \in D : c[i] \in [ep : Endpoints, seen : Nat]
  BY <1>0, Zenon
<1>2. \A i \in D : i \in Nat /\ c[i].seen \in Nat
  BY <1>1
<1>3. IsFiniteSet(D) /\ Cardinality(D) = n
  BY <1>1, FS_Interval, SMTT(30)
<1>4. \A i \in D : Precedes(c, i, i)
  BY <1>2 DEF Precedes
<1>5. \A i, j \in D : Precedes(c, i, j) \/ Precedes(c, j, i)
  BY <1>2 DEF Precedes
<1>6. \A i, j \in D : Precedes(c, i, j) /\ Precedes(c, j, i) => i = j
  BY <1>2 DEF Precedes
<1>7. \A i, j, k \in D : Precedes(c, i, j) /\ Precedes(c, j, k) => Precedes(c, i, k)
  BY <1>2 DEF Precedes
<1> HIDE DEF D
<1>8. ASSUME NEW i \in D
      PROVE  IsFiniteSet(T(i)) /\ SortPlace(c, i) = Cardinality(T(i)) /\ SortPlace(c, i) \in D
  <2>1. T(i) \in SUBSET D /\ i \in T(i)
    BY <1>4, Zenon
  <2>2. SortPlace(c, i) = Cardinality(T(i))
    BY Zenon DEF SortPlace, D
  <2> HIDE DEF T
  <2>3. IsFiniteSet(T(i)) /\ Cardinality(T(i)) =< n
    BY <1>3, <2>1, FS_Subset, Zenon
  <2>4. Cardinality(T(i)) \in Nat /\ Cardinality(T(i)) # 0
    BY <2>1, <2>3, FS_CardinalityType, FS_EmptySet, Zenon
  <2>5. Cardinality(T(i)) \in 1..n
    BY <1>1, <2>3, <2>4
  <2> QED
    BY <2>2, <2>3, <2>5, Zenon DEF D
<1>9. ASSUME NEW i \in D, NEW j \in D, Precedes(c, i, j), i # j
      PROVE  SortPlace(c, i) < SortPlace(c, j)
  <2>1. T(i) \in SUBSET T(j) /\ j \in T(j) /\ j \notin T(i)
    BY <1>4, <1>6, <1>7, <1>9, Zenon
  <2>2. IsFiniteSet(T(i)) /\ IsFiniteSet(T(j))
    BY <1>8, Zenon
  <2>3. SortPlace(c, i) = Cardinality(T(i)) /\ SortPlace(c, j) = Cardinality(T(j))
    BY <1>8, Zenon
  <2> HIDE DEF T
  <2>4. Cardinality(T(i)) =< Cardinality(T(j)) /\ (Cardinality(T(i)) = Cardinality(T(j)) => T(i) = T(j))
    BY <2>1, <2>2, FS_Subset, Zenon
  <2>5. Cardinality(T(i)) \in Nat /\ Cardinality(T(j)) \in Nat /\ T(i) # T(j)
    BY <2>1, <2>2, FS_CardinalityType, Zenon
  <2> QED
    BY <2>3, <2>4, <2>5
<1>10. ASSUME NEW k \in D PROVE \E i \in D : SortPlace(c, i) = k
  <2>1. p \in [D -> D]
    BY <1>8, Zenon
  <2>2. ASSUME NEW i \in D, NEW j \in D, i # j PROVE SortPlace(c, i) # SortPlace(c, j)
    <3>1. SortPlace(c, i) < SortPlace(c, j) \/ SortPlace(c, j) < SortPlace(c, i)
      BY <1>5, <1>9, <2>2, Zenon
    <3>2. SortPlace(c, i) \in Nat /\ SortPlace(c, j) \in Nat
      BY <1>8, <1>2, Zenon
    <3> QED
      BY <3>1, <3>2
  <2>3. \A i, j \in D : p[i] = p[j] => i = j
    BY <2>2, Zenon
  <2>4. p \in Injection(D, D)
    BY <2>1, <2>3, Zenon DEF Injection, IsInjective
  <2>5. p \in Surjection(D, D)
    BY <1>3, <2>4, FS_Injection, Zenon
  <2> QED
    BY <2>5, Zenon DEF Surjection
<1> DEFINE at(k) == CHOOSE i \in 1..Len(c) : SortPlace(c, i) = k
<1>11. t = [k \in D |-> c[at(k)]]
  BY Zenon DEF ByLastSeen, SortPlace, Precedes, D
<1>12. \A k \in D : at(k) \in D /\ SortPlace(c, at(k)) = k
  BY <1>10, Zenon DEF D
<1> HIDE DEF at, t
<1>13. t \in CachedSeqs /\ Len(t) = n /\ \A k \in D : t[k] = c[at(k)]
  BY <1>1, <1>11, <1>12 DEF CachedSeqs, D
<1>14. ASSUME NEW i \in D PROVE \E k \in D : t[k] = c[i]
  <2>1. SortPlace(c, i) \in D
    BY <1>8, Zenon
  <2> DEFINE j == at(SortPlace(c, i))
  <2>2. j \in D /\ SortPlace(c, j) = SortPlace(c, i)
    BY <1>12, <2>1, Zenon
  <2>3. ASSUME j # i PROVE FALSE
    <3>1. SortPlace(c, i) < SortPlace(c, j) \/ SortPlace(c, j) < SortPlace(c, i)
      BY <1>5, <1>9, <2>2, <2>3, Zenon
    <3> QED
      BY <1>2, <2>1, <2>2, <3>1
  <2> QED
    BY <1>13, <2>1, <2>3, Zenon
<1>15. ASSUME NEW k \in D, NEW l \in D, k < l PROVE t[k].seen >= t[l].seen
  <2>1. /\ at(k) \in D /\ at(l) \in D
        /\ SortPlace(c, at(k)) = k /\ SortPlace(c, at(l)) = l
        /\ k \in Nat /\ l \in Nat
    BY <1>2, <1>12, Zenon
  <2>2. Precedes(c, at(k), at(l))
    <3>1. ASSUME Precedes(c, at(l), at(k)), at(l) # at(k) PROVE FALSE
      <4>1. SortPlace(c, at(l)) < SortPlace(c, at(k))
        BY <1>9, <2>1, <3>1, Zenon
      <4> QED
        BY <1>15, <2>1, <4>1
    <3>2. at(l) # at(k)
      BY <1>15, <2>1
    <3> QED
      BY <1>5, <2>1, <3>1, <3>2, Zenon
  <2>3. c[at(k)].seen \in Nat /\ c[at(l)].seen \in Nat
    BY <1>2, <2>1, Zenon
  <2>4. c[at(k)].seen >= c[at(l)].seen
    BY <2>2, <2>3 DEF Precedes
  <2> QED
    BY <1>13, <2>4, Zenon
<1> QED
  BY <1>12, <1>13, <1>14, <1>15, Zenon DEF Sorted, D, t

\* Where the entries of four sequences are in their concatenation t.
Joined(a, b, c, d, t) ==
  /\ Len(t) = Len(a) + Len(b) + Len(c) + Len(d)
  /\ \A p \in 1..Len(a) : t[p] = a[p]
  /\ \A p \in 1..Len(b) : t[Len(a) + p] = b[p]
  /\ \A p \in 1..Len(c) : t[Len(a) + Len(b) + p] = c[p]
  /\ \A p \in 1..Len(d) : t[Len(a) + Len(b) + Len(c) + p] = d[p]
\* The sequence that the entry at p comes from.
Section(a, b, c, p) ==
  IF p =< Len(a) THEN 1
  ELSE IF p =< Len(a) + Len(b) THEN 2
  ELSE IF p =< Len(a) + Len(b) + Len(c) THEN 3 ELSE 4
\* The first of the four sequences that e is in.
Within(a, b, c, d, e) ==
  IF e \in Elements(a) THEN 1
  ELSE IF e \in Elements(b) THEN 2
  ELSE IF e \in Elements(c) THEN 3
  ELSE IF e \in Elements(d) THEN 4 ELSE 5

Joined2(S, a, b, t) ==
  /\ Len(a) \in Nat /\ Len(b) \in Nat
  /\ t \in Seq(S) /\ Len(t) = Len(a) + Len(b)
  /\ \A p \in 1..Len(a) : t[p] = a[p]
  /\ \A p \in 1..Len(b) : t[Len(a) + p] = b[p]

\* The concatenation of two sequences, place by place.
LEMMA Joining2 ==
  ASSUME NEW S, NEW a \in Seq(S), NEW b \in Seq(S)
  PROVE  Joined2(S, a, b, a \o b)
BY DEF Joined2

\* And of four.
LEMMA Joining ==
  ASSUME NEW S, NEW a \in Seq(S), NEW b \in Seq(S), NEW c \in Seq(S), NEW d \in Seq(S)
  PROVE  a \o b \o c \o d \in Seq(S) /\ Joined(a, b, c, d, a \o b \o c \o d)
<1> DEFINE u == a \o b
           v == u \o c
           t == v \o d
<1>a. Joined2(S, a, b, u)
  BY Joining2, Zenon
<1> HIDE DEF u
<1>1. /\ Len(a) \in Nat /\ Len(b) \in Nat
      /\ u \in Seq(S) /\ Len(u) = Len(a) + Len(b)
      /\ \A p \in 1..Len(a) : u[p] = a[p]
      /\ \A p \in 1..Len(b) : u[Len(a) + p] = b[p]
  BY <1>a, Zenon DEF Joined2
<1>b. Joined2(S, u, c, v)
  BY <1>1, Joining2, Zenon
<1> HIDE DEF v
<1>2. /\ Len(c) \in Nat
      /\ v \in Seq(S) /\ Len(v) = Len(u) + Len(c)
      /\ \A p \in 1..Len(u) : v[p] = u[p]
      /\ \A p \in 1..Len(c) : v[Len(u) + p] = c[p]
  BY <1>b, Zenon DEF Joined2
<1>c. Joined2(S, v, d, t)
  BY <1>2, Joining2, Zenon
<1> HIDE DEF t
<1>3. /\ Len(d) \in Nat
      /\ t \in Seq(S) /\ Len(t) = Len(v) + Len(d)
      /\ \A p \in 1..Len(v) : t[p] = v[p]
      /\ \A p \in 1..Len(d) : t[Len(v) + p] = d[p]
  BY <1>c, Zenon DEF Joined2
<1>4. ASSUME NEW p \in 1..Len(a) PROVE t[p] = a[p]
  <2>1. p \in 1..Len(u) /\ p \in 1..Len(v)
    BY <1>1, <1>2
  <2> QED
    BY <1>1, <1>2, <1>3, <2>1, Zenon
<1>5. ASSUME NEW p \in 1..Len(b) PROVE t[Len(a) + p] = b[p]
  <2>1. Len(a) + p \in 1..Len(u) /\ Len(a) + p \in 1..Len(v)
    BY <1>1, <1>2
  <2> QED
    BY <1>1, <1>2, <1>3, <2>1, Zenon
<1>6. ASSUME NEW p \in 1..Len(c) PROVE t[Len(a) + Len(b) + p] = c[p]
  <2>1. Len(u) + p \in 1..Len(v) /\ Len(u) + p = Len(a) + Len(b) + p
    BY <1>1, <1>2
  <2>2. t[Len(u) + p] = c[p]
    BY <1>2, <1>3, <2>1, Zenon
  <2> QED
    BY <2>1, <2>2, Zenon
<1>7. ASSUME NEW p \in 1..Len(d) PROVE t[Len(a) + Len(b) + Len(c) + p] = d[p]
  <2>1. Len(v) + p = Len(a) + Len(b) + Len(c) + p
    BY <1>1, <1>2, Zenon
  <2>2. t[Len(v) + p] = d[p]
    BY <1>3, Zenon
  <2> QED
    BY <2>1, <2>2, Zenon
<1>8. Len(t) = Len(a) + Len(b) + Len(c) + Len(d)
  BY <1>1, <1>2, <1>3, Zenon
<1>9. Joined(a, b, c, d, t)
  BY <1>4, <1>5, <1>6, <1>7, <1>8, Zenon DEF Joined
<1> QED
  BY <1>3, <1>9, Zenon DEF t, u, v

FirstsOrdered(a, b, c, d, t) ==
  /\ \A p \in Firsts(t) : Within(a, b, c, d, t[p]) = Section(a, b, c, p)
  /\ \A e : e \in Elements(t) <=> Within(a, b, c, d, e) # 5

\* A first occurrence is in the first of the four sequences that holds it.
LEMMA FirstsInOrder ==
  ASSUME NEW S, NEW a \in Seq(S), NEW b \in Seq(S), NEW c \in Seq(S), NEW d \in Seq(S),
         NEW t \in Seq(S), Joined(a, b, c, d, t)
  PROVE  FirstsOrdered(a, b, c, d, t)
<1> DEFINE x == Len(a)
           y == Len(a) + Len(b)
           z == Len(a) + Len(b) + Len(c)
           n == Len(a) + Len(b) + Len(c) + Len(d)
<1>1. /\ x \in Nat /\ y \in Nat /\ z \in Nat /\ n \in Nat
      /\ x =< y /\ y =< z /\ z =< n /\ Len(t) = n
  BY DEF Joined
<1>2. \A p \in 1..n :
        /\ p =< x => t[p] \in Elements(a)
        /\ x < p /\ p =< y => t[p] \in Elements(b)
        /\ y < p /\ p =< z => t[p] \in Elements(c)
        /\ z < p => t[p] \in Elements(d)
  <2> SUFFICES ASSUME NEW p \in 1..n
               PROVE  /\ p =< x => t[p] \in Elements(a)
                      /\ x < p /\ p =< y => t[p] \in Elements(b)
                      /\ y < p /\ p =< z => t[p] \in Elements(c)
                      /\ z < p => t[p] \in Elements(d)
    BY Zenon
  <2>0. Len(a) \in Nat /\ Len(b) \in Nat /\ Len(c) \in Nat /\ Len(d) \in Nat
    OBVIOUS
  <2>1. CASE p =< x
    <3>1. p \in 1..Len(a) /\ ~(x < p) /\ ~(y < p) /\ ~(z < p)
      BY <1>1, <2>0, <2>1
    <3>2. t[p] = a[p]
      BY <3>1, Zenon DEF Joined
    <3> QED
      BY <3>1, <3>2, Zenon DEF Elements
  <2>2. CASE x < p /\ p =< y
    <3>1. p - x \in 1..Len(b) /\ Len(a) + (p - x) = p /\ ~(p =< x) /\ ~(y < p) /\ ~(z < p)
      BY <1>1, <2>0, <2>2
    <3>2. t[p] = b[p - x]
      BY <3>1, Zenon DEF Joined
    <3> QED
      BY <3>1, <3>2, Zenon DEF Elements
  <2>3. CASE y < p /\ p =< z
    <3>1. p - y \in 1..Len(c) /\ Len(a) + Len(b) + (p - y) = p /\ ~(p =< x) /\ ~(p =< y) /\ ~(z < p)
      BY <1>1, <2>0, <2>3
    <3>2. t[p] = c[p - y]
      BY <3>1, Zenon DEF Joined
    <3> QED
      BY <3>1, <3>2, Zenon DEF Elements
  <2>4. CASE z < p
    <3>1. p - z \in 1..Len(d) /\ Len(a) + Len(b) + Len(c) + (p - z) = p /\ ~(p =< x) /\ ~(p =< y) /\ ~(p =< z)
      BY <1>1, <2>0, <2>4
    <3>2. t[p] = d[p - z]
      BY <3>1, Zenon DEF Joined
    <3> QED
      BY <3>1, <3>2, Zenon DEF Elements
  <2>5. p =< x \/ (x < p /\ p =< y) \/ (y < p /\ p =< z) \/ z < p
    BY <1>1
  <2> QED
    BY <2>1, <2>2, <2>3, <2>4, <2>5, Zenon
<1>3. /\ \A e \in Elements(a) : \E p \in 1..n : t[p] = e /\ p =< x
      /\ \A e \in Elements(b) : \E p \in 1..n : t[p] = e /\ p =< y
      /\ \A e \in Elements(c) : \E p \in 1..n : t[p] = e /\ p =< z
      /\ \A e \in Elements(d) : \E p \in 1..n : t[p] = e
  <2>0. Len(a) \in Nat /\ Len(b) \in Nat /\ Len(c) \in Nat /\ Len(d) \in Nat
    OBVIOUS
  <2>1. ASSUME NEW i \in 1..Len(a) PROVE \E p \in 1..n : t[p] = a[i] /\ p =< x
    <3>1. i \in 1..n /\ i =< x
      BY <2>0
    <3> QED
      BY <3>1, Zenon DEF Joined
  <2>2. ASSUME NEW i \in 1..Len(b) PROVE \E p \in 1..n : t[p] = b[i] /\ p =< y
    <3>1. Len(a) + i \in 1..n /\ Len(a) + i =< y
      BY <2>0
    <3> QED
      BY <3>1, Zenon DEF Joined
  <2>3. ASSUME NEW i \in 1..Len(c) PROVE \E p \in 1..n : t[p] = c[i] /\ p =< z
    <3>1. Len(a) + Len(b) + i \in 1..n /\ Len(a) + Len(b) + i =< z
      BY <2>0
    <3> QED
      BY <3>1, Zenon DEF Joined
  <2>4. ASSUME NEW i \in 1..Len(d) PROVE \E p \in 1..n : t[p] = d[i]
    <3>1. Len(a) + Len(b) + Len(c) + i \in 1..n
      BY <2>0
    <3> QED
      BY <3>1, Zenon DEF Joined
  <2>5. \A e \in Elements(a) : \E p \in 1..n : t[p] = e /\ p =< x
    BY <2>1, Zenon DEF Elements
  <2>6. \A e \in Elements(b) : \E p \in 1..n : t[p] = e /\ p =< y
    BY <2>2, Zenon DEF Elements
  <2>7. \A e \in Elements(c) : \E p \in 1..n : t[p] = e /\ p =< z
    BY <2>3, Zenon DEF Elements
  <2>8. \A e \in Elements(d) : \E p \in 1..n : t[p] = e
    BY <2>4, Zenon DEF Elements
  <2> QED
    BY <2>5, <2>6, <2>7, <2>8, Zenon
<1> HIDE DEF x, y, z, n
<1>4. ASSUME NEW p \in Firsts(t) PROVE Within(a, b, c, d, t[p]) = Section(a, b, c, p)
  <2>1. p \in 1..n /\ p \in Nat /\ \A q \in 1..n : q < p => t[q] # t[p]
    BY <1>1 DEF Firsts
  <2>2. /\ t[p] \in Elements(a) => p =< x
        /\ t[p] \in Elements(b) => p =< y
        /\ t[p] \in Elements(c) => p =< z
    <3>1. \A q \in 1..n : q \in Nat /\ (t[q] = t[p] => p =< q)
      BY <1>1, <2>1
    <3> QED
      BY <1>1, <1>3, <2>1, <3>1
  <2>3. Section(a, b, c, p) = IF p =< x THEN 1 ELSE IF p =< y THEN 2 ELSE IF p =< z THEN 3 ELSE 4
    BY Zenon DEF Section, x, y, z
  <2>4. CASE p =< x
    BY <1>2, <2>1, <2>3, <2>4, Zenon DEF Within
  <2>5. CASE ~(p =< x) /\ p =< y
    BY <1>1, <1>2, <2>1, <2>2, <2>3, <2>5 DEF Within
  <2>6. CASE ~(p =< x) /\ ~(p =< y) /\ p =< z
    BY <1>1, <1>2, <2>1, <2>2, <2>3, <2>6 DEF Within
  <2>7. CASE ~(p =< x) /\ ~(p =< y) /\ ~(p =< z)
    BY <1>1, <1>2, <2>1, <2>2, <2>3, <2>7 DEF Within
  <2> QED
    BY <2>4, <2>5, <2>6, <2>7, Zenon
<1>5. ASSUME NEW e PROVE e \in Elements(t) <=> Within(a, b, c, d, e) # 5
  <2>1. e \in Elements(t) <=> \E p \in 1..n : t[p] = e
    BY <1>1, Zenon DEF Elements
  <2>2. (\E p \in 1..n : t[p] = e) <=> e \in Elements(a) \cup Elements(b) \cup Elements(c) \cup Elements(d)
    <3>1. \A p \in 1..n : p =< x \/ (x < p /\ p =< y) \/ (y < p /\ p =< z) \/ z < p
      BY <1>1
    <3> QED
      BY <1>2, <1>3, <3>1, Zenon
  <2>3. Within(a, b, c, d, e) # 5 <=> e \in Elements(a) \cup Elements(b) \cup Elements(c) \cup Elements(d)
    BY DEF Within
  <2> QED
    BY <2>1, <2>2, <2>3, Zenon
<1> QED
  BY <1>4, <1>5, Zenon DEF FirstsOrdered

\* The four parts of the chain.
Lead(s) == IF s.last_good = NoEndpoint THEN <<>> ELSE <<s.last_good>>
Found(s) == Endpoints_of(s.discovered)
Remembered(s) == Endpoints_of(ByLastSeen(s.cached))

\* The chain is the four parts of the sources, and Rank is the part of an endpoint.
LEMMA ChainParts ==
  ASSUME NEW s \in Sources
  PROVE  /\ Lead(s) \in Seq(Endpoints) /\ Found(s) \in Seq(Endpoints)
         /\ s.configured \in Seq(Endpoints) /\ Remembered(s) \in Seq(Endpoints)
         /\ DirectChain(s) \in Seq(Endpoints)
         /\ Joined(Lead(s), Found(s), s.configured, Remembered(s), DirectChain(s))
         /\ Sorted(s.cached, ByLastSeen(s.cached))
         /\ \A e \in Endpoints : Rank(s, e) = Within(Lead(s), Found(s), s.configured, Remembered(s), e)
<1>1. /\ s.last_good \in Endpoints \cup {NoEndpoint}
      /\ s.discovered \in Seq([src : {LAN, Gossip, DHT, DDNS}, ep : Endpoints])
      /\ s.configured \in Seq(Endpoints) /\ s.cached \in CachedSeqs
  BY Zenon DEF Sources, CachedSeqs
<1>2. Lead(s) \in Seq(Endpoints) /\ \A e \in Endpoints : e \in Elements(Lead(s)) <=> e = s.last_good
  <2>1. CASE s.last_good = NoEndpoint
    BY <2>1, NoEndpointAssumption DEF Lead, Elements
  <2>2. CASE s.last_good # NoEndpoint
    BY <1>1, <2>2 DEF Lead, Elements
  <2> QED
    BY <2>1, <2>2, Zenon
<1>3. Found(s) \in Seq(Endpoints)
  <2>1. /\ Len(s.discovered) \in Nat
        /\ \A i \in 1..Len(s.discovered) : s.discovered[i] \in [src : {LAN, Gossip, DHT, DDNS}, ep : Endpoints]
    BY <1>1, EntriesTyped, Zenon
  <2>2. \A i \in 1..Len(s.discovered) : s.discovered[i].ep \in Endpoints
    BY <2>1, Zenon
  <2>3. Found(s) \in [1..Len(s.discovered) -> Endpoints]
    BY <2>2, Zenon DEF Found, Endpoints_of
  <2> QED
    BY <2>1, <2>3, EntriesTyped, Zenon
<1>4. Sorted(s.cached, ByLastSeen(s.cached))
  BY <1>1, SortFacts, Zenon
<1>5. /\ Remembered(s) \in Seq(Endpoints)
      /\ Elements(Remembered(s)) = Elements(Endpoints_of(s.cached))
  <2> DEFINE t == ByLastSeen(s.cached)
             n == Len(s.cached)
  <2> HIDE DEF t
  <2>1. /\ t \in CachedSeqs /\ Len(t) = n
        /\ \A k \in 1..n : \E i \in 1..n : t[k] = s.cached[i]
        /\ \A i \in 1..n : \E k \in 1..n : t[k] = s.cached[i]
    BY <1>4, Zenon DEF Sorted, t
  <2>2. n \in Nat /\ \A i \in 1..n : t[i] \in [ep : Endpoints, seen : Nat]
    BY <2>1, EntriesTyped, Zenon DEF CachedSeqs
  <2>3. \A i \in 1..n : t[i].ep \in Endpoints
    BY <2>2, Zenon
  <2>4. Remembered(s) = [i \in 1..n |-> t[i].ep] /\ Endpoints_of(s.cached) = [i \in 1..n |-> s.cached[i].ep]
    BY <2>1, Zenon DEF Remembered, Endpoints_of, t
  <2>5. Remembered(s) \in [1..n -> Endpoints]
    BY <2>3, <2>4, Zenon
  <2>6. Remembered(s) \in Seq(Endpoints) /\ Len(Remembered(s)) = n
    BY <2>2, <2>5, EntriesTyped, Zenon
  <2>7. Len(Endpoints_of(s.cached)) = n
    BY <2>2, <2>4
  <2>8. Elements(Remembered(s)) = {t[i].ep : i \in 1..n} /\ Elements(Endpoints_of(s.cached)) = {s.cached[i].ep : i \in 1..n}
    BY <2>4, <2>6, <2>7, Zenon DEF Elements
  <2>9. {t[i].ep : i \in 1..n} = {s.cached[i].ep : i \in 1..n}
    <3>1. \A k \in 1..n : \E i \in 1..n : t[k].ep = s.cached[i].ep
      BY <2>1, Zenon
    <3>2. \A i \in 1..n : \E k \in 1..n : t[k].ep = s.cached[i].ep
      BY <2>1, Zenon
    <3> QED
      <4> DEFINE A == {t[i].ep : i \in 1..n}
                 C == {s.cached[i].ep : i \in 1..n}
      <4>1. \A e \in A : e \in C
        BY <3>1, Zenon
      <4>2. \A e \in C : e \in A
        BY <3>2, Zenon
      <4> HIDE DEF A, C
      <4>3. A = C
        BY <4>1, <4>2, Zenon
      <4> QED
        BY <4>3, Zenon DEF A, C
  <2> QED
    BY <2>6, <2>8, <2>9, Zenon
<1>6. DirectChain(s) = Lead(s) \o Found(s) \o s.configured \o Remembered(s)
  BY Zenon DEF DirectChain, Lead, Found, Remembered
<1>7. DirectChain(s) \in Seq(Endpoints) /\ Joined(Lead(s), Found(s), s.configured, Remembered(s), DirectChain(s))
  BY <1>1, <1>2, <1>3, <1>5, <1>6, Joining
<1>8. ASSUME NEW e \in Endpoints
      PROVE  Rank(s, e) = Within(Lead(s), Found(s), s.configured, Remembered(s), e)
  <2> DEFINE B == Elements(Found(s))
             C == Elements(s.configured)
             D == Elements(Remembered(s))
  <2>1. Within(Lead(s), Found(s), s.configured, Remembered(s), e) =
          IF e = s.last_good THEN 1 ELSE IF e \in B THEN 2 ELSE IF e \in C THEN 3
          ELSE IF e \in D THEN 4 ELSE 5
    BY <1>2, Zenon DEF Within
  <2>2. Rank(s, e) =
          CASE e = s.last_good -> 1
            [] e # s.last_good /\ e \in B -> 2
            [] e \notin {s.last_good} \cup B /\ e \in C -> 3
            [] e \notin {s.last_good} \cup B \cup C /\ e \in D -> 4
            [] OTHER -> 5
    BY <1>5, Zenon DEF Rank, Found
  <2> HIDE DEF B, C, D
  <2>3. CASE e = s.last_good
    BY <2>1, <2>2, <2>3, Zenon
  <2>4. CASE e # s.last_good /\ e \in B
    BY <2>1, <2>2, <2>4, Zenon
  <2>5. CASE e # s.last_good /\ e \notin B /\ e \in C
    BY <2>1, <2>2, <2>5, Zenon
  <2>6. CASE e # s.last_good /\ e \notin B /\ e \notin C /\ e \in D
    BY <2>1, <2>2, <2>6, Zenon
  <2>7. CASE e # s.last_good /\ e \notin B /\ e \notin C /\ e \notin D
    BY <2>1, <2>2, <2>7, Zenon
  <2> QED
    BY <2>3, <2>4, <2>5, <2>6, <2>7, Zenon
<1> QED
  BY <1>1, <1>2, <1>3, <1>4, <1>5, <1>7, <1>8, Zenon

\* e is not known before f: it does not rank after f, and of two cached endpoints
\* that no other source names, e is the newer one.
NotAfter(s, e, f) ==
  /\ Rank(s, e) =< Rank(s, f)
  /\ Rank(s, e) = 4 /\ Rank(s, f) = 4 =>
       \E i, j \in 1..Len(s.cached) :
         /\ s.cached[i].ep = e /\ s.cached[j].ep = f
         /\ s.cached[i].seen >= s.cached[j].seen

\* First occurrences in the chain are in the order of the sources, and what is
\* not in the chain ranks last.
LEMMA ChainInOrder ==
  ASSUME NEW s \in Sources
  PROVE  /\ \A p, q \in Firsts(DirectChain(s)) :
              p < q => NotAfter(s, DirectChain(s)[p], DirectChain(s)[q])
         /\ \A p \in Firsts(DirectChain(s)) : \A e \in Endpoints \ Elements(DirectChain(s)) :
              NotAfter(s, DirectChain(s)[p], e)
<1> DEFINE a == Lead(s)
           b == Found(s)
           c == s.configured
           d == Remembered(s)
           t == DirectChain(s)
           w == ByLastSeen(s.cached)
           z == Len(a) + Len(b) + Len(c)
<1>1. /\ a \in Seq(Endpoints) /\ b \in Seq(Endpoints) /\ c \in Seq(Endpoints) /\ d \in Seq(Endpoints)
      /\ t \in Seq(Endpoints) /\ Joined(a, b, c, d, t) /\ Sorted(s.cached, w)
      /\ \A e \in Endpoints : Rank(s, e) = Within(a, b, c, d, e)
  BY ChainParts, Zenon
<1> HIDE DEF a, b, c, d, t, w
<1>2. /\ \A p \in Firsts(t) : Within(a, b, c, d, t[p]) = Section(a, b, c, p)
      /\ \A e : e \in Elements(t) <=> Within(a, b, c, d, e) # 5
  <2>1. FirstsOrdered(a, b, c, d, t)
    BY <1>1, FirstsInOrder, Zenon
  <2> QED
    BY <2>1, Zenon DEF FirstsOrdered
<1>3. \A p \in Firsts(t) : p \in 1..Len(t) /\ p \in Nat /\ t[p] \in Endpoints /\ Rank(s, t[p]) = Section(a, b, c, p)
  BY <1>1, <1>2 DEF Firsts
<1>4. Len(a) \in Nat /\ Len(b) \in Nat /\ Len(c) \in Nat /\ Len(d) \in Nat
  BY <1>1
<1>5. ASSUME NEW p \in Firsts(t), Section(a, b, c, p) = 4
      PROVE  /\ p - z \in 1..Len(s.cached)
             /\ t[p] = w[p - z].ep
  <2>1. ~(p =< z) /\ p =< z + Len(d)
    BY <1>1, <1>3, <1>4, <1>5 DEF Section, Joined
  <2>2. p - z \in 1..Len(d) /\ z + (p - z) = p
    BY <1>3, <1>4, <2>1
  <2>3. t[p] = d[p - z]
    BY <1>1, <2>2, Zenon DEF Joined
  <2>4. d = [i \in 1..Len(w) |-> w[i].ep] /\ Len(w) = Len(s.cached) /\ Len(w) \in Nat
    <3>1. w \in CachedSeqs /\ Len(w) = Len(s.cached)
      BY <1>1, Zenon DEF Sorted
    <3>2. Len(w) \in Nat
      BY <3>1, EntriesTyped, Zenon DEF CachedSeqs
    <3> QED
      BY <3>1, <3>2, Zenon DEF d, w, Remembered, Endpoints_of
  <2>5. Len(d) = Len(w)
    BY <2>4
  <2> QED
    BY <2>2, <2>3, <2>4, <2>5, Zenon
<1>6. ASSUME NEW p \in Firsts(t), NEW q \in Firsts(t), p < q PROVE NotAfter(s, t[p], t[q])
  <2>1. Section(a, b, c, p) =< Section(a, b, c, q)
    BY <1>3, <1>4, <1>6, SMTT(30) DEF Section
  <2>2. ASSUME Section(a, b, c, p) = 4, Section(a, b, c, q) = 4
        PROVE  \E i, j \in 1..Len(s.cached) :
                 /\ s.cached[i].ep = t[p] /\ s.cached[j].ep = t[q]
                 /\ s.cached[i].seen >= s.cached[j].seen
    <3>1. /\ p - z \in 1..Len(s.cached) /\ t[p] = w[p - z].ep
          /\ q - z \in 1..Len(s.cached) /\ t[q] = w[q - z].ep
      BY <1>5, <2>2, Zenon
    <3>2. p - z < q - z
      BY <1>3, <1>4, <1>6
    <3>3. w[p - z].seen >= w[q - z].seen
      BY <1>1, <3>1, <3>2, Zenon DEF Sorted
    <3>4. PICK i \in 1..Len(s.cached) : w[p - z] = s.cached[i]
      BY <1>1, <3>1, Zenon DEF Sorted
    <3>5. PICK j \in 1..Len(s.cached) : w[q - z] = s.cached[j]
      BY <1>1, <3>1, Zenon DEF Sorted
    <3> QED
      BY <3>1, <3>3, <3>4, <3>5, Zenon
  <2> QED
    BY <1>3, <2>1, <2>2, Zenon DEF NotAfter
<1>7. ASSUME NEW p \in Firsts(t), NEW e \in Endpoints \ Elements(t) PROVE NotAfter(s, t[p], e)
  <2>1. Rank(s, e) = 5
    BY <1>1, <1>2, Zenon
  <2>2. Section(a, b, c, p) =< 5 /\ Section(a, b, c, p) # 5
    BY DEF Section
  <2> QED
    BY <1>3, <2>1, <2>2, Zenon DEF NotAfter
<1> QED
  BY <1>6, <1>7, Zenon DEF t

-----------------------------------------------------------------------------
(* The loops.                                                              *)

\* Until the relay is pushed, the direct part keeps a place for it; an endpoint
\* offered is in the list, still to come, or was turned away by a full list.
LoopInv ==
  /\ LoopTypeOK
  /\ Distinct(made)
  /\ Len(made) =< MaxCandidates
  /\ ~returned => Len(made) =< direct_cap(given.relay)
  /\ returned /\ given.relay # NoEndpoint => given.relay \in Elements(made)
  /\ \A e \in Elements(DirectChain(given)) :
       e \in Elements(made) \/ e \in Elements(todo) \/ Len(made) >= direct_cap(given.relay)

\* The cap of the direct part is a natural number below the full cap exactly
\* when there is a relay.
LEMMA DirectCap ==
  ASSUME NEW relay
  PROVE  /\ direct_cap(relay) \in Nat /\ direct_cap(relay) =< MaxCandidates
         /\ relay # NoEndpoint => direct_cap(relay) < MaxCandidates
  BY MaxCandidatesAssumption DEF direct_cap

\* Appending adds exactly one element, at the end.
LEMMA AppendFacts ==
  ASSUME NEW S, NEW s \in Seq(S), NEW e \in S
  PROVE  /\ Append(s, e) \in Seq(S) /\ Len(Append(s, e)) = Len(s) + 1
         /\ Elements(Append(s, e)) = Elements(s) \cup {e}
         /\ Distinct(s) /\ e \notin Elements(s) => Distinct(Append(s, e))
<1>1. /\ Append(s, e) \in Seq(S) /\ Len(Append(s, e)) = Len(s) + 1 /\ Len(s) \in Nat
      /\ \A i \in 1..Len(s) : Append(s, e)[i] = s[i]
      /\ Append(s, e)[Len(s) + 1] = e
  OBVIOUS
<1>2. 1..(Len(s) + 1) = (1..Len(s)) \cup {Len(s) + 1}
  BY <1>1
<1>3. Elements(Append(s, e)) = Elements(s) \cup {e}
  BY <1>1, <1>2, Zenon DEF Elements
<1>4. Distinct(s) /\ e \notin Elements(s) => Distinct(Append(s, e))
  BY <1>1, <1>2, Zenon DEF Distinct, Elements
<1> QED
  BY <1>1, <1>3, <1>4, Zenon

\* push_unique adds an endpoint that is new and fits, and changes nothing else.
LEMMA PushUnique ==
  ASSUME NEW s \in Seq(Endpoints), NEW e \in Endpoints, NEW cap \in Nat, Distinct(s)
  PROVE  LET t == push_unique(s, e, cap) IN
         /\ t \in Seq(Endpoints) /\ Distinct(t)
         /\ Elements(s) \subseteq Elements(t) /\ Len(s) =< Len(t)
         /\ e \in Elements(t) \/ Len(t) >= cap
         /\ Len(t) =< Len(s) \/ Len(t) =< cap
<1> DEFINE t == push_unique(s, e, cap)
<1>1. Len(s) \in Nat
  OBVIOUS
<1>2. CASE Len(s) < cap /\ e \notin Elements(s)
  <2>1. t = Append(s, e)
    BY <1>2, Zenon DEF push_unique
  <2> QED
    BY <1>1, <1>2, <2>1, AppendFacts
<1>3. CASE ~(Len(s) < cap /\ e \notin Elements(s))
  <2>1. t = s
    BY <1>3, Zenon DEF push_unique
  <2> QED
    BY <1>1, <1>3, <2>1
<1> QED
  BY <1>2, <1>3, Zenon

\* The elements of a list are its head and those of its tail.
LEMMA HeadAndTail ==
  ASSUME NEW S, NEW s \in Seq(S), s # <<>>
  PROVE  /\ Head(s) \in S /\ Tail(s) \in Seq(S)
         /\ \A e \in Elements(s) : e = Head(s) \/ e \in Elements(Tail(s))
<1>1. /\ Len(s) \in Nat \ {0} /\ Head(s) = s[1] /\ Len(Tail(s)) = Len(s) - 1
      /\ \A i \in 1..Len(Tail(s)) : Tail(s)[i] = s[i + 1]
      /\ Head(s) \in S /\ Tail(s) \in Seq(S)
  OBVIOUS
<1>2. \A i \in 1..Len(s) : i = 1 \/ (i - 1 \in 1..Len(Tail(s)) /\ Tail(s)[i - 1] = s[i])
  BY <1>1
<1> QED
  BY <1>1, <1>2 DEF Elements

\* Moving the head of the one list to the end of the other.
LEMMA HeadMoved ==
  ASSUME NEW S, NEW a \in Seq(S), NEW b \in Seq(S), b # <<>>
  PROVE  Append(a, Head(b)) \in Seq(S) /\ Append(a, Head(b)) \o Tail(b) = a \o b
<1> DEFINE c == Append(a, Head(b))
           s == c \o Tail(b)
           t == a \o b
<1>1. /\ Len(b) \in Nat \ {0} /\ Len(a) \in Nat /\ Head(b) = b[1] /\ Head(b) \in S
      /\ Tail(b) \in Seq(S) /\ Len(Tail(b)) = Len(b) - 1
      /\ \A i \in 1..Len(Tail(b)) : Tail(b)[i] = b[i + 1]
  OBVIOUS
<1>2. /\ c \in Seq(S) /\ Len(c) = Len(a) + 1 /\ c[Len(a) + 1] = Head(b)
      /\ \A i \in 1..Len(a) : c[i] = a[i]
  BY <1>1
<1> HIDE DEF c
<1>3. Joined2(S, c, Tail(b), s) /\ Joined2(S, a, b, t)
  BY <1>1, <1>2, Joining2, Zenon
<1> HIDE DEF s, t
<1>4. s \in Seq(S) /\ t \in Seq(S) /\ Len(s) = Len(t)
  BY <1>1, <1>2, <1>3 DEF Joined2
<1>5. ASSUME NEW i \in 1..Len(s) PROVE s[i] = t[i]
  <2>1. CASE i =< Len(a)
    BY <1>1, <1>2, <1>3, <1>4, <2>1 DEF Joined2
  <2>2. CASE i = Len(a) + 1
    <3>1. s[i] = Head(b)
      BY <1>1, <1>2, <1>3, <2>2 DEF Joined2
    <3>2. 1 \in 1..Len(b) /\ t[Len(a) + 1] = b[1]
      BY <1>1, <1>3 DEF Joined2
    <3> QED
      BY <1>1, <2>2, <3>1, <3>2, Zenon
  <2>3. CASE i > Len(a) + 1
    <3> DEFINE k == i - Len(c)
    <3>1. i \in Nat /\ k \in 1..Len(Tail(b)) /\ k + 1 \in 1..Len(b) /\ i = Len(c) + k /\ i = Len(a) + (k + 1)
      BY <1>1, <1>2, <1>3, <2>3 DEF Joined2
    <3>2. s[Len(c) + k] = Tail(b)[k]
      BY <1>3, <3>1, Zenon DEF Joined2
    <3>3. t[Len(a) + (k + 1)] = b[k + 1]
      BY <1>3, <3>1, Zenon DEF Joined2
    <3> QED
      BY <1>1, <3>1, <3>2, <3>3, Zenon
  <2> QED
    BY <1>1, <1>4, <2>1, <2>2, <2>3
<1>6. s = t
  BY <1>4, <1>5, SeqEqual, Zenon
<1> QED
  BY <1>2, <1>6, Zenon DEF s, t, c

\* The loops start with an empty list and everything to offer.
LEMMA LoopInitEstablishes == LoopInit => LoopInv
<1> SUFFICES ASSUME LoopInit PROVE LoopInv
  BY Zenon
<1>1. /\ given \in Inputs /\ todo = DirectChain(given) /\ made = <<>> /\ returned = FALSE
      /\ todo \in Seq(Endpoints)
  BY InputsAssumption, ChainParts, Zenon DEF LoopInit
<1>2. made \in Seq(Endpoints) /\ Len(made) = 0 /\ Distinct(made)
  BY <1>1 DEF Distinct
<1>3. LoopTypeOK
  BY <1>1, <1>2, Zenon DEF LoopTypeOK
<1> QED
  BY <1>1, <1>2, <1>3, DirectCap, MaxCandidatesAssumption DEF LoopInv

\* One direct push.
LEMMA PushDirectPreserves == LoopInv /\ PushDirect => LoopInv'
<1> SUFFICES ASSUME LoopInv, PushDirect PROVE LoopInv'
  BY Zenon
<1> DEFINE cap == direct_cap(given.relay)
<1>1. /\ todo # <<>> /\ made' = push_unique(made, Head(todo), cap) /\ todo' = Tail(todo)
      /\ given' = given /\ returned' = returned
      /\ todo \in Seq(Endpoints) /\ made \in Seq(Endpoints) /\ Distinct(made) /\ ~returned
      /\ Len(made) =< cap /\ given \in Inputs
  BY Zenon DEF PushDirect, LoopInv, LoopTypeOK
<1>2. cap \in Nat /\ cap =< MaxCandidates
  BY DirectCap, Zenon
<1>3. /\ Head(todo) \in Endpoints /\ todo' \in Seq(Endpoints)
      /\ \A e \in Elements(todo) : e = Head(todo) \/ e \in Elements(todo')
  BY <1>1, HeadAndTail, Zenon
<1> HIDE DEF cap
<1>4. /\ made' \in Seq(Endpoints) /\ Distinct(made')
      /\ Elements(made) \subseteq Elements(made') /\ Len(made) =< Len(made')
      /\ Head(todo) \in Elements(made') \/ Len(made') >= cap
      /\ Len(made') =< Len(made) \/ Len(made') =< cap
  BY <1>1, <1>2, <1>3, PushUnique, Zenon
<1>5. Len(made) \in Nat /\ Len(made') \in Nat
  BY <1>1, <1>4
<1>6. Len(made') =< cap /\ Len(made') =< MaxCandidates
  BY <1>1, <1>2, <1>4, <1>5, MaxCandidatesAssumption
<1>7. LoopTypeOK'
  <2>1. returned' \in BOOLEAN /\ ~returned'
    BY <1>1, Zenon DEF LoopInv, LoopTypeOK
  <2> QED
    BY <1>1, <1>3, <1>4, <2>1, Zenon DEF LoopTypeOK
<1>8. ASSUME NEW e \in Elements(DirectChain(given))
      PROVE  e \in Elements(made') \/ e \in Elements(todo') \/ Len(made') >= cap
  <2>1. e \in Elements(made) \/ e \in Elements(todo) \/ Len(made) >= cap
    BY Zenon DEF LoopInv, cap
  <2> QED
    BY <1>2, <1>3, <1>4, <1>5, <2>1
<1> QED
  BY <1>1, <1>4, <1>6, <1>7, <1>8, Zenon DEF LoopInv, cap

\* The relay is pushed last, into its reserved place.
LEMMA PushRelayPreserves == LoopInv /\ PushRelay => LoopInv'
<1> SUFFICES ASSUME LoopInv, PushRelay PROVE LoopInv'
  BY Zenon
<1>1. /\ todo = <<>> /\ ~returned /\ returned' = TRUE /\ given' = given /\ todo' = todo
      /\ made' = IF given.relay = NoEndpoint THEN made ELSE push_unique(made, given.relay, MaxCandidates)
      /\ made \in Seq(Endpoints) /\ Distinct(made) /\ given \in Inputs
      /\ Len(made) =< direct_cap(given.relay) /\ Len(made) =< MaxCandidates
      /\ todo \in Seq(Endpoints)
  BY Zenon DEF PushRelay, LoopInv, LoopTypeOK
<1>2. /\ direct_cap(given.relay) \in Nat /\ MaxCandidates \in Nat
      /\ given.relay # NoEndpoint => direct_cap(given.relay) < MaxCandidates
  BY DirectCap, MaxCandidatesAssumption, Zenon
<1>3. /\ made' \in Seq(Endpoints) /\ Distinct(made') /\ Len(made') =< MaxCandidates
      /\ Elements(made) \subseteq Elements(made') /\ Len(made) =< Len(made')
      /\ given.relay # NoEndpoint => given.relay \in Elements(made')
  <2>1. CASE given.relay = NoEndpoint
    BY <1>1, <2>1
  <2>2. CASE given.relay # NoEndpoint
    <3>1. given.relay \in Endpoints
      BY <1>1, <2>2, InputsAssumption, Zenon DEF Sources
    <3>2. /\ made' \in Seq(Endpoints) /\ Distinct(made')
          /\ Elements(made) \subseteq Elements(made') /\ Len(made) =< Len(made')
          /\ Len(made') =< Len(made) \/ Len(made') =< MaxCandidates
      BY <1>1, <1>2, <2>2, <3>1, PushUnique, Zenon
    <3>3. Len(made) < MaxCandidates
      BY <1>1, <1>2, <2>2
    <3>4. given.relay \in Elements(made')
      <4>1. CASE given.relay \in Elements(made)
        BY <3>2, <4>1, Zenon
      <4>2. CASE given.relay \notin Elements(made)
        BY <1>1, <2>2, <3>1, <3>3, <4>2, AppendFacts DEF push_unique
      <4> QED
        BY <4>1, <4>2, Zenon
    <3> QED
      BY <1>1, <1>2, <3>2, <3>4
  <2> QED
    BY <2>1, <2>2, Zenon
<1>4. LoopTypeOK'
  BY <1>1, <1>3, Zenon DEF LoopTypeOK
<1>5. ASSUME NEW e \in Elements(DirectChain(given))
      PROVE  e \in Elements(made') \/ Len(made') >= direct_cap(given.relay)
  <2>1. e \in Elements(made) \/ e \in Elements(todo) \/ Len(made) >= direct_cap(given.relay)
    BY Zenon DEF LoopInv
  <2>2. Elements(todo) = {} /\ Len(made) \in Nat /\ Len(made') \in Nat
    BY <1>1, <1>3 DEF Elements
  <2> QED
    BY <1>2, <1>3, <2>1, <2>2
<1> QED
  BY <1>1, <1>3, <1>4, <1>5, Zenon DEF LoopInv

-----------------------------------------------------------------------------
\* The invariant of the loops.
THEOREM LoopInvariant == LoopSpec => []LoopInv
<1>1. LoopInv /\ [LoopNext]_loopVars => LoopInv'
  <2> SUFFICES ASSUME LoopInv, [LoopNext]_loopVars PROVE LoopInv'
    BY Zenon
  <2>1. CASE LoopNext
    BY <2>1, PushDirectPreserves, PushRelayPreserves, Zenon DEF LoopNext
  <2>2. CASE UNCHANGED loopVars
    BY <2>2, Zenon DEF loopVars, LoopInv, LoopTypeOK
  <2> QED
    BY <2>1, <2>2, Zenon
<1> QED
  BY <1>1, LoopInitEstablishes, PTL DEF LoopSpec

\* For all sources, the candidate list has no repetitions.
THEOREM ListHasNoRepeats == LoopSpec => []NoRepeats
<1>1. LoopInv => NoRepeats
  BY Zenon DEF LoopInv, NoRepeats
<1> QED
  BY <1>1, LoopInvariant, PTL

\* For all sources, the relay keeps its place and the cap holds.
THEOREM RelayAlwaysHasPlace == LoopSpec => []RelayHasPlace
<1>1. LoopInv => RelayHasPlace
  BY Zenon DEF LoopInv, RelayHasPlace
<1> QED
  BY <1>1, LoopInvariant, PTL

\* For all sources, an endpoint is left out only when the direct part is full.
THEOREM NothingLostWhileRoom == LoopSpec => []LeftOutOnlyWhenFull
<1>1. LoopInv => LeftOutOnlyWhenFull
  BY DEF LoopInv, LoopTypeOK, LeftOutOnlyWhenFull, Elements
<1> QED
  BY <1>1, LoopInvariant, PTL

\* Entries are in the order of the sources, and what is left out does not rank
\* before a direct candidate kept.
InOrder(s, list) ==
  /\ \A i, j \in 1..Len(list) : i < j => NotAfter(s, list[i], list[j])
  /\ \A e \in Elements(DirectChain(s)) \ Elements(list) :
       \A i \in 1..Len(list) : list[i] # s.relay => Rank(s, list[i]) =< Rank(s, e)

\* The list of build_candidates is in the order of the sources.
LEMMA ListInOrder ==
  ASSUME NEW s \in Sources
  PROVE  InOrder(s, build_candidates(s))
<1> DEFINE t == DirectChain(s)
           I == Firsts(t)
           F == FirstOccurrences(t)
           cap == direct_cap(s.relay)
           D == Truncate(F, cap)
           L == build_candidates(s)
<1>1. t \in Seq(Endpoints) /\ s.relay \in Endpoints \cup {NoEndpoint}
  <2>1. s.relay \in Endpoints \cup {NoEndpoint}
    BY Zenon DEF Sources
  <2> QED
    BY <2>1, ChainParts, Zenon
<1>2. /\ \A p, q \in I : p < q => NotAfter(s, t[p], t[q])
      /\ \A p \in I : \A e \in Endpoints \ Elements(t) : NotAfter(s, t[p], e)
  BY ChainInOrder, Zenon
<1>a. L = IF s.relay = NoEndpoint THEN D ELSE push_unique(D, s.relay, MaxCandidates)
  BY Zenon DEF build_candidates
<1> HIDE DEF t, L
<1>3. /\ F \in Seq(Endpoints) /\ Len(F) \in Nat
      /\ \A p \in I : Place(I, p) \in 1..Len(F) /\ F[Place(I, p)] = t[p]
      /\ \A k \in 1..Len(F) : \E p \in I : Place(I, p) = k /\ F[k] = t[p]
  BY <1>1, FirstOccurrencesFacts, Zenon
<1>4. \A e \in Elements(t) : \E p \in I : t[p] = e
  BY <1>1, FirstExists, Zenon
<1>5. /\ \A p \in I : p \in Nat /\ Place(I, p) \in Nat
      /\ \A p, q \in I : Place(I, p) < Place(I, q) => p < q
  <2>1. I \in SUBSET (1..Len(t)) /\ Len(t) \in Nat
    BY <1>1 DEF Firsts
  <2>2. /\ \A p \in I : Place(I, p) \in 1..Cardinality(I)
        /\ \A p, q \in I : p < q => Place(I, p) < Place(I, q)
        /\ Cardinality(I) \in Nat
    BY <2>1, Places, Zenon
  <2>3. \A p \in I : p \in Nat /\ Place(I, p) \in Nat
    BY <2>1, <2>2
  <2>4. \A p, q \in I : Place(I, p) < Place(I, q) => p < q
    BY <2>2, <2>3
  <2> QED
    BY <2>3, <2>4, Zenon
<1>6. cap \in Nat
  BY DirectCap, Zenon
<1> HIDE DEF I, F, cap
<1>7. D \in Seq(Endpoints) /\ Len(D) \in Nat /\ Len(D) =< Len(F) /\ \A k \in 1..Len(D) : D[k] = F[k]
  BY <1>3, <1>6 DEF Truncate
<1> HIDE DEF D
<1>8. \A k \in 1..Len(D) : \E p \in I : Place(I, p) = k /\ D[k] = t[p]
  BY <1>3, <1>7
<1>9. \A p \in I : t[p] \in Elements(D) \/ Place(I, p) > Len(D)
  BY <1>3, <1>5, <1>7, SMTT(30) DEF Elements
<1>10. \A k \in 1..Len(D) : \A e \in Endpoints \ Elements(D) : NotAfter(s, D[k], e)
  <2> SUFFICES ASSUME NEW k \in 1..Len(D), NEW e \in Endpoints \ Elements(D)
               PROVE  NotAfter(s, D[k], e)
    BY Zenon
  <2>1. PICK p \in I : Place(I, p) = k /\ D[k] = t[p]
    BY <1>8, Zenon
  <2>2. CASE e \in Elements(t)
    <3>1. PICK q \in I : t[q] = e
      BY <1>4, <2>2, Zenon
    <3>2. Place(I, p) < Place(I, q)
      BY <1>5, <1>7, <1>9, <2>1, <3>1
    <3> QED
      BY <1>2, <1>5, <2>1, <3>1, <3>2, Zenon
  <2>3. CASE e \notin Elements(t)
    BY <1>2, <2>1, <2>3, Zenon
  <2> QED
    BY <2>2, <2>3, Zenon
<1>11. \A k, l \in 1..Len(D) : k < l => NotAfter(s, D[k], D[l])
  <2> SUFFICES ASSUME NEW k \in 1..Len(D), NEW l \in 1..Len(D), k < l
               PROVE  NotAfter(s, D[k], D[l])
    BY Zenon
  <2>1. PICK p \in I : Place(I, p) = k /\ D[k] = t[p]
    BY <1>8, Zenon
  <2>2. PICK q \in I : Place(I, q) = l /\ D[l] = t[q]
    BY <1>8, Zenon
  <2> QED
    BY <1>2, <1>5, <2>1, <2>2, Zenon
<1>12. \/ L = D
       \/ /\ s.relay \in Endpoints /\ s.relay \notin Elements(D)
          /\ L = Append(D, s.relay)
  BY <1>1, <1>a, Zenon DEF push_unique
<1>13. /\ Len(L) \in Nat /\ Len(D) =< Len(L) /\ Elements(D) \subseteq Elements(L)
       /\ \A k \in 1..Len(D) : L[k] = D[k]
       /\ \A k \in 1..Len(L) :
            k \in 1..Len(D) \/ (k = Len(D) + 1 /\ L[k] = s.relay /\ s.relay \in Endpoints \ Elements(D))
  <2>1. CASE L = D
    BY <1>7, <2>1
  <2>2. CASE s.relay \in Endpoints /\ s.relay \notin Elements(D) /\ L = Append(D, s.relay)
    <3>1. Elements(D) \subseteq Elements(L)
      BY <1>7, <2>2, AppendFacts
    <3>2. /\ Len(L) = Len(D) + 1 /\ L[Len(D) + 1] = s.relay
          /\ \A k \in 1..Len(D) : L[k] = D[k]
      BY <1>7, <2>2
    <3> QED
      BY <1>7, <2>2, <3>1, <3>2
  <2> QED
    BY <1>12, <2>1, <2>2, Zenon
<1>14. ASSUME NEW i \in 1..Len(L), NEW j \in 1..Len(L), i < j PROVE NotAfter(s, L[i], L[j])
  <2>1. i \in 1..Len(D)
    BY <1>7, <1>13, <1>14
  <2>2. CASE j \in 1..Len(D)
    BY <1>11, <1>13, <1>14, <2>1, <2>2, Zenon
  <2>3. CASE j = Len(D) + 1 /\ L[j] = s.relay /\ s.relay \in Endpoints \ Elements(D)
    BY <1>10, <1>13, <2>1, <2>3, Zenon
  <2> QED
    BY <1>13, <2>2, <2>3, Zenon
<1>15. ASSUME NEW e \in Elements(t) \ Elements(L), NEW i \in 1..Len(L), L[i] # s.relay
       PROVE  Rank(s, L[i]) =< Rank(s, e)
  <2>1. i \in 1..Len(D) /\ e \notin Elements(D)
    BY <1>13, <1>15, Zenon
  <2>2. e \in Endpoints
    BY <1>1 DEF Elements
  <2>3. NotAfter(s, L[i], e)
    BY <1>10, <1>13, <2>1, <2>2, Zenon
  <2> QED
    BY <2>3, Zenon DEF NotAfter
<1> QED
  BY <1>14, <1>15, Zenon DEF InOrder, t, L

\* What the list of build_candidates holds: endpoints that some source names, and
\* the relay whenever there is one.
LEMMA ListMembers ==
  ASSUME NEW s \in Sources
  PROVE  /\ build_candidates(s) \in Seq(Endpoints)
         /\ s.relay # NoEndpoint => s.relay \in Elements(build_candidates(s))
         /\ \A e \in Endpoints : Rank(s, e) = 5 /\ e # s.relay => e \notin Elements(build_candidates(s))
<1> DEFINE t == DirectChain(s)
           F == FirstOccurrences(t)
           cap == direct_cap(s.relay)
           D == Truncate(F, cap)
           L == build_candidates(s)
           None(list) == \A e \in Endpoints : Rank(s, e) = 5 => e \notin Elements(list)
<1>1. s.relay \in Endpoints \cup {NoEndpoint}
  BY Zenon DEF Sources
<1>2. t \in Seq(Endpoints) /\ None(t)
  <2> DEFINE a == Lead(s)
             b == Found(s)
             c == s.configured
             d == Remembered(s)
  <2>1. /\ a \in Seq(Endpoints) /\ b \in Seq(Endpoints) /\ c \in Seq(Endpoints)
        /\ d \in Seq(Endpoints) /\ t \in Seq(Endpoints) /\ Joined(a, b, c, d, t)
        /\ \A e \in Endpoints : Rank(s, e) = Within(a, b, c, d, e)
    BY ChainParts, Zenon
  <2> HIDE DEF a, b, c, d, t
  <2>2. FirstsOrdered(a, b, c, d, t)
    BY <2>1, FirstsInOrder, Zenon
  <2> QED
    BY <2>1, <2>2, Zenon DEF FirstsOrdered
<1>3. L = IF s.relay = NoEndpoint THEN D ELSE push_unique(D, s.relay, MaxCandidates)
  BY Zenon DEF build_candidates
<1> HIDE DEF t, L
<1>4. F \in Seq(Endpoints) /\ Len(F) \in Nat /\ Elements(F) = Elements(t)
  BY <1>2, FirstOccurrencesFacts, Zenon
<1>5. /\ cap \in Nat /\ cap =< MaxCandidates /\ MaxCandidates \in Nat
      /\ s.relay # NoEndpoint => cap < MaxCandidates
  BY DirectCap, MaxCandidatesAssumption, Zenon
<1> HIDE DEF F, cap
<1>6. /\ D \in Seq(Endpoints) /\ Len(D) \in Nat /\ Len(D) =< cap /\ Len(D) =< Len(F)
      /\ \A k \in 1..Len(D) : D[k] = F[k]
  BY <1>4, <1>5 DEF Truncate
<1> HIDE DEF D
<1>7. None(D)
  <2>1. Elements(D) \subseteq Elements(F)
    BY <1>4, <1>6 DEF Elements
  <2> QED
    BY <1>2, <1>4, <2>1, Zenon
<1>8. CASE s.relay = NoEndpoint
  BY <1>3, <1>6, <1>7, <1>8, Zenon DEF L
<1>9. CASE s.relay # NoEndpoint
  <2>1. s.relay \in Endpoints /\ Len(D) < MaxCandidates
    BY <1>1, <1>5, <1>6, <1>9
  <2>2. CASE s.relay \in Elements(D)
    <3>1. L = D
      BY <1>3, <1>9, <2>2, Zenon DEF push_unique
    <3> QED
      BY <1>6, <1>7, <2>2, <3>1, Zenon DEF L
  <2>3. CASE s.relay \notin Elements(D)
    <3>1. L = Append(D, s.relay)
      BY <1>3, <1>9, <2>1, <2>3, Zenon DEF push_unique
    <3>2. Append(D, s.relay) \in Seq(Endpoints)
          /\ Elements(Append(D, s.relay)) = Elements(D) \cup {s.relay}
      BY <1>6, <2>1, AppendFacts
    <3> QED
      BY <1>7, <3>1, <3>2, Zenon DEF L
  <2> QED
    BY <2>2, <2>3, Zenon
<1> QED
  BY <1>8, <1>9, Zenon

-----------------------------------------------------------------------------
\* What the loops have computed: the first occurrences of what was offered so
\* far, cut at the cap of the direct part; once returned, build_candidates.
Progress ==
  /\ given \in Sources
  /\ ~returned => \E pre \in Seq(Endpoints) :
       /\ pre \o todo = DirectChain(given)
       /\ made = Truncate(FirstOccurrences(pre), direct_cap(given.relay))
  /\ returned => made = build_candidates(given)

\* Nothing has been offered at the start.
LEMMA ProgressInit == LoopInit => Progress
<1> SUFFICES ASSUME LoopInit PROVE Progress
  BY Zenon
<1>1. given \in Sources /\ todo = DirectChain(given) /\ made = <<>> /\ ~returned
  BY InputsAssumption, Zenon DEF LoopInit
<1>2. todo \in Seq(Endpoints)
  BY <1>1, ChainParts, Zenon
<1> DEFINE pre == <<>>
           F == FirstOccurrences(pre)
<1>3. pre \in Seq(Endpoints) /\ pre \o todo = todo /\ Elements(pre) = {}
  BY <1>2 DEF Elements
<1>4. F \in Seq(Endpoints) /\ Elements(F) = Elements(pre)
  BY <1>3, FirstOccurrencesFacts, Zenon
<1> HIDE DEF F
<1>5. F = <<>>
  <2>1. Len(F) \in Nat /\ \A i \in 1..Len(F) : F[i] \in Elements(F)
    BY <1>4 DEF Elements
  <2>2. Len(F) = 0
    BY <1>3, <1>4, <2>1
  <2> QED
    BY <1>4, <2>2
<1>6. direct_cap(given.relay) \in Nat
  BY DirectCap, Zenon
<1>7. Truncate(F, direct_cap(given.relay)) = <<>>
  BY <1>5, <1>6 DEF Truncate
<1> QED
  BY <1>1, <1>3, <1>5, <1>7, Zenon DEF Progress, F

\* Every push keeps it.
LEMMA ProgressStep == LoopInv /\ Progress /\ [LoopNext]_loopVars => Progress'
<1> SUFFICES ASSUME LoopInv, Progress, [LoopNext]_loopVars PROVE Progress'
  BY Zenon
<1> DEFINE cap == direct_cap(given.relay)
<1>0. cap \in Nat /\ todo \in Seq(Endpoints) /\ given \in Sources
  BY DirectCap, Zenon DEF LoopInv, LoopTypeOK, Progress
<1>1. CASE PushDirect
  <2>1. /\ todo # <<>> /\ made' = push_unique(made, Head(todo), cap) /\ todo' = Tail(todo)
        /\ given' = given /\ returned' = returned
    BY <1>1, Zenon DEF PushDirect
  <2>2. ~returned
    BY <2>1, Zenon DEF LoopInv, LoopTypeOK
  <2>3. PICK pre \in Seq(Endpoints) :
          pre \o todo = DirectChain(given) /\ made = Truncate(FirstOccurrences(pre), cap)
    BY <2>2, Zenon DEF Progress
  <2> HIDE DEF cap
  <2>4. Head(todo) \in Endpoints
    BY <1>0, <2>1
  <2>5. Append(pre, Head(todo)) \in Seq(Endpoints) /\ Append(pre, Head(todo)) \o Tail(todo) = pre \o todo
    BY <1>0, <2>1, HeadMoved, Zenon
  <2>6. made' = Truncate(FirstOccurrences(Append(pre, Head(todo))), cap)
    BY <1>0, <2>1, <2>3, <2>4, PushIsNextCut, Zenon
  <2> QED
    BY <1>0, <2>1, <2>2, <2>3, <2>5, <2>6, Zenon DEF Progress, cap
<1>2. CASE PushRelay
  <2>1. /\ todo = <<>> /\ ~returned /\ returned' /\ given' = given /\ todo' = todo
        /\ made' = IF given.relay = NoEndpoint THEN made ELSE push_unique(made, given.relay, MaxCandidates)
    BY <1>2, Zenon DEF PushRelay
  <2>2. PICK pre \in Seq(Endpoints) :
          pre \o todo = DirectChain(given) /\ made = Truncate(FirstOccurrences(pre), cap)
    BY <2>1, Zenon DEF Progress
  <2>3. pre = DirectChain(given)
    BY <2>1, <2>2
  <2>4. made' = build_candidates(given)
    BY <2>1, <2>2, <2>3, Zenon DEF build_candidates
  <2> QED
    BY <1>0, <2>1, <2>4, Zenon DEF Progress
<1>3. CASE UNCHANGED loopVars
  BY <1>3, Zenon DEF loopVars, Progress
<1> QED
  BY <1>1, <1>2, <1>3, Zenon DEF LoopNext

\* For all sources and every MAX_CANDIDATES, the loops compute the list that the
\* daemon's model uses: first occurrences in source order, cut, then the relay.
THEOREM LoopAlwaysComputesList == LoopSpec => []LoopComputesList
<1>1. Progress => LoopComputesList
  BY Zenon DEF Progress, LoopComputesList
<1> QED
  BY <1>1, ProgressInit, ProgressStep, LoopInvariant, PTL DEF LoopSpec

\* For all sources and every MAX_CANDIDATES, the list is in the order of the
\* sources, the cached endpoints newest first, and nothing that is left out
\* ranks before a direct candidate that is kept.
THEOREM ListAlwaysOrdered == LoopSpec => []ListOrdered
<1>1. Progress => ListOrdered
  <2> SUFFICES ASSUME Progress, returned PROVE ListOrdered
    BY Zenon DEF ListOrdered, EarlierSourceFirst, CacheNewestFirst
  <2>1. InOrder(given, made)
    BY ListInOrder, Zenon DEF Progress
  <2> QED
    <3>1. EarlierSourceFirst
      BY <2>1, Zenon DEF InOrder, NotAfter, EarlierSourceFirst
    <3>2. CacheNewestFirst
      <4> SUFFICES ASSUME NEW i \in 1..Len(made), NEW j \in 1..Len(made), i < j,
                          Rank(given, made[i]) = 4, Rank(given, made[j]) = 4
                   PROVE  \E p, q \in 1..Len(given.cached) :
                            /\ given.cached[p].ep = made[i] /\ given.cached[q].ep = made[j]
                            /\ given.cached[p].seen >= given.cached[q].seen
        BY DEF CacheNewestFirst
      <4>1. NotAfter(given, made[i], made[j])
        BY <2>1, Zenon DEF InOrder
      <4> QED
        BY <4>1, Zenon DEF NotAfter
    <3> QED
      BY <3>1, <3>2, Zenon DEF ListOrdered
<1> QED
  BY <1>1, ProgressInit, ProgressStep, LoopInvariant, PTL DEF LoopSpec
=============================================================================
