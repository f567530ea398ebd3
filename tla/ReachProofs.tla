---------------------------- MODULE ReachProofs ----------------------------
(***************************************************************************)
(* Reaching a peer: by punching, and through a relay.                       *)
(***************************************************************************)
EXTENDS PeerFsm, RelayNet, EngineProofs

-----------------------------------------------------------------------------
(***************************************************************************)
(* PeerFsm, for all endpoints, candidate lists and timings.                 *)
(***************************************************************************)

-----------------------------------------------------------------------------
(***************************************************************************)
(* The inductive invariant.  Pointed: a probing machine's candidate is what *)
(* the kernel has been told, or the pending actions begin by telling it.    *)
(* Evidence: a fresh handshake that answered the current candidate is newer *)
(* than last_transition, in the kernel and in the snapshot of a tick.       *)
(***************************************************************************)
Pointed ==
  Searching(fsm) =>
    \/ Points(acts, current_candidate(fsm))
    \/ acts \in {<<>>, <<Nudge>>} /\ (told => kernel.ep = current_candidate(fsm))

Evidence ==
  /\ kernel.hsAge < HandshakeFresh => kernel.ep \in Endpoints
  /\ fsm.state.tag = "Probing" /\ answered /\ kernel.hsAge < HandshakeFresh => hsAfter
  /\ obs.busy =>
       /\ ~obs.fresh /\ kernel.hsAge < HandshakeFresh => hsSince
       /\ obs.fresh => obs.ep \in Endpoints
       /\ fsm.state.tag = "Probing" /\ obs.answered /\ obs.fresh => obs.after

PeerInv ==
  /\ TypeOK
  /\ Bounded(fsm) /\ Distinct(fsm.candidates)
  /\ acts \in ActLists
  /\ obs.busy => acts = <<>>
  /\ Pointed
  /\ Evidence

\* Running an operation preserves the invariant, if the operation is sound and
\* does not let go of evidence.
LEMMA PerformPreserves ==
  ASSUME PeerInv, NEW out, NEW hs \in BOOLEAN,
         Sound(fsm, out), Distinct(out.fsm.candidates),
         Keeps(fsm, out) \/ (out.transition /\ (kernel.hsAge < HandshakeFresh => hs)),
         Perform(out, hs), acts = <<>>, ~obs'.busy, obs' \in {obs, Idle},
         UNCHANGED <<kernel, hsSince, told, lag, live>>, changes' \in 0..MaxChanges
  PROVE  PeerInv'
<1> USE DEF PeerInv
<1>1. /\ fsm' = out.fsm /\ fsm' \in Fsms /\ Bounded(fsm') /\ Distinct(fsm'.candidates)
      /\ acts' = out.acts /\ acts' \in ActLists
  BY SMTT(60) DEF Perform, Sound
<1>2. acts' \in Seq(Actions)
  BY <1>1, ActListsTyped, Zenon
<1>3. rotAge' \in 0..RotateInterval /\ hsAfter' \in BOOLEAN /\ answered' \in BOOLEAN
  BY TimingAssumption DEF Perform, TypeOK
<1>4. obs' \in Observations
  <2>1. Idle \in Observations
    BY ZenonT(60) DEF Idle, Observations
  <2> QED
    BY <2>1, Zenon DEF TypeOK
<1>5. TypeOK'
  BY <1>1, <1>2, <1>3, <1>4, SMTT(60) DEF TypeOK, Fsms, Kernel
<1>6. Pointed'
  <2> SUFFICES ASSUME Searching(fsm')
               PROVE  \/ Points(acts', current_candidate(fsm'))
                      \/ /\ acts' \in {<<>>, <<Nudge>>}
                         /\ told' => kernel'.ep = current_candidate(fsm')
    BY Zenon DEF Pointed, Searching, current_candidate
  <2>1. CASE Points(out.acts, current_candidate(out.fsm))
    BY <1>1, <2>1, Zenon
  <2>2. CASE /\ Searching(fsm) /\ current_candidate(out.fsm) = current_candidate(fsm)
             /\ out.acts \in {<<>>, <<Nudge>>}
    <3>1. told => kernel.ep = current_candidate(fsm)
      BY <2>2, SMTT(60) DEF Pointed, Points
    <3> QED
      BY <1>1, <2>2, <3>1, Zenon
  <2> QED
    BY <1>1, <2>1, <2>2, SMTT(60) DEF Sound
<1>7. fsm'.state.tag = "Probing" /\ answered' /\ kernel'.hsAge < HandshakeFresh => hsAfter'
  <2> SUFFICES ASSUME out.fsm.state.tag = "Probing", answered', kernel.hsAge < HandshakeFresh
               PROVE  hsAfter'
    BY <1>1, Zenon
  <2>1. answered /\ current_candidate(out.fsm) = current_candidate(fsm)
    BY ZenonT(60) DEF Perform
  <2>2. CASE Keeps(fsm, out)
    BY <2>1, <2>2, Zenon DEF Keeps, Perform, Evidence
  <2>3. CASE out.transition /\ (kernel.hsAge < HandshakeFresh => hs)
    BY <2>3, Zenon DEF Perform
  <2> QED
    BY <2>2, <2>3, Zenon
<1>8. Evidence'
  BY <1>7, Zenon DEF Evidence
<1> QED
  BY <1>1, <1>5, <1>6, <1>8, SMTT(60) DEF Bounded, Distinct

\* The invariant holds when the loop starts, with the first kick pending.
LEMMA InitEstablishes == PeerInit => PeerInv
<1> SUFFICES ASSUME PeerInit PROVE PeerInv
  BY Zenon
<1>1. PICK list \in Lists :
        /\ fsm = new(list) /\ acts = kick(new(list)).acts
        /\ \E e \in Elements(list) \cup {NoEndpoint} :
             kernel = [ep |-> e, hsAge |-> HandshakeFresh, heard |-> NoEndpoint]
  BY Zenon DEF PeerInit
<1>2. list \in Seq(Endpoints) /\ Distinct(list)
  BY ListsAssumption, Zenon
<1>3. fsm = [candidates |-> list, state |-> Probing(0, 0)] /\ fsm \in Fsms /\ Bounded(fsm)
  BY <1>1, <1>2, MaxRoundsAssumption DEF new, Fsms, PunchStates, Probing, Bounded
<1>4. Sound(fsm, kick(fsm)) /\ acts = kick(fsm).acts
  BY <1>1, <1>3, KickSound, Zenon
<1>5. acts \in ActLists /\ acts \in Seq(Actions)
  BY <1>4, ActListsTyped, Zenon DEF Sound
<1>6. kernel \in Kernel /\ kernel.hsAge = HandshakeFresh
  BY <1>1, <1>2, TimingAssumption DEF Kernel, Elements
<1>7. obs \in Observations /\ obs.busy = FALSE
  BY Zenon DEF PeerInit, Idle, Observations
<1>8. /\ rotAge = 0 /\ hsAfter = FALSE /\ hsSince = FALSE /\ told = FALSE /\ answered = FALSE
      /\ live \in LiveSets /\ lag = 0 /\ changes = 0
  BY Zenon DEF PeerInit
<1>9. TypeOK
  <2>1. rotAge \in 0..RotateInterval /\ lag \in 0..MaxLag /\ changes \in 0..MaxChanges
    BY <1>8, TimingAssumption, BudgetAssumption
  <2>2. /\ hsAfter \in BOOLEAN /\ hsSince \in BOOLEAN /\ told \in BOOLEAN
        /\ answered \in BOOLEAN /\ live \in SUBSET Endpoints
    BY <1>8, LiveAssumption, Zenon
  <2> QED
    BY <1>3, <1>5, <1>6, <1>7, <2>1, <2>2, Zenon DEF TypeOK, Fsms
<1>10. Pointed
  <2>1. Searching(fsm) => \/ Points(acts, current_candidate(kick(fsm).fsm))
                          \/ acts \in {<<>>, <<Nudge>>}
    BY <1>4, Zenon DEF Sound, kick, Outcome, Searching
  <2>2. kick(fsm).fsm = fsm
    BY <1>3, Zenon DEF kick, Outcome
  <2> QED
    BY <1>8, <2>1, <2>2, SMTT(60) DEF Pointed
<1>11. Evidence
  BY <1>6, <1>7, <1>8, TimingAssumption, SMTT(60) DEF Evidence
<1> QED
  BY <1>2, <1>3, <1>5, <1>7, <1>9, <1>10, <1>11, Zenon DEF PeerInv

\* Reading the status: the snapshot inherits the evidence.
LEMMA ReadStatusPreserves == PeerInv /\ ReadStatus => PeerInv'
<1> SUFFICES ASSUME PeerInv, ReadStatus PROVE PeerInv'
  BY Zenon
<1> USE DEF PeerInv
<1>1. /\ acts = <<>> /\ ~obs.busy
      /\ obs' = [fresh |-> kernel.hsAge < HandshakeFresh, after |-> hsAfter,
                 ep |-> kernel.ep, answered |-> answered, busy |-> TRUE]
      /\ hsSince' = FALSE /\ lag' = 0
      /\ UNCHANGED <<fsm, rotAge, kernel, hsAfter, acts, told, answered, live, changes>>
  BY Zenon DEF ReadStatus, LoopIdle, outside
<1>2. obs' \in Observations
  <2>1. /\ (kernel.hsAge < HandshakeFresh) \in BOOLEAN /\ hsAfter \in BOOLEAN
        /\ kernel.ep \in Endpoints \cup {NoEndpoint} /\ answered \in BOOLEAN
    BY DEF TypeOK, Kernel
  <2> QED
    BY <1>1, <2>1, Zenon DEF Observations
<1>3. TypeOK'
  <2>1. lag' \in 0..MaxLag
    BY <1>1, TimingAssumption
  <2>2. hsSince' \in BOOLEAN
    BY <1>1, ZenonT(60)
  <2> QED
    BY <1>1, <1>2, <2>1, <2>2, Zenon DEF TypeOK, Kernel
<1>4. Pointed'
  BY <1>1, Zenon DEF Pointed, Searching, current_candidate
<1>5. Evidence'
  BY <1>1, Zenon DEF Evidence
<1> QED
  BY <1>1, <1>3, <1>4, <1>5, Zenon DEF Bounded, Distinct

\* tick_once runs the machine on its snapshot: Connected is left only on a stale
\* snapshot, and then a fresh kernel handshake is newer than that snapshot.
LEMMA TickPreserves == PeerInv /\ TickPeer => PeerInv'
<1> SUFFICES ASSUME PeerInv, TickPeer PROVE PeerInv'
  BY Zenon
<1> DEFINE due == rotAge >= RotateInterval
           out == tick(fsm, obs, due)
<1>1. /\ fsm \in Fsms /\ Bounded(fsm) /\ Distinct(fsm.candidates)
      /\ obs.ep \in Endpoints \cup {NoEndpoint} /\ due \in BOOLEAN /\ hsSince \in BOOLEAN
  BY DEF PeerInv, TypeOK, Fsms, Observations
<1>2. Sound(fsm, out)
  BY <1>1, TickSound, Zenon
<1>3. /\ Keeps(fsm, out) \/ (fsm.state.tag = "Connected" /\ ~obs.fresh)
      /\ out.fsm.candidates = fsm.candidates
  BY <1>1, TickKeeps, ZenonT(60)
<1>4. fsm.state.tag = "Connected" /\ ~obs.fresh => out.transition
  BY Zenon DEF tick, TickConnected, Outcome
<1>5. obs.busy /\ acts = <<>> /\ (~obs.fresh /\ kernel.hsAge < HandshakeFresh => hsSince)
  BY Zenon DEF TickPeer, PeerInv, Evidence
<1>6. /\ Perform(out, hsSince) /\ obs' = Idle /\ ~obs'.busy
      /\ UNCHANGED <<kernel, hsSince, told, lag, live>> /\ changes' \in 0..MaxChanges
  BY Zenon DEF TickPeer, outside, Idle, PeerInv, TypeOK
<1> HIDE DEF out
<1> QED
  BY <1>1, <1>2, <1>3, <1>4, <1>5, <1>6, PerformPreserves, Zenon

\* A change of the local addresses.
LEMMA KickPreserves == PeerInv /\ Kick => PeerInv'
<1> SUFFICES ASSUME PeerInv, Kick PROVE PeerInv'
  BY Zenon
<1>1. fsm \in Fsms /\ Bounded(fsm) /\ Distinct(fsm.candidates)
  BY Zenon DEF PeerInv, TypeOK, Fsms
<1>2. /\ Sound(fsm, kick(fsm)) /\ Keeps(fsm, kick(fsm))
      /\ kick(fsm).fsm.candidates = fsm.candidates
  BY <1>1, KickSound, KickKeeps, Zenon
<1>3. /\ acts = <<>> /\ ~obs'.busy /\ obs' = obs
      /\ UNCHANGED <<kernel, hsSince, told, lag, live>> /\ changes' \in 0..MaxChanges
  BY TimingAssumption, BudgetAssumption DEF Kick, Spend, LoopIdle, PeerInv, TypeOK
<1>4. Perform(kick(fsm), FALSE)
  BY Zenon DEF Kick
<1> QED
  BY <1>1, <1>2, <1>3, <1>4, PerformPreserves, Zenon

\* A new candidate list.
LEMMA SetCandidatesPreserves == PeerInv /\ SetCandidates => PeerInv'
<1> SUFFICES ASSUME PeerInv, SetCandidates PROVE PeerInv'
  BY Zenon
<1>1. fsm \in Fsms /\ Bounded(fsm) /\ Distinct(fsm.candidates)
  BY Zenon DEF PeerInv, TypeOK, Fsms
<1>2. PICK list \in Lists : Perform(set_candidates(fsm, list), FALSE)
  BY ZenonT(60) DEF SetCandidates
<1>3. list \in Seq(Endpoints) /\ Distinct(list)
  BY ListsAssumption, Zenon
<1>4. /\ Sound(fsm, set_candidates(fsm, list)) /\ Keeps(fsm, set_candidates(fsm, list))
      /\ set_candidates(fsm, list).fsm.candidates = list
  BY <1>1, <1>3, SetCandidatesSound, SetCandidatesKeeps, Zenon
<1>5. /\ acts = <<>> /\ ~obs'.busy /\ obs' = obs
      /\ UNCHANGED <<kernel, hsSince, told, lag, live>> /\ changes' \in 0..MaxChanges
  BY TimingAssumption, BudgetAssumption DEF SetCandidates, Spend, LoopIdle, PeerInv, TypeOK
<1> QED
  BY <1>2, <1>3, <1>4, <1>5, PerformPreserves, Zenon

\* Leaving the connected endpoint.
LEMMA RetryFromPreserves == PeerInv /\ RetryFrom => PeerInv'
<1> SUFFICES ASSUME PeerInv, RetryFrom PROVE PeerInv'
  BY Zenon
<1>1. /\ fsm \in Fsms /\ Bounded(fsm) /\ Distinct(fsm.candidates)
      /\ fsm.state.tag = "Connected"
  BY Zenon DEF PeerInv, TypeOK, Fsms, RetryFrom
<1>2. PICK flush \in BOOLEAN : Perform(retry_from(fsm, fsm.state.endpoint, flush), FALSE)
  BY Zenon DEF RetryFrom
<1> DEFINE out == retry_from(fsm, fsm.state.endpoint, flush)
<1>3. Sound(fsm, out) /\ Keeps(fsm, out) /\ out.fsm.candidates = fsm.candidates
  BY <1>1, RetryFromSound, RetryFromKeeps, Zenon
<1>4. /\ acts = <<>> /\ ~obs'.busy /\ obs' = obs
      /\ UNCHANGED <<kernel, hsSince, told, lag, live>> /\ changes' \in 0..MaxChanges
  BY TimingAssumption, BudgetAssumption DEF RetryFrom, Spend, LoopIdle, PeerInv, TypeOK
<1> HIDE DEF out
<1>5. Perform(out, FALSE)
  BY <1>2, Zenon DEF out
<1> QED
  BY <1>1, <1>3, <1>4, <1>5, PerformPreserves, Zenon

ActTail(l) ==
  /\ Tail(l) \in {<<>>, <<Nudge>>} /\ Head(l) \in Actions
  /\ \A e \in Endpoints : Points(l, e) =>
       Head(l).act \in {"SetEndpoint", "Rehandshake"} /\ Head(l).ep = e
  /\ l = <<Nudge>> => Head(l).act = "Nudge"

\* What is left of a list of actions once its head has been applied.
LEMMA TailOfActs ==
  ASSUME NEW l \in ActLists, l # <<>>
  PROVE  ActTail(l)
<1> USE DEF Nudge, MarkGood, SetEndpoint, Rehandshake, Actions
<1>1. CASE l = <<Nudge>>
  BY <1>1 DEF Points, ActTail
<1>2. ASSUME NEW e \in Endpoints, l = <<MarkGood(e)>> PROVE ActTail(l)
  BY <1>2 DEF Points, ActTail
<1>3. ASSUME NEW e \in Endpoints, l = <<SetEndpoint(e), Nudge>> PROVE ActTail(l)
  BY <1>3 DEF Points, ActTail
<1>4. ASSUME NEW e \in Endpoints, l = <<Rehandshake(e), Nudge>> PROVE ActTail(l)
  BY <1>4 DEF Points, ActTail
<1> QED
  BY <1>1, <1>2, <1>3, <1>4, Zenon DEF ActLists

\* Applying an action.
LEMMA ApplyActionPreserves == PeerInv /\ ApplyAction => PeerInv'
<1> SUFFICES ASSUME PeerInv, ApplyAction PROVE PeerInv'
  BY Zenon
<1> USE DEF PeerInv
<1>1. /\ acts # <<>> /\ ~obs.busy /\ acts' = Tail(acts)
      /\ UNCHANGED <<fsm, rotAge, lag, hsAfter, obs, hsSince, answered, live, changes>>
  BY Zenon DEF ApplyAction, clock, outside
<1>2. ActTail(acts)
  BY <1>1, TailOfActs, Zenon
<1>3. acts' \in ActLists /\ acts' \in Seq(Actions) /\ acts' \in {<<>>, <<Nudge>>}
  BY <1>1, <1>2, ActListsTyped, Zenon DEF ActLists, ActTail
<1>4. /\ kernel' \in Kernel /\ told' \in BOOLEAN
      /\ Head(acts).act \in {"SetEndpoint", "Rehandshake"} =>
           kernel'.ep = Head(acts).ep /\ kernel'.ep \in Endpoints
      /\ Head(acts).act \notin {"SetEndpoint", "Rehandshake"} => UNCHANGED <<kernel, told>>
      /\ kernel'.hsAge < HandshakeFresh => kernel'.hsAge = kernel.hsAge
  <2>1. kernel \in Kernel /\ told \in BOOLEAN /\ HandshakeFresh \in Nat
    BY TimingAssumption, Zenon DEF TypeOK
  <2>2. Head(acts).act \in {"SetEndpoint", "Rehandshake"} => Head(acts).ep \in Endpoints
    BY <1>2, Zenon DEF ActTail, Actions
  <2>3. CASE Head(acts).act = "SetEndpoint"
    <3>1. kernel' = [kernel EXCEPT !.ep = Head(acts).ep] /\ told' = TRUE
      BY <2>3, Zenon DEF ApplyAction
    <3> QED
      BY <2>1, <2>2, <2>3, <3>1, Zenon DEF Kernel
  <2>4. CASE Head(acts).act = "Rehandshake"
    <3>1. /\ kernel' = [kernel EXCEPT !.ep = Head(acts).ep, !.hsAge = HandshakeFresh]
          /\ told' = TRUE
      BY <2>4, Zenon DEF ApplyAction
    <3> DEFINE e == Head(acts).ep
    <3>2. e \in Endpoints
      BY <2>2, <2>4, Zenon
    <3>3. kernel' = [ep |-> e, hsAge |-> HandshakeFresh, heard |-> kernel.heard]
      <4> HIDE DEF e
      <4>1. kernel' = [kernel EXCEPT !.ep = e, !.hsAge = HandshakeFresh]
        BY <3>1, Zenon DEF e
      <4> QED
        BY <2>1, <4>1, ZenonT(60) DEF Kernel
    <3> HIDE DEF e
    <3>4. kernel' \in Kernel /\ kernel'.ep = e /\ kernel'.hsAge = HandshakeFresh
      BY <2>1, <3>2, <3>3 DEF Kernel
    <3>5. told' \in BOOLEAN
      BY <3>1, Zenon
    <3> QED
      BY <2>1, <2>4, <3>2, <3>4, <3>5, SMTT(30) DEF e
  <2>5. CASE Head(acts).act \notin {"SetEndpoint", "Rehandshake"}
    <3>1. UNCHANGED <<kernel, told>>
      BY <2>5, Zenon DEF ApplyAction
    <3> QED
      BY <2>1, <2>5, <3>1, Zenon DEF Kernel
  <2> QED
    BY <2>3, <2>4, <2>5, Zenon
<1>5. TypeOK'
  BY <1>1, <1>3, <1>4, Zenon DEF TypeOK
<1>6. Pointed'
  <2> SUFFICES ASSUME Searching(fsm) PROVE told' => kernel'.ep = current_candidate(fsm)
    BY <1>1, <1>3, SMTT(60) DEF Pointed, Searching, current_candidate
  <2>1. CASE Points(acts, current_candidate(fsm))
    BY <1>2, <1>4, <2>1, CandidateIsEndpoint, SMTT(60) DEF ActTail, TypeOK, Fsms
  <2>2. CASE acts = <<Nudge>> /\ (told => kernel.ep = current_candidate(fsm))
    BY <1>2, <1>4, <2>2, ZenonT(60) DEF ActTail
  <2> QED
    BY <1>1, <2>1, <2>2, SMTT(60) DEF Pointed
<1>7. Evidence'
  BY <1>1, <1>4, Zenon DEF Evidence
<1> QED
  BY <1>1, <1>3, <1>5, <1>6, <1>7, Zenon DEF Bounded, Distinct

\* A refused set_peer_endpoint.
LEMMA ApplyFailsPreserves == PeerInv /\ ApplyFails => PeerInv'
<1> SUFFICES ASSUME PeerInv, ApplyFails PROVE PeerInv'
  BY Zenon
<1> USE DEF PeerInv
<1>1. /\ acts # <<>> /\ ~obs.busy /\ acts' = Tail(acts) /\ told' = FALSE
      /\ changes < MaxChanges /\ changes' = changes + 1
      /\ UNCHANGED <<fsm, kernel, rotAge, lag, hsAfter, obs, hsSince, answered, live>>
  BY Zenon DEF ApplyFails, Spend, clock
<1>2. acts' \in ActLists /\ acts' \in Seq(Actions) /\ acts' \in {<<>>, <<Nudge>>}
  BY <1>1, TailOfActs, ActListsTyped, Zenon DEF ActLists, ActTail
<1>3. TypeOK'
  <2>1. changes' \in 0..MaxChanges
    BY <1>1, TimingAssumption, BudgetAssumption DEF TypeOK
  <2>2. told' \in BOOLEAN
    BY <1>1, ZenonT(60)
  <2> QED
    BY <1>1, <1>2, <2>1, <2>2, Zenon DEF TypeOK
<1>4. Pointed' /\ Evidence'
  BY <1>1, <1>2, SMTT(60) DEF Pointed, Evidence
<1> QED
  BY <1>1, <1>2, <1>3, <1>4, Zenon DEF Bounded, Distinct

\* A handshake with the peer at one of its addresses.
LEMMA HandshakePreserves ==
  ASSUME PeerInv, NEW e \in live, Handshake(e), changes' \in 0..MaxChanges
  PROVE  PeerInv'
<1> USE DEF PeerInv
<1>1. /\ kernel' = [ep |-> e, hsAge |-> 0, heard |-> e] /\ hsAfter' = TRUE /\ hsSince' = TRUE
      /\ UNCHANGED <<fsm, obs, acts, rotAge, lag, live>>
  BY Zenon DEF Handshake, clock
<1>2. told' = (told /\ kernel.ep = e) /\ answered' = (answered \/ LoopIdle)
  BY Zenon DEF Handshake
<1>3. e \in Endpoints /\ kernel' \in Kernel /\ kernel'.ep = e
  BY <1>1, TimingAssumption DEF TypeOK, Kernel
<1>4. /\ hsAfter' \in BOOLEAN /\ hsSince' \in BOOLEAN /\ told' \in BOOLEAN
      /\ answered' \in BOOLEAN
  BY <1>1, <1>2, ZenonT(60)
<1>5. TypeOK'
  BY <1>1, <1>3, <1>4, SMTT(60) DEF TypeOK
<1>6. Pointed'
  BY <1>1, <1>2, <1>3, ZenonT(60) DEF Pointed, Searching, current_candidate
<1>7. Evidence'
  BY <1>1, <1>3, Zenon DEF Evidence
<1> QED
  BY <1>1, <1>5, <1>6, <1>7, Zenon DEF Bounded, Distinct

\* The kernel roams after an authenticated packet.
LEMMA RoamPreserves == PeerInv /\ Roam => PeerInv'
<1> SUFFICES ASSUME PeerInv, Roam PROVE PeerInv'
  BY Zenon
<1> USE DEF PeerInv
<1>1. PICK e \in live : kernel' = [kernel EXCEPT !.ep = e, !.heard = e]
  BY Zenon DEF Roam
<1>2. /\ told' = FALSE
      /\ UNCHANGED <<fsm, hsAfter, hsSince, obs, acts, answered, rotAge, lag, live, changes>>
  BY Zenon DEF Roam, clock, outside
<1>3. e \in Endpoints /\ kernel' \in Kernel /\ kernel'.ep = e /\ kernel'.hsAge = kernel.hsAge
  BY <1>1, ZenonT(60) DEF TypeOK, Kernel
<1>4. told' \in BOOLEAN
  BY <1>2, Zenon
<1>5. TypeOK'
  BY <1>2, <1>3, <1>4, Zenon DEF TypeOK
<1>6. Pointed'
  BY <1>2, Zenon DEF Pointed, Searching, current_candidate
<1>7. Evidence'
  BY <1>2, <1>3, Zenon DEF Evidence
<1> QED
  BY <1>2, <1>5, <1>6, <1>7, Zenon DEF Bounded, Distinct

\* The peer's addresses change.
LEMMA RenumberPreserves == PeerInv /\ RenumberPeer => PeerInv'
<1> SUFFICES ASSUME PeerInv, RenumberPeer PROVE PeerInv'
  BY Zenon
<1> USE DEF PeerInv
<1>1. /\ live' \in SUBSET Endpoints /\ changes < MaxChanges /\ changes' = changes + 1
      /\ UNCHANGED <<fsm, kernel, hsAfter, hsSince, obs, acts, told, answered, rotAge, lag>>
  BY LiveAssumption, Zenon DEF RenumberPeer, Spend, clock
<1>2. changes' \in 0..MaxChanges
  BY <1>1, TimingAssumption, BudgetAssumption, SMTT(30) DEF TypeOK
<1>3. TypeOK'
  BY <1>1, <1>2, SMTT(60) DEF TypeOK
<1>4. Pointed' /\ Evidence'
  BY <1>1, Zenon DEF Pointed, Evidence, Searching, current_candidate
<1> QED
  BY <1>1, <1>3, <1>4, Zenon DEF Bounded, Distinct

\* A unit of time.
LEMMA ElapsePreserves == PeerInv /\ Elapse => PeerInv'
<1> SUFFICES ASSUME PeerInv, Elapse PROVE PeerInv'
  BY Zenon
<1> USE DEF PeerInv
<1> DEFINE age == Min({kernel.hsAge + 1, HandshakeFresh})
<1>1. /\ lag < MaxLag /\ lag' = lag + 1 /\ rotAge' = Min({rotAge + 1, RotateInterval})
      /\ kernel' = [kernel EXCEPT !.hsAge = age]
      /\ UNCHANGED <<fsm, hsAfter, hsSince, obs, acts, told, answered, live, changes>>
  BY Zenon DEF Elapse, outside
<1>2. kernel.hsAge \in 0..HandshakeFresh /\ rotAge \in 0..RotateInterval
  BY Zenon DEF TypeOK, Kernel
<1>3. rotAge' \in 0..RotateInterval /\ lag' \in 0..MaxLag
  <2>1. rotAge + 1 \in Nat /\ RotateInterval \in Nat
    BY <1>2, TimingAssumption
  <2>2. rotAge' \in {rotAge + 1, RotateInterval} /\ rotAge' =< RotateInterval
    BY <1>1, <2>1, MinOfTwo, Zenon
  <2>3. lag' \in 0..MaxLag
    BY <1>1, TimingAssumption, BudgetAssumption, SMTT(30) DEF TypeOK
  <2> QED
    BY <2>1, <2>2, <2>3, SMTT(30)
<1>4. age \in 0..HandshakeFresh /\ (age < HandshakeFresh => kernel.hsAge < HandshakeFresh)
  BY <1>2, MinOfTwo, TimingAssumption
<1> HIDE DEF age
<1>5. kernel' \in Kernel /\ kernel'.ep = kernel.ep /\ kernel'.hsAge = age
  BY <1>1, <1>4, Zenon DEF TypeOK, Kernel
<1>6. TypeOK'
  BY <1>1, <1>3, <1>5, Zenon DEF TypeOK
<1>7. Pointed' /\ Evidence'
  BY <1>1, <1>4, <1>5, Zenon DEF Pointed, Evidence, Searching, current_candidate
<1> QED
  BY <1>1, <1>6, <1>7, Zenon DEF Bounded, Distinct

-----------------------------------------------------------------------------
\* Every step of the composition preserves the invariant.
LEMMA StepPreserves == PeerInv /\ [PeerNext]_peerVars => PeerInv'
<1> SUFFICES ASSUME PeerInv, [PeerNext]_peerVars PROVE PeerInv'
  BY Zenon
<1>1. CASE ReadStatus \/ TickPeer \/ Kick \/ SetCandidates \/ RetryFrom
  BY <1>1, ReadStatusPreserves, TickPreserves, KickPreserves, SetCandidatesPreserves,
     RetryFromPreserves, Zenon
<1>2. CASE ApplyAction \/ ApplyFails
  BY <1>2, ApplyActionPreserves, ApplyFailsPreserves, Zenon
<1>3. CASE InboundHandshake \/ MidTickHandshake \/ OutboundHandshake
  <2>1. changes' \in 0..MaxChanges
    BY <1>3, BudgetAssumption
    DEF InboundHandshake, MidTickHandshake, OutboundHandshake, Spend, PeerInv, TypeOK
  <2>2. \E e \in live : Handshake(e)
    BY <1>3, Zenon DEF InboundHandshake, MidTickHandshake, OutboundHandshake
  <2> QED
    BY <2>1, <2>2, HandshakePreserves, Zenon
<1>4. CASE Roam \/ RenumberPeer \/ Elapse
  BY <1>4, RoamPreserves, RenumberPreserves, ElapsePreserves, Zenon
<1>5. CASE UNCHANGED peerVars
  <2>1. TypeOK'
    BY <1>5, Zenon DEF peerVars, PeerInv, TypeOK
  <2>2. Pointed'
    BY <1>5, Zenon DEF peerVars, PeerInv, Pointed
  <2>3. Evidence'
    BY <1>5, Zenon DEF peerVars, PeerInv, Evidence
  <2> QED
    BY <1>5, <2>1, <2>2, <2>3, SMTT(60) DEF peerVars, PeerInv, Bounded, Distinct
<1> QED
  BY <1>1, <1>2, <1>3, <1>4, <1>5, Zenon DEF PeerNext

\* The invariant holds in every reachable state.
THEOREM Invariant == PeerSpec => []PeerInv
<1>1. PeerInit => PeerInv
  BY InitEstablishes, Zenon
<1>2. PeerInv /\ [PeerNext]_peerVars => PeerInv'
  BY StepPreserves, Zenon
<1> QED
  BY <1>1, <1>2, PTL DEF PeerSpec

\* The state of the machine, its driver and the kernel keeps its type.
THEOREM TypeCorrect == PeerSpec => []TypeOK
<1>1. PeerInv => TypeOK
  BY Zenon DEF PeerInv
<1> QED
  BY <1>1, Invariant, PTL

\* For all candidate lists, fsm.rs never indexes past the end of its candidates.
THEOREM IndexAlwaysInBounds == PeerSpec => []IndexInBounds
<1>1. PeerInv => IndexInBounds
  BY Zenon DEF PeerInv, IndexInBounds, Bounded
<1> QED
  BY <1>1, Invariant, PTL

\* For all candidate lists, once apply_actions is done the kernel probes the
\* machine's candidate, unless it has roamed or refused the call.
THEOREM KernelAlwaysProbesCandidate == PeerSpec => []KernelProbesCandidate
<1>1. PeerInv => KernelProbesCandidate
  BY DEF PeerInv, KernelProbesCandidate, Pointed, Points, Searching
<1> QED
  BY <1>1, Invariant, PTL

\* For all candidate lists and timings, a tick never overlooks a fresh handshake
\* that answered the current candidate: no kick, list change or rotation can push
\* last_transition past it.
THEOREM NoHandshakeLost == PeerSpec => NoLostHandshake
<1> DEFINE A == obs.busy /\ ~obs'.busy /\ fsm.state.tag = "Probing" /\ obs.answered /\ obs.fresh
                  => fsm'.state.tag = "Connected"
<1>1. PeerInv /\ [PeerNext]_peerVars => [A]_peerVars
  <2> SUFFICES ASSUME PeerInv, PeerNext, obs.busy, ~obs'.busy, fsm.state.tag = "Probing",
                      obs.answered, obs.fresh
               PROVE  fsm'.state.tag = "Connected"
    BY SMTT(60)
  <2>1. TickPeer
    <3>1. acts = <<>>
      BY Zenon DEF PeerInv
    <3> QED
      BY <3>1, Zenon DEF PeerNext, ReadStatus, Kick, SetCandidates, RetryFrom, ApplyAction, ApplyFails,
                  InboundHandshake, MidTickHandshake, OutboundHandshake, Handshake, Roam,
                  RenumberPeer, Elapse, LoopIdle
  <2>2. obs.ep \in Endpoints /\ obs.after /\ obs.ep # NoEndpoint
    BY NoEndpointAssumption, SMTT(60) DEF PeerInv, Evidence
  <2>3. fsm' = Connect(fsm, obs).fsm
    BY <2>1, <2>2, ZenonT(60) DEF TickPeer, Perform, tick, TickProbing, Proves
  <2>4. fsm \in Fsms /\ Bounded(fsm)
    BY Zenon DEF PeerInv, TypeOK, Fsms
  <2> QED
    BY <2>2, <2>3, <2>4, ConnectSound, Zenon
<1> QED
  BY <1>1, Invariant, StepPreserves, PTL DEF PeerSpec, NoLostHandshake

-----------------------------------------------------------------------------
(***************************************************************************)
(* RelayNet.  The relay keeps the promise of RelayService, no forwarding task *)
(* outlives its session and nobody has a session that no member asked for:  *)
(* for all networks, limits and bounds.                                     *)
(***************************************************************************)

\* The shapes of the records that the table, the tasks and the clients hold.
TableShape(t) ==
  /\ DOMAIN t = Pairs
  /\ \A k \in Pairs : DOMAIN t[k] = {"port", "addrs", "age"} /\ t[k].port \in Ports \cup {NoPort}
FwdShape ==
  /\ DOMAIN fwd = Ports
  /\ \A p \in Ports : DOMAIN fwd[p] = {"key", "queue", "addrs"}
CliShape ==
  /\ DOMAIN cli = Links
  /\ \A l \in Links : DOMAIN cli[l] = {"want", "busy", "told"}
Shape == TableShape(table) /\ FwdShape /\ CliShape

\* NoOrphanForwarder of a table and its tasks, with the pair of the task in the table.
Owned(t, w) == \A p \in Ports : w[p] # NoTask => w[p].key \in Pairs /\ t[w[p].key].port = p

IInv == Shape /\ Owned(table, fwd)

-----------------------------------------------------------------------------
\* A step at which every pair keeps its port, loses it or gets its first one, and
\* whoever is told something is told the port of the pair, is one of the service.
LEMMA ServeStep ==
  ASSUME \A k \in Pairs : \/ table'[k].port \in {table[k].port, NoPort}
                          \/ table[k].port = NoPort /\ table'[k].port \in Ports,
         \A l \in Links : \/ cli'[l].told = cli[l].told
                          \/ cli'[l].told = table'[PairOf(l)].port /\ cli'[l].told # NoPort
  PROVE  [Service!Next]_(Service!vars)
<1>1. \A l \in Links : PairOf(l) \in Pairs
  BY Zenon DEF Pairs
<1>2. Service!Serve
  BY <1>1, Zenon DEF Service!Serve, Service!May
<1> QED
  BY <1>2, Zenon DEF Service!Next

\* A step that leaves the table and what the sides believe is a stutter of the
\* service.
LEMMA Stutters ==
  ASSUME UNCHANGED <<table, cli>>
  PROVE  [Service!Next]_(Service!vars)
BY Zenon DEF Service!vars

\* prune ends sessions and their tasks, and changes nothing else.
LEMMA PruneSound ==
  ASSUME IInv
  PROVE  /\ TableShape(prune.table) /\ Owned(prune.table, prune.fwd)
         /\ \A k \in Pairs : prune.table[k] \in {table[k], NoSession}
         /\ DOMAIN prune.fwd = Ports
         /\ \A p \in Ports : prune.fwd[p] \in {fwd[p], NoTask}
<1>1. prune.table = [k \in Pairs |-> IF k \in Stale THEN NoSession ELSE table[k]]
  BY Zenon DEF prune
<1>2. prune.fwd = [p \in Ports |-> IF fwd[p].key \in Stale THEN NoTask ELSE fwd[p]]
  BY Zenon DEF prune, close
<1>3. TableShape(prune.table)
  BY <1>1, SMTT(30) DEF IInv, Shape, TableShape, NoSession
<1>4. Owned(prune.table, prune.fwd)
  BY <1>1, <1>2 DEF IInv, Owned
<1> QED
  BY <1>1, <1>2, <1>3, <1>4, Zenon

\* Ending sessions together with their tasks (PruneTick, Refuse).
LEMMA PruneKeeps ==
  ASSUME IInv, table' = prune.table, fwd' = prune.fwd, cli' = cli
  PROVE  IInv' /\ [Service!Next]_(Service!vars)
<1>1. TableShape(table)' /\ Owned(table, fwd)'
  BY PruneSound, Zenon DEF TableShape, Owned
<1>2. FwdShape' /\ CliShape'
  BY PruneSound, Zenon DEF IInv, Shape, FwdShape, CliShape, NoTask
<1>3. \A k \in Pairs : table'[k].port \in {table[k].port, NoPort}
  BY PruneSound DEF NoSession
<1> QED
  BY <1>1, <1>2, <1>3, ServeStep, Zenon DEF IInv, Shape

\* The answer carries the port, and the two nodes, of the request it answers.
LEMMA AckSays ==
  ASSUME NEW w, NEW p
  PROVE  LET a == decode(Ack(decode(w), p))
         IN  a.port = p /\ a.self = decode(w).self /\ a.peer = decode(w).peer
<1> DEFINE f == decode(w)
           g == [f EXCEPT !.kind = "RegisterAck", !.port = p]
           body == <<Magic, Version, as_u8[g.kind], g.port, g.self, g.peer>>
           v == Append(body, Mac(NetworkKey, body))
<1>1. g.port = p /\ g.self = f.self /\ g.peer = f.peer
  BY Zenon DEF decode
<1>2. v[4] = g.port /\ v[5] = g.self /\ v[6] = g.peer
  <2> HIDE DEF g
  <2> QED
    OBVIOUS
<1>3. Ack(f, p) = v
  BY Zenon DEF Ack, encode
<1> QED
  BY <1>1, <1>2, <1>3, Zenon DEF decode

\* Register, with a session there already or with a new one.
LEMMA RegisterKeeps ==
  ASSUME IInv, NEW w, session_key(decode(w)) \in Pairs, NEW src, NEW heard \in BOOLEAN,
         Register(decode(w), src, heard)
  PROVE  IInv' /\ [Service!Next]_(Service!vars)
<1> DEFINE f == decode(w)
           k == session_key(f)
<1>1. PICK p \in Ports :
         /\ IF Known(f) THEN p = table[k].port ELSE ~Running(p)
         /\ LET t == IF Known(f) THEN table
                     ELSE [prune.table EXCEPT ![k] = [NoSession EXCEPT !.port = p]]
                v == IF Known(f) THEN fwd
                     ELSE [prune.fwd EXCEPT ![p] = [NoTask EXCEPT !.key = k]]
                s == touch_addr(t[k], f, src)
            IN  /\ table' = [t EXCEPT ![k] = s]
                /\ fwd' = IF v[p].key = k THEN [v EXCEPT ![p] = try_send(v[p], s.addrs)] ELSE v
         /\ IF heard THEN AckArrives(Ack(f, p)) ELSE UNCHANGED cli
  BY Zenon DEF Register
<1> DEFINE t == IF Known(f) THEN table
                ELSE [prune.table EXCEPT ![k] = [NoSession EXCEPT !.port = p]]
           v == IF Known(f) THEN fwd
                ELSE [prune.fwd EXCEPT ![p] = [NoTask EXCEPT !.key = k]]
           s == touch_addr(t[k], f, src)
<1>2. /\ k \in Pairs /\ NoPort \notin Ports
      /\ TableShape(table) /\ FwdShape /\ CliShape /\ Owned(table, fwd)
  BY RelayNobody, Zenon DEF IInv, Shape
<1>3. /\ TableShape(t) /\ t[k].port = p
      /\ \A j \in Pairs \ {k} : t[j].port \in {table[j].port, NoPort}
      /\ table[k].port \in {p, NoPort}
      /\ DOMAIN v = Ports /\ \A q \in Ports : DOMAIN v[q] = {"key", "queue", "addrs"}
      /\ Owned(t, v)
  <2>1. CASE Known(f)
    BY <1>1, <1>2, <2>1, Zenon DEF FwdShape
  <2>2. CASE ~Known(f)
    <3>1. table[k] = NoSession /\ fwd[p] = NoTask
      BY <1>1, <2>2, Zenon DEF Known, Running
    <3>2. prune.table[k] = NoSession /\ prune.fwd[p] = NoTask
      BY <1>2, <3>1, PruneSound, Zenon
    <3>3. /\ t = [prune.table EXCEPT ![k] = [NoSession EXCEPT !.port = p]]
          /\ v = [prune.fwd EXCEPT ![p] = [NoTask EXCEPT !.key = k]]
      BY <2>2, Zenon
    <3> HIDE DEF t, v, k
    <3>4. /\ DOMAIN t = Pairs /\ t[k] = [NoSession EXCEPT !.port = p]
          /\ \A j \in Pairs \ {k} : t[j] = prune.table[j]
      BY <1>2, <3>3, PruneSound, Zenon DEF TableShape
    <3>5. /\ DOMAIN v = Ports /\ v[p] = [NoTask EXCEPT !.key = k]
          /\ \A q \in Ports \ {p} : v[q] = prune.fwd[q]
      BY <3>3, PruneSound, Zenon
    <3>6. TableShape(t) /\ t[k].port = p
      BY <3>4, PruneSound DEF TableShape, NoSession
    <3>7. \A q \in Ports : DOMAIN v[q] = {"key", "queue", "addrs"}
      BY <1>2, <3>5, PruneSound, Zenon DEF FwdShape, NoTask
    <3>8. ASSUME NEW q \in Ports, v[q] # NoTask PROVE v[q].key \in Pairs /\ t[v[q].key].port = q
      <4>1. CASE q = p
        BY <1>2, <3>5, <3>6, <4>1, Zenon DEF NoTask
      <4>2. CASE q # p
        <5>1. v[q] = prune.fwd[q] /\ v[q].key \in Pairs /\ prune.table[v[q].key].port = q
          BY <3>5, <3>8, <4>2, PruneSound, Zenon DEF Owned
        <5>2. v[q].key # k
          <6>1. NoSession.port = NoPort /\ q # NoPort
            BY <1>2, Zenon DEF NoSession
          <6> QED
            BY <3>2, <5>1, <6>1, Zenon
        <5> QED
          BY <3>4, <5>1, <5>2, Zenon
      <4> QED
        BY <4>1, <4>2, Zenon
    <3>9. \A j \in Pairs \ {k} : t[j].port \in {table[j].port, NoPort}
      BY <3>4, PruneSound, SMTT(30) DEF NoSession
    <3>10. table[k].port = NoPort
      BY <3>1 DEF NoSession
    <3> QED
      BY <3>5, <3>6, <3>7, <3>8, <3>9, <3>10, Zenon DEF Owned
  <2> QED
    BY <2>1, <2>2, Zenon
<1>4. /\ table' = [t EXCEPT ![k] = s]
      /\ fwd' = IF v[p].key = k THEN [v EXCEPT ![p] = try_send(v[p], s.addrs)] ELSE v
      /\ IF heard THEN AckArrives(Ack(f, p)) ELSE cli' = cli
  BY <1>1, Zenon
<1>5. s.port = t[k].port /\ DOMAIN s = {"port", "addrs", "age"}
  <2> HIDE DEF t
  <2> QED
    BY <1>2, <1>3, Zenon DEF touch_addr, TableShape
<1>6. /\ try_send(v[p], s.addrs).key = v[p].key
      /\ DOMAIN try_send(v[p], s.addrs) = {"key", "queue", "addrs"}
  <2> HIDE DEF v, s
  <2> QED
    BY <1>3, Zenon DEF try_send
<1> HIDE DEF t, v, s, k
<1>7. TableShape(table') /\ \A j \in Pairs : table'[j].port = t[j].port
  BY <1>2, <1>3, <1>4, <1>5, Zenon DEF TableShape
<1>8. /\ DOMAIN fwd' = Ports
      /\ \A q \in Ports : /\ DOMAIN fwd'[q] = {"key", "queue", "addrs"}
                          /\ fwd'[q].key = v[q].key
                          /\ q # p \/ v[p].key # k => fwd'[q] = v[q]
  BY <1>3, <1>4, <1>6, ZenonT(30)
<1>9. Owned(table', fwd')
  <2> SUFFICES ASSUME NEW q \in Ports, fwd'[q] # NoTask
               PROVE  fwd'[q].key \in Pairs /\ table'[fwd'[q].key].port = q
    BY Zenon DEF Owned
  <2>1. CASE q = p /\ v[p].key = k
    BY <1>2, <1>3, <1>7, <1>8, <2>1, ZenonT(30)
  <2>2. CASE ~(q = p /\ v[p].key = k)
    <3>1. fwd'[q] = v[q]
      BY <1>8, <2>2, Zenon
    <3>2. v[q].key \in Pairs /\ t[v[q].key].port = q
      BY <1>3, <3>1, Zenon DEF Owned
    <3> QED
      BY <1>7, <3>1, <3>2, Zenon
  <2> QED
    BY <2>1, <2>2, Zenon
<1>10. CliShape' /\ \A l \in Links : \/ cli'[l].told = cli[l].told
                                     \/ PairOf(l) = k /\ cli'[l].told = p
  <2>1. CASE ~heard
    BY <1>2, <1>4, <2>1, Zenon DEF CliShape
  <2>2. CASE heard
    <3>1. PICK l \in Links :
             /\ Matches(Ack(f, p), l)
             /\ cli' = [cli EXCEPT ![l].busy = FALSE, ![l].told = decode(Ack(f, p)).port]
      BY <1>4, <2>2, Zenon DEF AckArrives
    <3>2. decode(Ack(f, p)).port = p /\ <<f.self, f.peer>> = l
      BY <3>1, AckSays, Zenon DEF Matches
    <3>3. l[1] = f.self /\ l[2] = f.peer
      BY <3>2, Zenon
    <3>4. PairOf(l) = k
      BY <3>3, Zenon DEF PairOf, session_key, k
    <3>5. cli' = [cli EXCEPT ![l].busy = FALSE, ![l].told = p]
      BY <3>1, <3>2, Zenon
    <3> QED
      BY <1>2, <3>4, <3>5, Zenon DEF CliShape
  <2> QED
    BY <2>1, <2>2, Zenon
<1>11. IInv'
  <2>1. TableShape(table)'
    BY <1>7, Zenon DEF TableShape
  <2>2. FwdShape'
    BY <1>8, Zenon DEF FwdShape
  <2>3. Owned(table, fwd)'
    BY <1>9, Zenon DEF Owned
  <2> QED
    BY <1>10, <2>1, <2>2, <2>3, Zenon DEF IInv, Shape
<1>12. \A j \in Pairs : \/ table'[j].port \in {table[j].port, NoPort}
                        \/ table[j].port = NoPort /\ table'[j].port \in Ports
  BY <1>3, <1>7, Zenon
<1>13. \A l \in Links : \/ cli'[l].told = cli[l].told
                        \/ cli'[l].told = table'[PairOf(l)].port /\ cli'[l].told # NoPort
  BY <1>2, <1>3, <1>7, <1>10, Zenon
<1> QED
  BY <1>11, <1>12, <1>13, ServeStep, Zenon

\* serve: whatever is accepted from the control socket, heard or not.
LEMMA HandleKeeps ==
  ASSUME IInv, NEW m, session_key(decode(m.wire)) \in Pairs, NEW heard \in BOOLEAN,
         Handle(m, heard)
  PROVE  IInv' /\ [Service!Next]_(Service!vars)
<1> DEFINE f == decode(m.wire)
           k == session_key(f)
<1>1. CASE Refuse
  BY <1>1, PruneKeeps, Zenon DEF Refuse
<1>2. CASE Register(f, m.src, heard)
  BY <1>2, RegisterKeeps, Zenon
<1>3. CASE RemoveSession(f)
  <2>1. /\ table' = [table EXCEPT ![k] = NoSession] /\ cli' = cli
        /\ fwd' = [p \in Ports |-> IF fwd[p].key \in {k} THEN NoTask ELSE fwd[p]]
    BY <1>3, Zenon DEF RemoveSession, close
  <2> HIDE DEF k
  <2>2. TableShape(table)'
    BY <2>1, Zenon DEF IInv, Shape, TableShape, NoSession
  <2>3. FwdShape' /\ CliShape'
    BY <2>1, Zenon DEF IInv, Shape, FwdShape, CliShape, NoTask
  <2>4. Owned(table, fwd)'
    BY <2>1, Zenon DEF IInv, Shape, TableShape, Owned
  <2>5. \A j \in Pairs : table'[j].port \in {table[j].port, NoPort}
    BY <2>1, Zenon DEF IInv, Shape, TableShape, NoSession
  <2> QED
    BY <2>1, <2>2, <2>3, <2>4, <2>5, ServeStep, Zenon DEF IInv, Shape
<1> QED
  BY <1>1, <1>2, <1>3, Zenon DEF Handle

\* The pair of a request that arrives, from a client or from somebody else, is
\* one of the pairs of the model.
LEMMA PairsOfRequests ==
  /\ \A l \in Links : \A m \in InFlight(l) : session_key(decode(m.wire)) \in Pairs
  /\ \A m \in Strays : Accepts(m) => session_key(decode(m.wire)) \in Pairs
<1>1. ASSUME NEW l \in Links, NEW m \in InFlight(l) PROVE session_key(decode(m.wire)) \in Pairs
  <2>1. m.wire[5] = l[1] /\ m.wire[6] = l[2]
    BY <1>1 DEF InFlight, Sender
  <2>2. session_key(decode(m.wire)) = PairOf(l)
    BY <2>1, Zenon DEF session_key, decode, PairOf
  <2> QED
    BY <2>2, Zenon DEF Pairs
<1>2. ASSUME NEW m \in Strays, Accepts(m) PROVE session_key(decode(m.wire)) \in Pairs
  <2>1. Len(m.wire) >= FrameLen
    BY <1>2 DEF Accepts, check, FrameLen
  <2> QED
    BY <2>1, Zenon DEF Pairs, Whole
<1> QED
  BY <1>1, <1>2, Zenon

\* The client's own steps: a registration goes out, times out or is wanted
\* again, and an Unregister makes its side forget the port.
LEMMA ClientKeeps ==
  ASSUME IInv, NEW l \in Links, Client(l)
  PROVE  IInv' /\ [Service!Next]_(Service!vars)
<1>1. table' = table /\ fwd' = fwd
  BY Zenon DEF Client, StartRegister, Retry, Round, TimeOut, Unregister, WantAgain, server
<1>2. CASE Unregister(l)
  <2>1. cli' = [cli EXCEPT ![l].want = FALSE, ![l].told = NoPort]
    BY <1>2, Zenon DEF Unregister
  <2>2. DOMAIN cli = Links /\ \A j \in Links : DOMAIN cli[j] = {"want", "busy", "told"}
    BY Zenon DEF IInv, Shape, CliShape
  <2>3. CliShape'
    BY <2>1, <2>2, Zenon DEF CliShape
  <2>4. Service!Forget(l)
    BY <1>1, <2>1, <2>2, Zenon DEF Service!Forget
  <2> QED
    BY <1>1, <2>3, <2>4, Zenon DEF IInv, Shape, TableShape, FwdShape, Owned, Service!Next
<1>3. CASE ~Unregister(l)
  <2>1. \E b \in BOOLEAN : cli' = [cli EXCEPT ![l].busy = b] \/ cli' = [cli EXCEPT ![l].want = b]
    BY <1>3, Zenon DEF Client, StartRegister, Retry, Round, TimeOut, WantAgain
  <2>2. CliShape' /\ \A j \in Links : cli'[j].told = cli[j].told
    BY <2>1 DEF IInv, Shape, CliShape
  <2> QED
    BY <1>1, <2>2, ServeStep, Zenon DEF IInv, Shape, TableShape, FwdShape, Owned
<1> QED
  BY <1>2, <1>3, Zenon

\* Every step of the relay and of its clients keeps the invariant and is a step,
\* or a stutter, of the service.
LEMMA NextKeeps ==
  ASSUME IInv, [Next]_vars
  PROVE  IInv' /\ [Service!Next]_(Service!vars)
<1>1. ASSUME NEW l \in Links, Client(l) PROVE IInv' /\ [Service!Next]_(Service!vars)
  BY <1>1, ClientKeeps, Zenon
<1>2. ASSUME NEW l \in Links, NEW heard \in BOOLEAN, ServerReceives(l, heard)
      PROVE  IInv' /\ [Service!Next]_(Service!vars)
  BY <1>2, HandleKeeps, PairsOfRequests, Zenon DEF ServerReceives
<1>3. ASSUME NEW p \in Ports, TakeUpdate(p) PROVE IInv' /\ [Service!Next]_(Service!vars)
  <2>1. /\ table' = table /\ cli' = cli /\ fwd[p].queue # <<>>
        /\ fwd' = [fwd EXCEPT ![p].addrs = Head(fwd[p].queue), ![p].queue = Tail(@)]
    BY <1>3, Zenon DEF TakeUpdate
  <2>2. FwdShape' /\ \A q \in Ports : fwd'[q].key = fwd[q].key /\ (q # p => fwd'[q] = fwd[q])
    BY <2>1, Zenon DEF IInv, Shape, FwdShape
  <2>3. fwd[p] # NoTask
    BY <2>1 DEF NoTask
  <2>4. Owned(table, fwd)'
    BY <2>1, <2>2, <2>3, Zenon DEF IInv, Owned
  <2> QED
    BY <2>1, <2>2, <2>4, Stutters, Zenon DEF IInv, Shape, TableShape, CliShape
<1>4. ASSUME NEW p \in Ports, ForwarderFails(p) PROVE IInv' /\ [Service!Next]_(Service!vars)
  <2>1. table' = table /\ cli' = cli /\ fwd' = [fwd EXCEPT ![p] = NoTask]
    BY <1>4, Zenon DEF ForwarderFails
  <2>2. FwdShape' /\ Owned(table, fwd)'
    BY <2>1, Zenon DEF IInv, Shape, FwdShape, Owned, NoTask
  <2> QED
    BY <2>1, <2>2, Stutters, Zenon DEF IInv, Shape, TableShape, CliShape
<1>5. CASE ServerReceivesStray
  BY <1>5, HandleKeeps, PairsOfRequests, Zenon DEF ServerReceivesStray
<1>6. CASE PruneTick
  BY <1>6, PruneKeeps, Zenon DEF PruneTick
<1>7. CASE Restart
  <2>1. table' = [k \in Pairs |-> NoSession] /\ fwd' = [p \in Ports |-> NoTask] /\ cli' = cli
    BY <1>7, Zenon DEF Restart
  <2>2. IInv'
    BY <2>1, Zenon DEF IInv, Shape, TableShape, FwdShape, CliShape, Owned, NoSession, NoTask
  <2>3. \A k \in Pairs : table'[k].port = NoPort
    BY <2>1, Zenon DEF NoSession
  <2> QED
    BY <2>1, <2>2, <2>3, ServeStep, Zenon
<1>8. CASE Tick
  <2>1. /\ fwd' = fwd /\ cli' = cli
        /\ table' = [k \in Pairs |-> IF k \in Sessions
                                     THEN [table[k] EXCEPT !.age = Min({@ + 1, SessionTtl + 1})]
                                     ELSE NoSession]
    BY <1>8, Zenon DEF Tick
  <2>2. TableShape(table)' /\ \A k \in Pairs : table'[k].port = table[k].port
    BY <2>1, Zenon DEF IInv, Shape, TableShape, Sessions, NoSession
  <2>3. Owned(table, fwd)'
    BY <2>1, <2>2, Zenon DEF IInv, Owned
  <2> QED
    BY <2>1, <2>2, <2>3, ServeStep, Zenon DEF IInv, Shape, FwdShape, CliShape
<1>9. CASE Lose \/ Renumber \/ UNCHANGED vars
  <2>1. UNCHANGED <<table, fwd, cli>>
    BY <1>9, Zenon DEF Lose, Renumber, server, vars
  <2> QED
    BY <2>1, Stutters, Zenon DEF IInv, Shape, TableShape, FwdShape, CliShape, Owned
<1> QED
  BY <1>1, <1>2, <1>3, <1>4, <1>5, <1>6, <1>7, <1>8, <1>9, Zenon DEF Next

\* The relay starts without sessions, tasks and beliefs.
LEMMA InitSound == Init => IInv /\ Service!Init
<1> SUFFICES ASSUME Init PROVE IInv /\ Service!Init
  BY Zenon
<1>1. /\ DOMAIN table = Pairs /\ DOMAIN fwd = Ports /\ DOMAIN cli = Links
      /\ \A k \in Pairs : table[k] = NoSession
      /\ \A p \in Ports : fwd[p] = NoTask
      /\ \A l \in Links : cli[l] = [want |-> TRUE, busy |-> FALSE, told |-> NoPort]
  BY Zenon DEF Init
<1>2. /\ DOMAIN NoSession = {"port", "addrs", "age"} /\ NoSession.port = NoPort
      /\ DOMAIN NoTask = {"key", "queue", "addrs"}
  BY Zenon DEF NoSession, NoTask
<1>3. \A l \in Links : DOMAIN cli[l] = {"want", "busy", "told"} /\ cli[l].told = NoPort
  BY <1>1
<1>4. IInv
  BY <1>1, <1>2, <1>3, Zenon DEF IInv, Shape, TableShape, FwdShape, CliShape, Owned
<1>5. Service!Init
  BY <1>1, <1>2, <1>3, Zenon DEF Service!Init
<1> QED
  BY <1>4, <1>5, Zenon

\* serve, prune and forward implement what the daemons take from a relay: one
\* port per pair as long as its session lives, told only to the pair itself.
THEOREM RelayImplementsService == Spec => KeepsPromise
<1>1. Init => IInv /\ Service!Init
  BY InitSound, Zenon
<1>2. IInv /\ [Next]_vars => IInv' /\ [Service!Next]_(Service!vars)
  BY NextKeeps, Zenon
<1> QED
  BY <1>1, <1>2, PTL DEF Spec, KeepsPromise, Service!Spec

\* No forwarding task is left without its session, after any sequence of
\* registrations, expiries, Unregisters, failures and restarts.
THEOREM NoForwarderOrphaned == Spec => []NoOrphanForwarder
<1>1. Init => IInv
  BY InitSound, Zenon
<1>2. IInv /\ [Next]_vars => IInv'
  BY NextKeeps, Zenon
<1>3. IInv => NoOrphanForwarder
  BY Zenon DEF IInv, Owned, NoOrphanForwarder, Running
<1> QED
  BY <1>1, <1>2, <1>3, PTL DEF Spec

-----------------------------------------------------------------------------
\* The table, the tasks, the requests and the addresses, with their types and limits.
Where == DataAddrs \X DataAddrs
SessionRecs == [port : Ports \cup {NoPort}, addrs : Where, age : 0..SessionTtl + 1]
TaskOK(w) == w.queue \in Seq(Where) /\ Len(w.queue) =< ChannelSize
Asked(k) == \/ \E l \in Links : l[1] \in Allowlist /\ PairOf(l) = k
            \/ \E m \in Whole : Genuine(m) /\ session_key(decode(m.wire)) = k
Homely(m) == DOMAIN m = {"wire", "src", "age"} /\ m.wire[4] = WgPort /\ \E n \in Nodes : m.src \in Homes[n]
Live(t) == {k \in Pairs : t[k] # NoSession}

ServerSound(t, w) ==
  /\ t \in [Pairs -> SessionRecs]
  /\ \A p \in Ports : TaskOK(w[p])
  /\ Cardinality(Live(t)) =< MaxSessions
  /\ \A k \in Live(t) : Asked(k)
NetSound ==
  /\ DOMAIN ip = Nodes /\ \A n \in Nodes : ip[n] \in Homes[n]
  /\ \A m \in net : Homely(m)
RelaySound == ServerSound(table, fwd) /\ NetSound /\ changes \in 0..MaxChanges

\* Fewer sessions, or one more, in a table.
LEMMA CountSessions ==
  ASSUME NEW S, NEW T, S \subseteq Pairs, T \subseteq Pairs, S \subseteq T
  PROVE  /\ Cardinality(S) \in Nat /\ Cardinality(S) =< Cardinality(T)
         /\ \A k : Cardinality(S \cup {k}) =< Cardinality(S) + 1
<1>1. IsFiniteSet(S) /\ IsFiniteSet(T)
  BY RelayPairs, FS_Subset, Zenon
<1>2. Cardinality(S) \in Nat /\ Cardinality(S) =< Cardinality(T)
  BY <1>1, FS_CardinalityType, FS_Subset, Zenon
<1>3. ASSUME NEW k PROVE Cardinality(S \cup {k}) =< Cardinality(S) + 1
  BY <1>1, <1>2, FS_AddElement, SMTT(30)
<1> QED
  BY <1>2, <1>3, Zenon

\* Addresses that a request brings are addresses of the model.
LEMMA TouchSound ==
  ASSUME NEW s \in SessionRecs, NEW f, NEW src, Addr(src, f.port) \in DataAddrs
  PROVE  LET t == touch_addr(s, f, src)
         IN  t \in SessionRecs /\ t.addrs \in Where /\ t.port = s.port
<1> DEFINE d == side(f)
           x == Addr(src, f.port)
           a == [s.addrs EXCEPT ![d] = x]
<1>1. d \in {1, 2}
  BY Zenon DEF side
<1>2. x \in DataAddrs
  BY Zenon
<1>3. s.addrs \in Where /\ s.port \in Ports \cup {NoPort} /\ DOMAIN s = {"port", "addrs", "age"}
  BY Zenon DEF SessionRecs
<1> HIDE DEF d, x
<1>4. a \in Where
  BY <1>1, <1>2, <1>3, SMTT(30) DEF Where
<1> HIDE DEF a
<1>5. touch_addr(s, f, src) = [s EXCEPT !.addrs = a, !.age = 0]
  BY <1>3, Zenon DEF touch_addr, a, d, x
<1>6. 0 \in 0..SessionTtl + 1
  BY RelayTimes
<1> QED
  BY <1>3, <1>4, <1>5, <1>6, Zenon DEF SessionRecs

\* try_send never lets a channel grow past its capacity.
LEMMA SendSound ==
  ASSUME NEW w, TaskOK(w), DOMAIN w = {"key", "queue", "addrs"}, NEW a \in Where
  PROVE  TaskOK(try_send(w, a))
<1>1. CASE Len(w.queue) < ChannelSize
  <2>1. try_send(w, a).queue = Append(w.queue, a)
    BY <1>1, Zenon DEF try_send
  <2> QED
    BY <1>1, <2>1, RelayBounds DEF TaskOK
<1>2. CASE ~(Len(w.queue) < ChannelSize)
  BY <1>2, Zenon DEF try_send
<1> QED
  BY <1>1, <1>2, Zenon

\* The absence of a session has a session's shape.
LEMMA NoSessionFits == NoSession \in SessionRecs
<1>1. NoAddr \in DataAddrs
  BY Zenon DEF DataAddrs
<1>2. <<NoAddr, NoAddr>> \in Where
  BY <1>1, Zenon DEF Where
<1>3. 0 \in 0..SessionTtl + 1
  BY RelayTimes
<1> QED
  BY <1>2, <1>3, Zenon DEF NoSession, SessionRecs

\* prune leaves fewer sessions.
LEMMA PruneServer ==
  ASSUME IInv, ServerSound(table, fwd)
  PROVE  /\ ServerSound(prune.table, prune.fwd)
         /\ Live(prune.table) = Sessions \ Stale
         /\ TaskOK(NoTask) /\ NoSession \in SessionRecs
<1>1. prune.table = [k \in Pairs |-> IF k \in Stale THEN NoSession ELSE table[k]]
  BY Zenon DEF prune
<1>2. TaskOK(NoTask)
  BY RelayBounds DEF TaskOK, NoTask
<1>3. NoSession \in SessionRecs
  BY NoSessionFits
<1>4. prune.table \in [Pairs -> SessionRecs]
  BY <1>1, <1>3, Zenon DEF ServerSound
<1>5. \A p \in Ports : TaskOK(prune.fwd[p])
  BY <1>2, PruneSound, Zenon DEF ServerSound
<1>6. Live(prune.table) = Sessions \ Stale /\ Live(prune.table) \subseteq Live(table)
      /\ Live(table) \subseteq Pairs
  BY <1>1, Zenon DEF Live, Sessions
<1>7. Cardinality(Live(prune.table)) =< MaxSessions
  BY <1>6, CountSessions, RelayBounds DEF ServerSound
<1> QED
  BY <1>2, <1>3, <1>4, <1>5, <1>6, <1>7, Zenon DEF ServerSound

\* Register makes a session only for a pair that was asked for, within the limit.
LEMMA RegisterSound ==
  ASSUME IInv, ServerSound(table, fwd), NEW w, session_key(decode(w)) \in Pairs,
         Asked(session_key(decode(w))), NEW src, Addr(src, decode(w).port) \in DataAddrs,
         NEW heard \in BOOLEAN, ~Full(decode(w)), Register(decode(w), src, heard)
  PROVE  ServerSound(table', fwd')
<1> DEFINE f == decode(w)
           k == session_key(f)
<1>1. PICK p \in Ports :
         /\ IF Known(f) THEN p = table[k].port ELSE ~Running(p)
         /\ LET t == IF Known(f) THEN table
                     ELSE [prune.table EXCEPT ![k] = [NoSession EXCEPT !.port = p]]
                v == IF Known(f) THEN fwd
                     ELSE [prune.fwd EXCEPT ![p] = [NoTask EXCEPT !.key = k]]
                s == touch_addr(t[k], f, src)
            IN  /\ table' = [t EXCEPT ![k] = s]
                /\ fwd' = IF v[p].key = k THEN [v EXCEPT ![p] = try_send(v[p], s.addrs)] ELSE v
  BY Zenon DEF Register
<1> DEFINE t == IF Known(f) THEN table
                ELSE [prune.table EXCEPT ![k] = [NoSession EXCEPT !.port = p]]
           v == IF Known(f) THEN fwd
                ELSE [prune.fwd EXCEPT ![p] = [NoTask EXCEPT !.key = k]]
           s == touch_addr(t[k], f, src)
<1>2. /\ table' = [t EXCEPT ![k] = s]
      /\ fwd' = IF v[p].key = k THEN [v EXCEPT ![p] = try_send(v[p], s.addrs)] ELSE v
  BY <1>1, Zenon
<1>3. /\ k \in Pairs /\ Asked(k) /\ p \in Ports /\ p # NoPort /\ Addr(src, f.port) \in DataAddrs
      /\ table \in [Pairs -> SessionRecs] /\ DOMAIN fwd = Ports
      /\ \A q \in Ports : TaskOK(fwd[q]) /\ DOMAIN fwd[q] = {"key", "queue", "addrs"}
  BY RelayNobody, Zenon DEF IInv, Shape, FwdShape, ServerSound
<1>4. /\ t \in [Pairs -> SessionRecs] /\ t[k].port = p
      /\ DOMAIN v = Ports /\ \A q \in Ports : TaskOK(v[q]) /\ DOMAIN v[q] = {"key", "queue", "addrs"}
      /\ \A j \in Live(t) : Asked(j)
      /\ Cardinality(Live(t) \cup {k}) =< MaxSessions
  <2>1. CASE Known(f)
    <3>1. t = table /\ v = fwd /\ table[k].port = p /\ table[k] # NoSession
      BY <1>1, <2>1, Zenon DEF Known
    <3> HIDE DEF t, v, k
    <3>2. Live(t) \cup {k} = Live(table)
      BY <1>3, <3>1, Zenon DEF Live
    <3> QED
      BY <1>3, <3>1, <3>2, Zenon DEF ServerSound
  <2>2. CASE ~Known(f)
    <3>1. /\ t = [prune.table EXCEPT ![k] = [NoSession EXCEPT !.port = p]]
          /\ v = [prune.fwd EXCEPT ![p] = [NoTask EXCEPT !.key = k]]
      BY <2>2, Zenon
    <3>2. Cardinality(Sessions \ Stale) < MaxSessions
      <4>1. Sessions \ Stale \subseteq Pairs
        BY Zenon DEF Sessions
      <4>2. Cardinality(Sessions \ Stale) \in Nat
        BY <4>1, CountSessions, Zenon
      <4> QED
        BY <2>2, <4>2, RelayBounds, SMTT(30) DEF Full
    <3> HIDE DEF t, v, k
    <3>3. [NoSession EXCEPT !.port = p] \in SessionRecs /\ [NoSession EXCEPT !.port = p].port = p
      BY <1>3, PruneServer, Zenon DEF SessionRecs, NoSession
    <3>4. prune.table \in [Pairs -> SessionRecs] /\ DOMAIN prune.fwd = Ports
      BY PruneServer, PruneSound, Zenon DEF ServerSound
    <3>5. t \in [Pairs -> SessionRecs] /\ t[k].port = p /\ \A j \in Pairs \ {k} : t[j] = prune.table[j]
      BY <1>3, <3>1, <3>3, <3>4, Zenon
    <3>6. TaskOK([NoTask EXCEPT !.key = k]) /\ DOMAIN [NoTask EXCEPT !.key = k] = {"key", "queue", "addrs"}
      BY PruneServer, Zenon DEF TaskOK, NoTask
    <3>7. \A q \in Ports : TaskOK(prune.fwd[q]) /\ DOMAIN prune.fwd[q] = {"key", "queue", "addrs"}
      <4>1. DOMAIN NoTask = {"key", "queue", "addrs"}
        BY Zenon DEF NoTask
      <4> QED
        BY <1>3, <4>1, PruneServer, PruneSound, ZenonT(30) DEF ServerSound
    <3>8. DOMAIN v = Ports /\ \A q \in Ports : TaskOK(v[q]) /\ DOMAIN v[q] = {"key", "queue", "addrs"}
      BY <1>3, <3>1, <3>4, <3>6, <3>7, Zenon
    <3>9. Live(t) \cup {k} = Live(prune.table) \cup {k} /\ \A j \in Live(t) : Asked(j)
      BY <1>3, <3>5, PruneServer, Zenon DEF Live, ServerSound
    <3>10. Cardinality(Live(prune.table) \cup {k}) =< MaxSessions
      <4>1. Live(prune.table) = Sessions \ Stale /\ Live(prune.table) \subseteq Pairs
        BY PruneServer, Zenon DEF Live
      <4>2. /\ Cardinality(Sessions \ Stale) \in Nat
            /\ Cardinality(Live(prune.table) \cup {k}) =< Cardinality(Sessions \ Stale) + 1
        BY <4>1, CountSessions, Zenon
      <4>3. Cardinality(Live(prune.table) \cup {k}) \in Nat
        <5>1. Live(prune.table) \cup {k} \subseteq Pairs
          BY <1>3, <4>1, ZenonT(30)
        <5> QED
          BY <5>1, CountSessions, Zenon
      <4> QED
        BY <3>2, <4>2, <4>3, RelayBounds, SMTT(30)
    <3> QED
      BY <3>5, <3>8, <3>9, <3>10, Zenon
  <2> QED
    BY <2>1, <2>2, Zenon
<1> HIDE DEF t, v, k, f
<1>5. s \in SessionRecs /\ s.addrs \in Where /\ s.port = p
  <2>1. t[k] \in SessionRecs
    BY <1>3, <1>4, ZenonT(30)
  <2> QED
    BY <1>3, <1>4, <2>1, TouchSound, ZenonT(30)
<1> HIDE DEF s
<1>6. TaskOK(try_send(v[p], s.addrs))
  BY <1>3, <1>4, <1>5, SendSound, ZenonT(30)
<1>7. table' \in [Pairs -> SessionRecs] /\ \A q \in Ports : TaskOK(fwd'[q])
  BY <1>2, <1>3, <1>4, <1>5, <1>6, Zenon
<1>8. Live(table') = Live(t) \cup {k}
  <2>1. s # NoSession
    <3>1. NoSession.port = NoPort
      BY Zenon DEF NoSession
    <3> QED
      BY <1>3, <1>5, <3>1, Zenon
  <2> QED
    BY <1>2, <1>3, <1>4, <2>1, ZenonT(30) DEF Live
<1> QED
  BY <1>3, <1>4, <1>7, <1>8, Zenon DEF ServerSound

\* The fields of a frame at the head of a datagram.
LEMMA Fields ==
  ASSUME NEW S, NEW w \in Seq(S), Len(w) >= 7
  PROVE  LET body == <<w[1], w[2], w[3], w[4], w[5], w[6]>>
         IN  SubSeq(w, 1, 6) = body /\ SubSeq(w, 1, 7) = Append(body, w[7])
<1> DEFINE body == <<w[1], w[2], w[3], w[4], w[5], w[6]>>
           x == w[7]
           a == SubSeq(w, 1, 6)
           b == SubSeq(w, 1, 7)
           c == Append(body, x)
<1>1. \A i \in 1..7 : w[i] \in S
  OBVIOUS
<1>2. body \in Seq(S) /\ Len(body) = 6 /\ \A i \in 1..6 : body[i] = w[i]
  BY <1>1
<1>3. a \in Seq(S) /\ Len(a) = 6 /\ \A i \in 1..6 : a[i] = w[i]
  BY <1>1
<1>4. b \in Seq(S) /\ Len(b) = 7 /\ \A i \in 1..7 : b[i] = w[i]
  BY <1>1
<1>5. x \in S /\ x = w[7]
  BY <1>1
<1> HIDE DEF body, x
<1>6. /\ c \in Seq(S) /\ Len(c) = Len(body) + 1 /\ c[Len(body) + 1] = x
      /\ \A i \in 1..Len(body) : c[i] = body[i]
  <2>1. body \in Seq(S)
    BY <1>2, Zenon
  <2>2. x \in S
    BY <1>5, Zenon
  <2> QED
    BY <2>1, <2>2
<1> HIDE DEF a, b, c
<1>7. a = body
  <2>1. a \in Seq(S) /\ body \in Seq(S) /\ Len(a) = Len(body) /\ \A i \in 1..Len(a) : a[i] = body[i]
    BY <1>2, <1>3, Zenon
  <2> QED
    BY ONLY <2>1, SeqEqual, Zenon
<1>8. \A i \in 1..7 : b[i] = c[i]
  <2>1. \A i \in 1..7 : i = 7 \/ i \in 1..6
    OBVIOUS
  <2> QED
    BY <1>2, <1>4, <1>5, <1>6, <2>1, SMTT(30)
<1>9. b = c
  <2>1. b \in Seq(S) /\ c \in Seq(S) /\ Len(b) = Len(c) /\ \A i \in 1..Len(b) : b[i] = c[i]
    BY <1>2, <1>4, <1>6, <1>8, SMTT(30)
  <2> QED
    BY ONLY <2>1, SeqEqual, Zenon
<1> QED
  BY <1>7, <1>9, Zenon DEF a, b, c, body, x

\* The fields of a datagram that passes are those of the frame that decodes from it.
LEMMA PassesWhole ==
  ASSUME NEW w, Len(w) \in Nat, w = [i \in 1..Len(w) |-> w[i]], check(w, NetworkKey) = "ok"
  PROVE  /\ Len(w) >= FrameLen /\ w[5] # w[6] /\ w[6] \in CurvePoints
         /\ SubSeq(w, 1, FrameLen) = encode(decode(w), NetworkKey)
<1> DEFINE S == {w[i] : i \in 1..Len(w)}
           body == <<w[1], w[2], w[3], w[4], w[5], w[6]>>
<1>1. /\ ~(Len(w) < FrameLen) /\ w[1] = Magic /\ w[2] = Version
      /\ \E k \in RelayKinds : as_u8[k] = w[3]
      /\ w[7] = Mac(NetworkKey, SubSeq(w, 1, 6)) /\ w[5] # w[6] /\ {w[5], w[6]} \subseteq CurvePoints
  BY Zenon DEF check
<1>2. as_u8[decode(w).kind] = w[3]
  BY <1>1, Zenon DEF decode, from_u8
<1>3. w \in Seq(S) /\ Len(w) >= 7
  BY <1>1 DEF FrameLen
<1>4. SubSeq(w, 1, 6) = body /\ SubSeq(w, 1, 7) = Append(body, w[7])
  BY <1>3, Fields, Zenon
<1>5. encode(decode(w), NetworkKey) = Append(body, Mac(NetworkKey, body))
  BY <1>1, <1>2, Zenon DEF encode, decode
<1> QED
  BY <1>1, <1>3, <1>4, <1>5, Zenon DEF FrameLen

\* A datagram of somebody else that is accepted as a Register is a genuine one.
LEMMA AcceptedGenuine ==
  ASSUME NEW m \in Strays, Accepts(m)
  PROVE  /\ m \in Whole /\ Addr(m.src, decode(m.wire).port) \in DataAddrs
         /\ decode(m.wire).kind = "Register" /\ decode(m.wire).port # 0 => Genuine(m)
<1> DEFINE w == m.wire
           f == decode(w)
<1>1. check(w, NetworkKey) = "ok" /\ m.age =< SeqSkew /\ w[5] \in Allowlist
  BY Zenon DEF Accepts, Allows, decode
<1>2. /\ Len(w) >= FrameLen /\ w[5] # w[6] /\ w[6] \in CurvePoints
      /\ SubSeq(w, 1, FrameLen) = encode(f, NetworkKey)
  BY <1>1, PassesWhole, RelayNodes, Zenon
<1>3. f.port = w[4] /\ f.self = w[5] /\ f.peer = w[6] /\ DOMAIN f = {"kind", "port", "self", "peer"}
      /\ f = [kind |-> f.kind, port |-> w[4], self |-> w[5], peer |-> w[6]]
  BY Zenon DEF decode
<1> QED
  BY <1>1, <1>2, <1>3, Zenon DEF Whole, DataAddrs, Genuine

\* serve: an accepted request leaves the table and the tasks in order.
LEMMA HandleSound ==
  ASSUME IInv, ServerSound(table, fwd), NEW m, session_key(decode(m.wire)) \in Pairs,
         Addr(m.src, decode(m.wire).port) \in DataAddrs, NEW heard \in BOOLEAN,
         decode(m.wire).kind = "Register" /\ decode(m.wire).port # 0
           => Asked(session_key(decode(m.wire))),
         Handle(m, heard)
  PROVE  ServerSound(table', fwd')
<1> DEFINE f == decode(m.wire)
           k == session_key(f)
<1>1. CASE Refuse
  <2>1. table' = prune.table /\ fwd' = prune.fwd
    BY <1>1, Zenon DEF Refuse
  <2> QED
    BY <2>1, PruneServer, Zenon
<1>2. CASE f.kind = "Register" /\ f.port # 0 /\ ~Full(f) /\ Register(f, m.src, heard)
  BY <1>2, RegisterSound, Zenon
<1>3. CASE RemoveSession(f)
  <2>1. /\ table' = [table EXCEPT ![k] = NoSession]
        /\ fwd' = [p \in Ports |-> IF fwd[p].key \in {k} THEN NoTask ELSE fwd[p]]
    BY <1>3, Zenon DEF RemoveSession, close
  <2> HIDE DEF k
  <2>2. table' \in [Pairs -> SessionRecs] /\ \A p \in Ports : TaskOK(fwd'[p])
    BY <2>1, PruneServer, Zenon DEF ServerSound
  <2>3. Live(table') \subseteq Live(table) /\ Live(table) \subseteq Pairs
    BY <2>1, Zenon DEF Live, ServerSound
  <2>4. Cardinality(Live(table')) =< MaxSessions
    BY <2>3, CountSessions, RelayBounds DEF ServerSound
  <2> QED
    BY <2>2, <2>3, <2>4, Zenon DEF ServerSound
<1> QED
  BY <1>1, <1>2, <1>3, Zenon DEF Handle

\* What a client sends comes from one of its addresses and names its port.
LEMMA SendHomely ==
  ASSUME NetSound, NEW l \in Links, NEW kind \in RelayKinds, Send(l, kind)
  PROVE  \A m \in net' : Homely(m)
<1> DEFINE r == Request(l, kind)
           f == [kind |-> kind, port |-> WgPort, self |-> l[1], peer |-> l[2]]
           body == <<Magic, Version, as_u8[f.kind], f.port, f.self, f.peer>>
<1>1. r.wire = Append(body, Mac(NetworkKey, body)) /\ r.src = ip[l[1]] /\ DOMAIN r = {"wire", "src", "age"}
  BY Zenon DEF Request, encode
<1>2. body[4] = WgPort /\ Len(body) = 6
  BY Zenon
<1>3. Append(body, Mac(NetworkKey, body))[4] = WgPort
  <2> DEFINE y == Mac(NetworkKey, body)
  <2> HIDE DEF y
  <2> QED
    OBVIOUS
<1>4. l[1] \in Nodes
  BY RelayNodes, Zenon DEF Nodes
<1>5. Homely(r)
  BY <1>1, <1>3, <1>4, Zenon DEF Homely, NetSound
<1> HIDE DEF r
<1>6. net' \subseteq net \cup {r}
  BY Zenon DEF Send, r
<1> QED
  BY <1>5, <1>6, Zenon DEF NetSound

\* The address in a request of a client is one of the addresses of the model.
LEMMA HomelyAddr ==
  ASSUME NEW m, Homely(m)
  PROVE  Addr(m.src, decode(m.wire).port) \in DataAddrs
<1>1. decode(m.wire).port = m.wire[4]
  BY Zenon DEF decode
<1> QED
  BY <1>1, Zenon DEF Homely, DataAddrs

\* Every step of the relay, its clients and the network keeps all of it in order.
LEMMA NextSound ==
  ASSUME IInv, RelaySound, [Next]_vars
  PROVE  RelaySound'
<1>0. /\ ServerSound(table, fwd) /\ NetSound /\ changes \in 0..MaxChanges
      /\ (UNCHANGED <<table, fwd>> => ServerSound(table', fwd'))
      /\ (UNCHANGED <<ip, net>> => NetSound')
      /\ (Spend \/ UNCHANGED changes => changes' \in 0..MaxChanges)
  <2>1. ServerSound(table, fwd) /\ NetSound /\ changes \in 0..MaxChanges
    BY Zenon DEF RelaySound
  <2>2. UNCHANGED <<table, fwd>> => ServerSound(table', fwd')
    BY <2>1, Zenon
  <2>3. UNCHANGED <<ip, net>> => NetSound'
    BY <2>1, Zenon DEF NetSound
  <2>4. Spend \/ UNCHANGED changes => changes' \in 0..MaxChanges
    BY <2>1, BudgetAssumption DEF Spend
  <2> QED
    BY <2>1, <2>2, <2>3, <2>4, Zenon
<1>1. ASSUME NEW l \in Links, Client(l) PROVE RelaySound'
  <2>1. UNCHANGED <<table, fwd, ip>>
    BY <1>1, Zenon DEF Client, StartRegister, Retry, Round, TimeOut, Unregister, WantAgain, server
  <2>2. Spend \/ UNCHANGED changes
    BY <1>1, Zenon DEF Client, StartRegister, Retry, Round, TimeOut, Unregister, WantAgain
  <2>3. net' = net \/ \E kind \in RelayKinds : Send(l, kind)
    BY <1>1, Zenon DEF Client, StartRegister, Retry, Round, TimeOut, Unregister, WantAgain, RelayKinds
  <2>4. NetSound'
    BY <1>0, <2>1, <2>3, SendHomely, Zenon DEF NetSound
  <2> QED
    BY <1>0, <2>1, <2>2, <2>4, Zenon DEF RelaySound, ServerSound, Live
<1>2. ASSUME NEW l \in Links, NEW heard \in BOOLEAN, ServerReceives(l, heard) PROVE RelaySound'
  <2>1. UNCHANGED <<ip, net, changes>>
    BY <1>2, Zenon DEF ServerReceives
  <2>2. PICK m \in InFlight(l) : Accepts(m) /\ Handle(m, heard)
    BY <1>2, Zenon DEF ServerReceives
  <2>3. m \in net /\ m.wire[5] = l[1] /\ m.wire[6] = l[2]
    BY DEF InFlight, Sender
  <2>4. session_key(decode(m.wire)) = PairOf(l) /\ decode(m.wire).self = l[1]
    BY <2>3, Zenon DEF session_key, decode, PairOf
  <2>5. PairOf(l) \in Pairs /\ Asked(PairOf(l))
    BY <2>2, <2>4, Zenon DEF Pairs, Asked, Accepts, Allows
  <2>6. Addr(m.src, decode(m.wire).port) \in DataAddrs
    BY <1>0, <2>3, HomelyAddr, ZenonT(30) DEF NetSound
  <2>7. ServerSound(table', fwd')
    BY <1>0, <2>2, <2>4, <2>5, <2>6, HandleSound, Zenon
  <2> QED
    BY <1>0, <2>1, <2>7, Zenon DEF RelaySound, ServerSound, Live
<1>3. ASSUME NEW p \in Ports, TakeUpdate(p) PROVE RelaySound'
  <2>1. /\ UNCHANGED <<table, ip, net, changes>> /\ fwd[p].queue # <<>>
        /\ fwd' = [fwd EXCEPT ![p].addrs = Head(fwd[p].queue), ![p].queue = Tail(@)]
    BY <1>3, Zenon DEF TakeUpdate
  <2>2. /\ DOMAIN fwd = Ports /\ DOMAIN fwd[p] = {"key", "queue", "addrs"}
        /\ \A q \in Ports : TaskOK(fwd[q])
    BY <1>0, Zenon DEF IInv, Shape, FwdShape, ServerSound
  <2>3. fwd'[p].queue = Tail(fwd[p].queue) /\ \A q \in Ports : q # p => fwd'[q] = fwd[q]
    BY <2>1, <2>2, Zenon
  <2>4. TaskOK(fwd'[p])
    BY <2>1, <2>2, <2>3, RelayBounds, SMTT(30) DEF TaskOK
  <2>5. \A q \in Ports : TaskOK(fwd'[q])
    BY <2>2, <2>3, <2>4, Zenon
  <2> QED
    BY <1>0, <2>1, <2>5, Zenon DEF RelaySound, ServerSound, Live
<1>4. ASSUME NEW p \in Ports, ForwarderFails(p) PROVE RelaySound'
  <2>1. UNCHANGED <<table, ip, net>> /\ Spend /\ fwd' = [fwd EXCEPT ![p] = NoTask]
    BY <1>4, Zenon DEF ForwarderFails
  <2>2. \A q \in Ports : TaskOK(fwd'[q])
    BY <1>0, <2>1, PruneServer, Zenon DEF ServerSound, IInv, Shape, FwdShape
  <2> QED
    BY <1>0, <2>1, <2>2, Zenon DEF RelaySound, ServerSound, Live
<1>5. CASE ServerReceivesStray
  <2>1. UNCHANGED <<ip, net>> /\ Spend
    BY <1>5, Zenon DEF ServerReceivesStray
  <2>2. PICK m \in Strays : Accepts(m) /\ Handle(m, FALSE)
    BY <1>5, Zenon DEF ServerReceivesStray
  <2>3. /\ m \in Whole /\ Addr(m.src, decode(m.wire).port) \in DataAddrs
        /\ decode(m.wire).kind = "Register" /\ decode(m.wire).port # 0 => Genuine(m)
    BY <2>2, AcceptedGenuine, Zenon
  <2>4. session_key(decode(m.wire)) \in Pairs
    BY <2>3, Zenon DEF Pairs
  <2>5. ServerSound(table', fwd')
    BY <1>0, <2>2, <2>3, <2>4, HandleSound, Zenon DEF Asked
  <2> QED
    BY <1>0, <2>1, <2>5, Zenon DEF RelaySound, ServerSound, Live
<1>6. CASE PruneTick
  <2>1. table' = prune.table /\ fwd' = prune.fwd /\ UNCHANGED <<ip, net, changes>>
    BY <1>6, Zenon DEF PruneTick
  <2>2. ServerSound(table', fwd')
    BY <1>0, <2>1, PruneServer, Zenon
  <2> QED
    BY <1>0, <2>1, <2>2, Zenon DEF RelaySound, ServerSound, Live
<1>7. CASE Restart
  <2>1. table' = [k \in Pairs |-> NoSession] /\ fwd' = [p \in Ports |-> NoTask]
        /\ UNCHANGED <<ip, net>> /\ Spend
    BY <1>7, Zenon DEF Restart
  <2>2. Live(table') = {}
    BY <2>1, Zenon DEF Live
  <2>3. ServerSound(table', fwd')
    <3>1. table' \in [Pairs -> SessionRecs] /\ \A p \in Ports : TaskOK(fwd'[p])
      BY <1>0, <2>1, PruneServer, Zenon
    <3>2. Cardinality(Live(table')) =< MaxSessions
      BY <2>2, FS_EmptySet, RelayBounds, SMTT(30)
    <3> QED
      BY <2>2, <3>1, <3>2, Zenon DEF ServerSound
  <2> QED
    BY <1>0, <2>1, <2>3, Zenon DEF RelaySound, ServerSound, Live
<1>8. CASE Tick
  <2>1. /\ UNCHANGED <<fwd, ip, changes>>
        /\ table' = [k \in Pairs |-> IF k \in Sessions
                                     THEN [table[k] EXCEPT !.age = Min({@ + 1, SessionTtl + 1})]
                                     ELSE NoSession]
        /\ net' = {[m EXCEPT !.age = @ + 1] : m \in {x \in net : x.age < SeqSkew}}
    BY <1>8, Zenon DEF Tick
  <2>2. ASSUME NEW a \in 0..SessionTtl + 1 PROVE Min({a + 1, SessionTtl + 1}) \in 0..SessionTtl + 1
    BY RelayTimes DEF Min
  <2>3. \A k \in Pairs : table[k] \in SessionRecs /\ table[k].age \in 0..SessionTtl + 1
    BY <1>0, Zenon DEF ServerSound, SessionRecs
  <2>4. table' \in [Pairs -> SessionRecs]
    BY <1>0, <2>1, <2>2, <2>3, PruneServer, Zenon DEF SessionRecs
  <2>5. Live(table') \subseteq Live(table) /\ Live(table) \subseteq Pairs
    BY <2>1, Zenon DEF Live, Sessions
  <2>6. Cardinality(Live(table')) =< MaxSessions
    BY <1>0, <2>5, CountSessions, RelayBounds, SMTT(30) DEF ServerSound
  <2>7. ServerSound(table', fwd')
    BY <1>0, <2>1, <2>4, <2>5, <2>6, Zenon DEF ServerSound
  <2>8. ASSUME NEW m, Homely(m) PROVE Homely([m EXCEPT !.age = @ + 1])
    BY <2>8, Zenon DEF Homely
  <2>9. NetSound'
    BY <1>0, <2>1, <2>8, Zenon DEF NetSound
  <2> QED
    BY <1>0, <2>1, <2>7, <2>9, Zenon DEF RelaySound, ServerSound, Live
<1>9. CASE Lose \/ Renumber \/ UNCHANGED vars
  <2>1. /\ UNCHANGED <<table, fwd>> /\ (Spend \/ UNCHANGED changes) /\ net' \subseteq net
        /\ ip' = ip \/ \E n \in Nodes : \E i \in Homes[n] : ip' = [ip EXCEPT ![n] = i]
    BY <1>9, Zenon DEF Lose, Renumber, server, vars
  <2>2. NetSound'
    BY <1>0, <2>1, Zenon DEF NetSound
  <2> QED
    BY <1>0, <2>1, <2>2, Zenon DEF RelaySound, ServerSound, Live
<1> QED
  BY <1>1, <1>2, <1>3, <1>4, <1>5, <1>6, <1>7, <1>8, <1>9, Zenon DEF Next

\* serve, prune and the tasks keep sessions, tasks and requests in agreement: no more
\* than MAX_SESSIONS, none that nobody asked for, no channel past its capacity and no
\* task without its session, for any number of nodes, pairs and ports and any datagrams.
THEOREM SessionsAlwaysSound == Spec => []SessionsSound
<1>1. Init => IInv /\ RelaySound
  <2> SUFFICES ASSUME Init PROVE IInv /\ RelaySound
    BY Zenon
  <2>1. IInv /\ table = [k \in Pairs |-> NoSession] /\ fwd = [p \in Ports |-> NoTask]
    BY InitSound, Zenon DEF Init
  <2>2. TaskOK(NoTask)
    BY RelayBounds DEF TaskOK, NoTask
  <2>3. NoSession \in SessionRecs
    BY NoSessionFits
  <2>4. Live(table) = {}
    BY <2>1, Zenon DEF Live
  <2>5. ServerSound(table, fwd)
    BY <2>1, <2>2, <2>3, <2>4, FS_EmptySet, RelayBounds, SMTT(30) DEF ServerSound
  <2>6. NetSound
    BY RelayNodes, Zenon DEF Init, NetSound, Nodes
  <2> QED
    BY <2>1, <2>5, <2>6, RelayBounds, BudgetAssumption, SMTT(30) DEF RelaySound, Init
<1>2. IInv /\ RelaySound /\ [Next]_vars => IInv' /\ RelaySound'
  BY NextKeeps, NextSound, Zenon
<1>3. IInv /\ RelaySound => SessionsSound
  <2> SUFFICES ASSUME IInv, RelaySound PROVE SessionsSound
    BY Zenon
  <2>1. Live(table) = Sessions
    BY Zenon DEF Live, Sessions
  <2>2. NoOrphanForwarder
    BY Zenon DEF IInv, Owned, NoOrphanForwarder, Running
  <2>3. RelayTypeOK
    BY <2>1, Zenon DEF RelaySound, ServerSound, TaskOK, RelayTypeOK, SessionRecs, Where
  <2>4. OnlyAskedFor
    BY <2>1, Zenon DEF RelaySound, ServerSound, OnlyAskedFor, Asked
  <2> QED
    BY <2>2, <2>3, <2>4, Zenon DEF SessionsSound
<1> QED
  BY <1>1, <1>2, <1>3, PTL DEF Spec
=============================================================================
