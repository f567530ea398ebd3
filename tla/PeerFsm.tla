------------------------------- MODULE PeerFsm -------------------------------
(***************************************************************************)
(* One peer's PunchFsm driven by the daemon's main loop against the         *)
(* kernel's WireGuard.  The loop is one task: it reads the peer's status,   *)
(* ticks the machine with that snapshot, and applies the returned actions   *)
(* one by one (tick_once, apply_actions); the same task applies the actions *)
(* of kick, set_candidates and retry_from.  The kernel is not in that task: *)
(* handshakes complete and endpoints roam between any two of these steps.   *)
(*                                                                          *)
(* Time is kept as ages, in units of TICK, capped where they stop mattering.*)
(* `hsAfter` is the exact order of the two nanosecond instants last_handshake*)
(* and last_transition.                                                     *)
(***************************************************************************)
EXTENDS Budget, PunchFsm

CONSTANTS Lists,           \* the candidate lists the daemon may pass
          LiveSets,        \* the sets of addresses at which the peer may answer
          RotateInterval,  \* ROTATE_INTERVAL
          HandshakeFresh,  \* HANDSHAKE_FRESH
          RekeyAfter,      \* age from which WireGuard itself renews a session
          MaxLag,          \* bound: units that may pass between two ticks
          MayFail          \* whether set_peer_endpoint may return an error

ASSUME TimingAssumption ==
  /\ RotateInterval \in Nat \ {0}
  /\ RekeyAfter \in Nat \ {0} /\ HandshakeFresh \in Nat /\ RekeyAfter < HandshakeFresh
  /\ MaxLag \in Nat /\ MayFail \in BOOLEAN
\* build_candidates never repeats an endpoint (Candidates).
ASSUME ListsAssumption == \A l \in Lists : l \in Seq(Endpoints) /\ Distinct(l)
ASSUME LiveAssumption == LiveSets \subseteq SUBSET Endpoints

VARIABLES
  fsm,       \* the PeerFsm: candidates and state
  rotAge,    \* now - last_rotate, at most RotateInterval
  kernel,    \* kernel peer: its endpoint, the age of its last handshake
             \* (HandshakeFresh also stands for "never"), and its last
             \* authenticated source (not visible to the daemon)
  hsAfter,   \* last_handshake >= last_transition
  obs,       \* the status snapshot of the tick being run, or Idle
  hsSince,   \* a handshake has completed since that snapshot's `now`
  acts,      \* actions returned by the machine and not yet applied
  told,      \* the kernel's endpoint is the one the daemon last asked for
  answered,  \* a handshake completed while the loop was idle, since the
             \* machine last began to probe its current candidate
  live,      \* where the peer answers now
  lag

peerVars == <<fsm, rotAge, kernel, hsAfter, obs, hsSince, acts, told, answered, live, lag, changes>>
clock == <<rotAge, lag>>
outside == <<live, changes>>

Idle == [fresh |-> FALSE, after |-> FALSE, ep |-> NoEndpoint, answered |-> FALSE, busy |-> FALSE]
Observations == [fresh : BOOLEAN, after : BOOLEAN, ep : Endpoints \cup {NoEndpoint},
                 answered : BOOLEAN, busy : BOOLEAN]
Kernel == [ep : Endpoints \cup {NoEndpoint}, hsAge : 0..HandshakeFresh,
           heard : Endpoints \cup {NoEndpoint}]
LoopIdle == ~obs.busy /\ acts = <<>>

TypeOK ==
  /\ fsm \in [candidates : Seq(Endpoints), state : PunchStates]
  /\ rotAge \in 0..RotateInterval
  /\ kernel \in Kernel
  /\ obs \in Observations
  /\ acts \in Seq(Actions)
  /\ hsAfter \in BOOLEAN /\ hsSince \in BOOLEAN /\ told \in BOOLEAN /\ answered \in BOOLEAN
  /\ live \in SUBSET Endpoints
  /\ lag \in 0..MaxLag /\ changes \in 0..MaxChanges

\* build_device_spec gives the kernel peer its first configured endpoint, if
\* any, which need not be the first candidate; before it starts, the loop kicks
\* every peer once.
PeerInit ==
  /\ \E list \in Lists :
       /\ fsm = new(list)
       /\ \E e \in Elements(list) \cup {NoEndpoint} :
            kernel = [ep |-> e, hsAge |-> HandshakeFresh, heard |-> NoEndpoint]
       /\ acts = kick(new(list)).acts
  /\ rotAge = 0 /\ hsAfter = FALSE
  /\ obs = Idle /\ hsSince = FALSE /\ told = FALSE /\ answered = FALSE
  /\ live \in LiveSets /\ lag = 0 /\ changes = 0

-----------------------------------------------------------------------------
\* Install an operation's outcome; hsAfterIt orders the kernel's last
\* handshake after the operation's `now`.
Perform(out, hsAfterIt) ==
  /\ fsm' = out.fsm
  /\ acts' = out.acts
  /\ hsAfter' = IF out.transition THEN hsAfterIt ELSE hsAfter
  /\ rotAge' = IF out.rotate THEN 0 ELSE rotAge
  /\ answered' = (answered /\ current_candidate(out.fsm) = current_candidate(fsm))

\* tick_once, first half: the status of every peer and, after it, `now`.
ReadStatus ==
  /\ LoopIdle
  /\ obs' = [fresh |-> kernel.hsAge < HandshakeFresh, after |-> hsAfter,
             ep |-> kernel.ep, answered |-> answered, busy |-> TRUE]
  /\ hsSince' = FALSE /\ lag' = 0
  /\ UNCHANGED <<fsm, rotAge, kernel, hsAfter, acts, told, answered, outside>>

\* tick_once, second half, for this peer: fsm.tick on the snapshot.
TickPeer ==
  /\ obs.busy
  /\ Perform(tick(fsm, obs, rotAge >= RotateInterval), hsSince)
  /\ obs' = Idle
  /\ UNCHANGED <<kernel, hsSince, told, lag, outside>>

\* Start-up and a change of the local addresses kick every peer.
Kick ==
  /\ LoopIdle /\ Spend
  /\ Perform(kick(fsm), FALSE)
  /\ UNCHANGED <<kernel, obs, hsSince, told, live, lag>>

\* The rendezvous layers or the relay link replaced the candidate list.
SetCandidates ==
  /\ LoopIdle /\ Spend
  /\ \E list \in Lists : Perform(set_candidates(fsm, list), FALSE)
  /\ UNCHANGED <<kernel, obs, hsSince, told, live, lag>>

\* The daemon leaves the endpoint it is connected to, with or without flush.
RetryFrom ==
  /\ LoopIdle /\ Spend
  /\ fsm.state.tag = "Connected"
  /\ \E flush \in BOOLEAN : Perform(retry_from(fsm, fsm.state.endpoint, flush), FALSE)
  /\ UNCHANGED <<kernel, obs, hsSince, told, live, lag>>

\* apply_actions, one action.
ApplyAction ==
  /\ acts # <<>>
  /\ \/ /\ Head(acts).act = "SetEndpoint"
        /\ kernel' = [kernel EXCEPT !.ep = Head(acts).ep]
        /\ told' = TRUE
     \/ /\ Head(acts).act = "Rehandshake"
        /\ kernel' = [kernel EXCEPT !.ep = Head(acts).ep, !.hsAge = HandshakeFresh]
        /\ told' = TRUE
     \/ /\ Head(acts).act \in {"Nudge", "MarkGood"}
        /\ UNCHANGED <<kernel, told>>
  /\ acts' = Tail(acts)
  /\ UNCHANGED <<fsm, clock, hsAfter, obs, hsSince, answered, outside>>

\* set_peer_endpoint returned an error: it is logged and nothing else happens.
ApplyFails ==
  /\ MayFail /\ acts # <<>> /\ Spend
  /\ Head(acts).act = "SetEndpoint"
  /\ acts' = Tail(acts) /\ told' = FALSE
  /\ UNCHANGED <<fsm, kernel, clock, hsAfter, obs, hsSince, answered, live>>

-----------------------------------------------------------------------------
\* External: WireGuard.  A handshake with the peer at e makes e the endpoint.
Handshake(e) ==
  /\ kernel' = [ep |-> e, hsAge |-> 0, heard |-> e]
  /\ hsAfter' = TRUE /\ hsSince' = TRUE
  /\ told' = (told /\ kernel.ep = e)
  /\ answered' = (answered \/ LoopIdle)
  /\ UNCHANGED <<fsm, obs, acts, clock, live>>

\* The peer initiates, from any address of its own ...
InboundHandshake ==
  LoopIdle /\ (\E e \in live : Handshake(e)) /\ UNCHANGED changes
\* ... also while the loop is between a status read and its last action ...
MidTickHandshake ==
  /\ ~LoopIdle /\ Spend
  /\ \E e \in live : Handshake(e)
\* ... and once the session is old, our own initiation reaches a live endpoint.
OutboundHandshake ==
  /\ LoopIdle /\ kernel.hsAge >= RekeyAfter /\ kernel.ep \in live
  /\ Handshake(kernel.ep)
  /\ UNCHANGED changes

\* External: an authenticated data packet from a new source (roaming).
Roam ==
  /\ kernel.hsAge < HandshakeFresh
  /\ \E e \in live \ {kernel.ep} : kernel' = [kernel EXCEPT !.ep = e, !.heard = e]
  /\ told' = FALSE
  /\ UNCHANGED <<fsm, hsAfter, hsSince, obs, acts, answered, clock, outside>>

\* The peer's addresses change.
RenumberPeer ==
  /\ Spend
  /\ live' \in LiveSets \ {live}
  /\ UNCHANGED <<fsm, kernel, hsAfter, hsSince, obs, acts, told, answered, clock>>

Elapse ==
  /\ lag < MaxLag
  /\ lag' = lag + 1
  /\ rotAge' = Min({rotAge + 1, RotateInterval})
  /\ kernel' = [kernel EXCEPT !.hsAge = Min({@ + 1, HandshakeFresh})]
  /\ UNCHANGED <<fsm, hsAfter, hsSince, obs, acts, told, answered, outside>>

PeerNext == \/ ReadStatus \/ TickPeer \/ Kick \/ SetCandidates \/ RetryFrom
        \/ ApplyAction \/ ApplyFails
        \/ InboundHandshake \/ MidTickHandshake \/ OutboundHandshake \/ Roam \/ RenumberPeer \/ Elapse

PeerSpec == PeerInit /\ [][PeerNext]_peerVars

(***************************************************************************)
(* The main loop and the clock run; a live endpoint that the kernel keeps   *)
(* coming back to answers at some time outside the short window between a   *)
(* status read and the application of the actions it led to.                *)
(***************************************************************************)
PeerFairness == /\ WF_peerVars(ReadStatus) /\ WF_peerVars(TickPeer) /\ WF_peerVars(ApplyAction) /\ WF_peerVars(Elapse)
            /\ SF_peerVars(OutboundHandshake)
FairPeer == PeerSpec /\ PeerFairness

-----------------------------------------------------------------------------
\* Every `self.candidates[index]` of fsm.rs is in bounds: in Probing the index
\* is below the length of the list, or the list is empty and the index 0, after
\* any interleaving of list replacements, retries, ticks and kicks.
IndexInBounds ==
  fsm.state.tag = "Probing" =>
    fsm.state.index < Len(fsm.candidates) \/ (fsm.candidates = <<>> /\ fsm.state.index = 0)

\* The kernel probes what the machine points at: once the actions are applied,
\* and unless the kernel has roamed or refused the last set_peer_endpoint, the
\* endpoint of a probed peer is the current candidate.
KernelProbesCandidate ==
  fsm.state.tag = "Probing" /\ fsm.candidates # <<>> /\ acts = <<>> /\ told =>
    kernel.ep = current_candidate(fsm)

\* No lost evidence: if a handshake has completed while the loop was idle since
\* the current candidate was first probed, and the tick's snapshot still calls
\* it fresh, that tick connects, whatever kicks, list changes that keep the
\* candidate, or same-candidate rotations came in between.
NoLostHandshake ==
  [][obs.busy /\ ~obs'.busy /\ fsm.state.tag = "Probing" /\ obs.answered /\ obs.fresh
       => fsm'.state.tag = "Connected"]_peerVars

\* When disturbances stop and one of several candidates is live, the peer is
\* connected at a live address again and again: rotation reaches it, and a
\* wrong Connected does not outlast HANDSHAKE_FRESH.
LiveCandidate == \E i \in DOMAIN fsm.candidates : fsm.candidates[i] \in live
ConnectedLive == fsm.state.tag = "Connected" /\ fsm.state.endpoint \in live
ReachesLiveCandidate ==
  <>[](LiveCandidate /\ Len(fsm.candidates) > 1) => []<>ConnectedLive
=============================================================================
