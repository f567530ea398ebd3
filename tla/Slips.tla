--------------------------------- MODULE Slips ---------------------------------
(***************************************************************************)
(* The disturbances whose kind a property excepts are remembered.           *)
(***************************************************************************)
EXTENDS Budget

VARIABLE slips          \* history: the kinds of fault and interference so far

Slip(kind) == Spend /\ slips' = slips \cup {kind}
NoSlip == UNCHANGED <<slips, changes>>
=============================================================================
