-------------------------------- MODULE Budget --------------------------------
(***************************************************************************)
(* What disturbs a system comes finitely often: faults, restarts, commands   *)
(* and whatever else a module spends a change on.                           *)
(***************************************************************************)
EXTENDS Naturals

CONSTANT MaxChanges     \* bound
ASSUME BudgetAssumption == MaxChanges \in Nat

VARIABLE changes        \* the disturbances so far

Spend == changes < MaxChanges /\ changes' = changes + 1
=============================================================================
