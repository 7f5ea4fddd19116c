--------------------------- MODULE OperatorBounds ---------------------------
(* What keeps the models of the operator's view finite: the operations that *)
(* start something share one bound, the faults another.                     *)
EXTENDS Naturals

CONSTANTS MaxOperations, MaxFaults

ASSUME BoundsAssumption == MaxOperations \in Nat /\ MaxFaults \in Nat

VARIABLES operations, faults

bounds == <<operations, faults>>

BoundsInit == operations = 0 /\ faults = 0

Operation ==
    /\ operations < MaxOperations
    /\ operations' = operations + 1
    /\ UNCHANGED faults

Fault ==
    /\ faults < MaxFaults
    /\ faults' = faults + 1
    /\ UNCHANGED operations
=============================================================================
