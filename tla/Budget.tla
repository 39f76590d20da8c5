------------------------------- MODULE Budget -------------------------------
(***************************************************************************)
(* What the modules on single adapters share: bounds on what users and     *)
(* others do, and on what goes wrong.                                      *)
(***************************************************************************)
EXTENDS Naturals

CONSTANTS
    MaxMoves,   \* bound: edits by users, changes others make in the account
    MaxFaults   \* bound: calls that fail, passes that are cut short or start from
                \* an outdated copy of their object

ASSUME BudgetAssumption == MaxMoves \in Nat /\ MaxFaults \in Nat

VARIABLES moves, faults

budget == <<moves, faults>>

BudgetInit == moves = 0 /\ faults = 0

Free  == UNCHANGED budget
Move  == moves < MaxMoves /\ moves' = moves + 1 /\ UNCHANGED faults
Fault == faults < MaxFaults /\ faults' = faults + 1 /\ UNCHANGED moves

=============================================================================
