---------------------------- MODULE MCReconciler ----------------------------
(***************************************************************************)
(* Instances of Reconciler for TLC.                                        *)
(***************************************************************************)
EXTENDS Reconciler, TLC

\* The values of spec fields are interchangeable in every safety property.
ValueSymmetry == Permutations(Values)
=============================================================================
