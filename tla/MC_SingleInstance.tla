------------------------- MODULE MC_SingleInstance -------------------------
(***************************************************************************)
(* Model checking SingleInstance with three instances: two that may kill    *)
(* each other while a third has both on its list.                           *)
(***************************************************************************)
EXTENDS SingleInstance, TLC

\* The instances are interchangeable: only safety is checked.
Symmetry == Permutations(Instances)
=============================================================================
