-------------------------- MODULE MC_ProcessSearch --------------------------
(***************************************************************************)
(* Model checking ProcessSearch: two searches over up to four lines, an     *)
(* array of lines that starts with two places, so that it grows.            *)
(***************************************************************************)
EXTENDS ProcessSearch
=============================================================================
