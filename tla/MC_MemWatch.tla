---------------------------- MODULE MC_MemWatch ----------------------------
(***************************************************************************)
(* Model checking MemWatch with three places for buffers: enough for a      *)
(* buffer in the middle of the chain, and for realloc() to find a new place *)
(* while two others are taken.                                              *)
(***************************************************************************)
EXTENDS MemWatch
=============================================================================
