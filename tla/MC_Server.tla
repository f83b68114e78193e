------------------------------ MODULE MC_Server ------------------------------
(* Small instances of Server.                                              *)
EXTENDS Server
=============================================================================
