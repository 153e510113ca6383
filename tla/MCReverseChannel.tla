-------------------------- MODULE MCReverseChannel --------------------------
(***************************************************************************)
(* Small instances of ReverseChannel for TLC.                              *)
(***************************************************************************)
EXTENDS ReverseChannel
=============================================================================
