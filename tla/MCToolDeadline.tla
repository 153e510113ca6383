--------------------------- MODULE MCToolDeadline ---------------------------
(***************************************************************************)
(* Small instances of ToolDeadline for TLC.                                *)
(***************************************************************************)
EXTENDS ToolDeadline
=============================================================================
