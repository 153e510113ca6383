--------------------------- MODULE MCTaskService ---------------------------
(***************************************************************************)
(* Small instances of TaskService for TLC.                                 *)
(***************************************************************************)
EXTENDS TaskService
=============================================================================
