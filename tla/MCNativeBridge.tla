--------------------------- MODULE MCNativeBridge ---------------------------
(***************************************************************************)
(* Small instances of NativeBridge for TLC.                                *)
(***************************************************************************)
EXTENDS NativeBridge
=============================================================================
