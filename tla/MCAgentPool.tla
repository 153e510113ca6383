---------------------------- MODULE MCAgentPool ----------------------------
(***************************************************************************)
(* Small instances of AgentPool for TLC.                                   *)
(***************************************************************************)
EXTENDS AgentPool, TLC

\* Child ids and call slots are interchangeable: no action orders them.
Interchangeable == Permutations(Child) \cup Permutations(Call)
=============================================================================
