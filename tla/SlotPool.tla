------------------------------ MODULE SlotPool ------------------------------
(***************************************************************************)
(* What a budgeted pool of workers promises: at most Max of them are busy  *)
(* at a time, and a worker that has been retired never becomes busy again. *)
(***************************************************************************)
EXTENDS Naturals, FiniteSets

CONSTANTS
  Worker,  (* the workers  *)
  Max      (* the budget   *)

VARIABLES
  busy,     (* the workers at work              *)
  retired   (* the workers that take no more work *)

vars == <<busy, retired>>

Init == busy = {} /\ retired = {}

Admit(w) ==
  /\ w \notin busy \cup retired
  /\ Cardinality(busy) < Max
  /\ busy' = busy \cup {w}
  /\ UNCHANGED retired

Release(w) ==
  /\ w \in busy
  /\ busy' = busy \ {w}
  /\ UNCHANGED retired

\* A retired worker may finish what it is doing.
Retire ==
  /\ UNCHANGED busy
  /\ retired \subseteq retired'
  /\ retired' \subseteq Worker

Next == (\E w \in Worker : Admit(w) \/ Release(w)) \/ Retire

Spec == Init /\ [][Next]_vars
=============================================================================
