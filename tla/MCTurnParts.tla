---------------------------- MODULE MCTurnParts ----------------------------
(***************************************************************************)
(* Small instances, for TLC, of what a turn of a chat rests on: its start, *)
(* stream and end, the process that serves it, and the compaction of its   *)
(* transcript.  The parts share no state: `part` says which of them a      *)
(* behaviour is about, and the others are at rest, in a state they can     *)
(* reach in which nothing is under way (a supervisor whose first spawn     *)
(* plan was refused, a round whose request was sent, no turns).            *)
(***************************************************************************)
EXTENDS Supervisor, ChatTurn, Compaction

VARIABLE part

supervisorRests ==
  /\ proc = [i \in Proc |-> "unborn"] /\ asked = {} /\ child = 0
  /\ planning = 0 /\ waits = {} /\ timers = 0 /\ intervals = 0 /\ held = FALSE
  /\ shut = "no" /\ crashes = 0 /\ gaveUp = 0 /\ refused = TRUE
  /\ late = {}

compactionRests ==
  /\ round = 1 /\ stage = "sent" /\ tokens = 0
  /\ lastPressure = Never /\ failures = 0 /\ refills = 0 /\ lastRound = Never
  /\ circuit = "closed" /\ retryRound = Never /\ retries = 0
  /\ story = <<>> /\ worked = <<Never>>

PartsInit ==
  /\ part \in {"supervisor", "turns", "compaction"}
  /\ IF part = "supervisor" THEN Init ELSE supervisorRests
  /\ IF part = "compaction" THEN CompactionInit ELSE compactionRests
  /\ TurnInit

PartsNext ==
  /\ UNCHANGED part
  /\ \/ part = "supervisor" /\ Next           /\ UNCHANGED <<turnVars, compactionVars>>
     \/ part = "turns"      /\ TurnNext       /\ UNCHANGED <<vars, compactionVars>>
     \/ part = "compaction" /\ CompactionNext /\ UNCHANGED <<vars, turnVars>>

PartsSpec ==
  /\ PartsInit /\ [][PartsNext]_<<part, vars, turnVars, compactionVars>>
  /\ Fairness /\ TurnFairness /\ CompactionFairness

\* Every part's variables have their types, whatever the order of its steps.
PartsTypeOK == TypeOK /\ TurnTypeOK /\ CompactionTypeOK
=============================================================================
