---------------------------- MODULE MCTaskParts ----------------------------
(***************************************************************************)
(* Small instances, for TLC, of what is under way beside the conversation: *)
(* a tool call and its prompts, the native loop's streams and tools, and   *)
(* the background tasks of a chat.  The parts share no state: `part` says  *)
(* which of them a behaviour is about, and the others are at rest, in a    *)
(* state they can reach in which nothing is under way, so that no fairness *)
(* is asked of them.                                                       *)
(***************************************************************************)
EXTENDS ToolDeadline, NativeBridge, TaskService

VARIABLE part

toolRests ==
  /\ askTimeout = 0 /\ now = 0 /\ deadline = Cap /\ charged = 0
  /\ waiter = "done" /\ body = "done" /\ result = "returned"
  /\ wake = FALSE /\ depth = 0
  /\ prompt = [p \in Prompt |-> "unasked"] /\ asked = [p \in Prompt |-> 0]

PartsInit ==
  /\ part \in {"deadline", "bridge", "tasks"}
  /\ IF part = "deadline" THEN Init ELSE toolRests
  /\ BridgeInit /\ (part = "bridge" \/ ~interrupts)
  /\ TaskInit

PartsNext ==
  /\ UNCHANGED part
  /\ \/ part = "deadline" /\ Next       /\ UNCHANGED <<bridgeVars, taskVars>>
     \/ part = "bridge"   /\ BridgeNext /\ UNCHANGED <<vars, taskVars>>
     \/ part = "tasks"    /\ TaskNext   /\ UNCHANGED <<vars, bridgeVars>>

PartsSpec ==
  /\ PartsInit /\ [][PartsNext]_<<part, vars, bridgeVars, taskVars>>
  /\ Fairness /\ BridgeFairness /\ TaskFairness

\* Every part's variables have their types, whatever the order of its steps.
PartsTypeOK == TypeOK /\ BridgeTypeOK /\ TaskTypeOK
=============================================================================
