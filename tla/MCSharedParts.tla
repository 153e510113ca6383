--------------------------- MODULE MCSharedParts ---------------------------
(***************************************************************************)
(* Small instances, for TLC, of what several processes, stores or tasks    *)
(* have in common: the scopes of approvals, the write lease, the calls to  *)
(* the host, a chat kept twice, and the worktrees of tasks.  The parts     *)
(* share no state: `part` says which of them a behaviour is about, and the *)
(* others stay in an initial state.  Only safety is checked of them.       *)
(***************************************************************************)
EXTENDS ApprovalScopes, WriteLease, ReverseChannel, MCChatHistory, Worktrees, TLC

CONSTANTS h1, h2, h3, p1, p2

\* Two chats of one process and one of another.
ThreeChats == (h1 :> p1) @@ (h2 :> p1) @@ (h3 :> p2)

VARIABLE part

approvalRests ==
  /\ ApprovalInit
  /\ stored = FALSE /\ \A c \in Call : call[c].category = CHOOSE t \in Category : TRUE

PartsInit ==
  /\ part \in {"approvals", "lease", "channel", "history", "worktrees"}
  /\ IF part = "approvals" THEN ApprovalInit ELSE approvalRests
  /\ LeaseInit /\ ChannelInit /\ HistoryInit /\ WorktreeInit

PartsNext ==
  /\ UNCHANGED part
  /\ \/ part = "approvals" /\ ApprovalNext
        /\ UNCHANGED <<leaseVars, channelVars, historyVars, worktreeVars>>
     \/ part = "lease" /\ LeaseNext
        /\ UNCHANGED <<approvalVars, channelVars, historyVars, worktreeVars>>
     \/ part = "channel" /\ ChannelNext
        /\ UNCHANGED <<approvalVars, leaseVars, historyVars, worktreeVars>>
     \/ part = "history" /\ HistoryNext
        /\ UNCHANGED <<approvalVars, leaseVars, channelVars, worktreeVars>>
     \/ part = "worktrees" /\ WorktreeNext
        /\ UNCHANGED <<approvalVars, leaseVars, channelVars, historyVars>>

PartsSpec ==
  /\ PartsInit
  /\ [][PartsNext]_<<part, approvalVars, leaseVars, channelVars, historyVars, worktreeVars>>

\* Every part's variables have their types, whatever the order of its steps.
PartsTypeOK == /\ ApprovalTypeOK /\ LeaseTypeOK /\ ChannelTypeOK
               /\ HistoryTypeOK /\ WorktreeTypeOK
=============================================================================
