--------------------------- MODULE ReverseChannel ---------------------------
(***************************************************************************)
(* The calls the sidecar makes to the host: approvals, questions to the    *)
(* user, tools that run in the host (stdio_jsonrpc.py, host_tools.py;      *)
(* supervisor.ts, reverse-approval.ts, reverse-ask-user.ts).               *)
(*                                                                         *)
(* A request carries an id of its process, "srv_" and a number; the host   *)
(* keeps no table of requests, its handler's promise writes the answer     *)
(* when it settles, to whichever process is the child by then.  The life   *)
(* of the processes is module Supervisor's; here a process exits, is given *)
(* up while it still runs, and is followed by another.                     *)
(***************************************************************************)
EXTENDS Naturals

CONSTANTS
  MaxProcesses,  (* bound: sidecar processes                                *)
  MaxReverse     (* bound: calls of a process                               *)

ASSUME ChannelAssumption == MaxProcesses \in Nat \ {0} /\ MaxReverse \in Nat

Sidecar == 1..MaxProcesses
Id      == 1..MaxReverse

\* The calls that the processes make, numbered; and no call.
ReverseCall == Sidecar \X Id
NoReverse   == <<0, 0>>

\* A request, or its answer: the id it carries, and the call it is of.
Letter == [id : Id, of : ReverseCall]

VARIABLES
  (* the processes, as Supervisor has them *)
  born,       (* how many were spawned; the last one is numbered so         *)
  living,
  current,    (* this.child; 0 = null                                       *)
  (* each process's JsonRpcServer *)
  issued,     (* _next_reverse_id                                           *)
  awaited,    (* _pending_reverse: the call that awaits an answer of an id  *)
  (* the pipes *)
  toHost,     (* requests written and not read                              *)
  answers,    (* answers written and not read, with the process they go to  *)
  (* the host *)
  handling,   (* requests whose handler has not settled                     *)
  (* history *)
  resolved    (* <<call, call whose answer it was given>>                   *)

channelVars == <<born, living, current, issued, awaited, toHost, answers, handling, resolved>>
processes   == <<born, living, current>>

ChannelTypeOK ==
  /\ born \in Sidecar
  /\ living \subseteq 1..born
  /\ current \in 0..born
  /\ issued \in [Sidecar -> 0..MaxReverse]
  /\ awaited \in [Sidecar -> [Id -> ReverseCall \cup {NoReverse}]]
  /\ toHost \subseteq Letter
  /\ handling \subseteq Letter
  /\ answers \subseteq [to : Sidecar, letter : Letter]
  /\ resolved \subseteq ReverseCall \X ReverseCall

ChannelInit ==
  /\ born = 1 /\ living = {1} /\ current = 1
  /\ issued = [p \in Sidecar |-> 0]
  /\ awaited = [p \in Sidecar |-> [i \in Id |-> NoReverse]]
  /\ toHost = {} /\ answers = {} /\ handling = {} /\ resolved = {}
-----------------------------------------------------------------------------
(* The sidecar                                                             *)

\* Variant: the first id that nothing awaits.
ReverseIdFree(p, i) ==
  /\ awaited[p][i] = NoReverse
  /\ \A j \in Id : j < i => awaited[p][j] # NoReverse

\* Ids are never used again, until the process ends.
ReverseId(p, i) == i = issued[p] + 1

\* call: the future is entered and the request is written.
Calls(p) ==
  /\ p \in living
  /\ issued[p] < MaxReverse
  /\ \E i \in Id :
       /\ ReverseId(p, i)
       /\ awaited' = [awaited EXCEPT ![p][i] = <<p, issued[p] + 1>>]
       /\ toHost' = toHost \cup {[id |-> i, of |-> <<p, issued[p] + 1>>]}
  /\ issued' = [issued EXCEPT ![p] = @ + 1]
  /\ UNCHANGED <<processes, answers, handling, resolved>>

\* The call times out or its turn is cancelled: the entry goes, and the host
\* is not told.
GivesUp(p, i) ==
  /\ awaited[p][i] # NoReverse
  /\ awaited' = [awaited EXCEPT ![p][i] = NoReverse]
  /\ UNCHANGED <<processes, issued, toHost, answers, handling, resolved>>

\* handle_frame of an answer, or of an error: it resolves what awaits its id;
\* if nothing does it is ignored.
Resolves(a) ==
  /\ a \in answers
  /\ answers' = answers \ {a}
  /\ LET c == awaited[a.to][a.letter.id]
     IN  resolved' = IF c = NoReverse THEN resolved ELSE resolved \cup {<<c, a.letter.of>>}
  /\ awaited' = [awaited EXCEPT ![a.to][a.letter.id] = NoReverse]
  /\ UNCHANGED <<processes, issued, toHost, handling>>
-----------------------------------------------------------------------------
(* The host                                                                *)

\* writeFrame: lost when there is no child, or only one that has exited.
Writes(r) ==
  answers' = IF current \in living
             THEN answers \cup {[to |-> current, letter |-> r]} ELSE answers

\* handleReverseRequest: the handler answers or fails at once (no such method,
\* no window, a malformed request), or is left to run, or to wait for the user.
Serves(r) ==
  /\ r \in toHost
  /\ toHost' = toHost \ {r}
  /\ \/ Writes(r) /\ UNCHANGED handling
     \/ handling' = handling \cup {r} /\ UNCHANGED answers
  /\ UNCHANGED <<processes, issued, awaited, resolved>>

\* The tool's result is there, or the user decides; whether the process that
\* asked still lives is not looked at.
Decides(r) ==
  /\ r \in handling
  /\ handling' = handling \ {r}
  /\ Writes(r)
  /\ UNCHANGED <<processes, issued, awaited, toHost, resolved>>
-----------------------------------------------------------------------------
(* The processes                                                           *)

\* What a process wrote is still read; what was written to it is lost.
SidecarDies(p) ==
  /\ p \in living
  /\ living' = living \ {p}
  /\ awaited' = [awaited EXCEPT ![p] = [i \in Id |-> NoReverse]]
  /\ answers' = {a \in answers : a.to # p}
  /\ UNCHANGED <<born, current, issued, toHost, handling, resolved>>

\* restart(): a process that does not answer the health check is sent a
\* signal, and is no longer the child; it may still run for a while.
GivenUp ==
  /\ current \in living
  /\ current' = 0
  /\ UNCHANGED <<born, living, issued, awaited, toHost, answers, handling, resolved>>

\* boot(): the next process, which has made no call.
Boots ==
  /\ current \notin living
  /\ born < MaxProcesses
  /\ born' = born + 1
  /\ living' = living \cup {born + 1}
  /\ current' = born + 1
  /\ UNCHANGED <<issued, awaited, toHost, answers, handling, resolved>>

ChannelNext ==
  \/ \E p \in Sidecar : Calls(p) \/ SidecarDies(p)
  \/ \E p \in Sidecar, i \in Id : GivesUp(p, i)
  \/ \E a \in answers : Resolves(a)
  \/ \E r \in toHost : Serves(r)
  \/ \E r \in handling : Decides(r)
  \/ GivenUp \/ Boots

ChannelSpec == ChannelInit /\ [][ChannelNext]_channelVars
-----------------------------------------------------------------------------
(* Properties                                                              *)

\* However late an answer comes, and whatever the process has asked since, a
\* call is never given the answer of another call of its process: not the
\* user's decision on another tool, not another tool's result.
OwnAnswers == \A r \in resolved : r[1][1] = r[2][1] => r[1] = r[2]

\* stdio_jsonrpc.py, of an answer to a request the process did not make:
\* "Stray string-id response we didn't issue - ignore."
StraysAreIgnored == \A r \in resolved : r[1][1] = r[2][1]
=============================================================================
