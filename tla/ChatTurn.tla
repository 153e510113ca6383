------------------------------ MODULE ChatTurn ------------------------------
(***************************************************************************)
(* The turns of one chat, from the host's promise to the sidecar's task:   *)
(* streamCoreLoopTurn (agent-shell, local-backend/coreloop-stream.ts) and  *)
(* SidecarSupervisor.streamChat (sidecar/supervisor.ts) on the host, the   *)
(* agent.chat.stream and agent.chat.cancel handlers and the stream's       *)
(* background task (steerable_sidecar/sidecar.py) in the sidecar, and the  *)
(* two pipes in between.                                                   *)
(*                                                                         *)
(* The pipes keep order.  The host handles all the frames of a chunk       *)
(* before it runs a promise continuation, so what it does on an answer     *)
(* comes after everything else in the chunk.  What a turn streams is left  *)
(* out, and so is steering.                                                *)
(***************************************************************************)
EXTENDS Naturals, Sequences

CONSTANTS
  Turn,       (* the turns, one after the other                             *)
  MaxDeaths  (* bound: deaths of the sidecar                                *)

ASSUME CrashAssumption == MaxDeaths \in Nat

VARIABLES
  (* the host's turn *)
  turn,      (* "idle", "starting", "open" (its stream id is known), or how *)
             (* its promise settled                                         *)
  call,      (* its agent.chat.stream call                                  *)
  listening, (* turns with their notification listeners registered          *)
  cancelling,(* turns whose user aborted                                    *)
  active,    (* activeCoreLoopStreams: the turn registered for the chat     *)
  (* the pipes *)
  toSidecar,
  toHost,
  (* the sidecar *)
  task,      (* the stream's task: "none", "setup", "running", "said" (the  *)
             (* completion), "raised" (in an `except`), "closing" (in the   *)
             (* `finally`), "ended"                                         *)
  loops,     (* _coreloops                                                  *)
  streams,   (* _streams                                                    *)
  stop,      (* turns whose loop was cancelled cooperatively                *)
  hard,      (* task.cancel() called and not delivered                      *)
  dogs,      (* armed watchdogs                                             *)
  deaths

hostVars    == <<turn, call, listening, cancelling, active>>
pipes       == <<toSidecar, toHost>>
sidecarVars == <<task, loops, streams, stop, hard, dogs>>
turnVars == <<hostVars, pipes, sidecarVars, deaths>>

NoTurn  == "none"
Settled == {"done", "error", "aborted", "start_failed"}
Frame   == [kind : {"start", "cancel", "answer", "refusal", "done", "error"},
            turn : Turn]

TurnTypeOK ==
  /\ turn \in [Turn -> {"idle", "starting", "open"} \cup Settled]
  /\ call \in [Turn -> {"none", "pending", "over"}]
  /\ active \in Turn \cup {NoTurn}
  /\ \A set \in {listening, cancelling, loops, streams, stop, hard, dogs} :
       set \subseteq Turn
  /\ toSidecar \in Seq(Frame)
  /\ toHost \in Seq(Frame)
  /\ task \in [Turn -> {"none", "setup", "running", "said", "raised", "closing",
                       "ended"}]
  /\ deaths \in 0..MaxDeaths

TurnInit ==
  /\ turn = [t \in Turn |-> "idle"]
  /\ call = [t \in Turn |-> "none"]
  /\ listening = {}
  /\ cancelling = {}
  /\ active = NoTurn
  /\ toSidecar = <<>>
  /\ toHost = <<>>
  /\ task = [t \in Turn |-> "none"]
  /\ loops = {}
  /\ streams = {}
  /\ stop = {}
  /\ hard = {}
  /\ dogs = {}
  /\ deaths = 0
-----------------------------------------------------------------------------
(***************************************************************************)
(* The host                                                                *)
(***************************************************************************)
IsSettled(t) == turn[t] \in Settled
Under(t)     == turn[t] \in {"starting", "open"}

\* streamCoreLoopTurn: the listeners wait for the answer.
Start(t) ==
  /\ turn[t] = "idle"
  /\ \A u \in Turn : ~ Under(u)
  /\ turn' = [turn EXCEPT ![t] = "starting"]
  /\ call' = [call EXCEPT ![t] = "pending"]
  /\ toSidecar' = Append(toSidecar, [kind |-> "start", turn |-> t])
  /\ UNCHANGED <<listening, cancelling, active, toHost, sidecarVars, deaths>>

\* onAbort: the sidecar is told if the stream's id is known.  (The answer that
\* comes later calls onAbort again, which then does nothing.)
Abort(t) ==
  /\ Under(t)
  /\ t \notin cancelling
  /\ cancelling' = cancelling \cup {t}
  /\ toSidecar' = IF turn[t] = "open"
                  THEN Append(toSidecar, [kind |-> "cancel", turn |-> t])
                  ELSE toSidecar
  /\ UNCHANGED <<turn, call, listening, active, toHost, sidecarVars, deaths>>

GraceExpiresIfUntold(t) ==
  /\ t \in cancelling
  /\ turn[t] = "starting"
  /\ turn' = [turn EXCEPT ![t] = "aborted"]
  /\ active' = NoTurn
  /\ UNCHANGED <<call, listening, cancelling, pipes, sidecarVars, deaths>>

\* CANCEL_GRACE_MS after the abort nothing has come.
GraceExpires(t) ==
  /\ t \in cancelling
  /\ Under(t)
  /\ turn' = [turn EXCEPT ![t] = "aborted"]
  /\ active' = NoTurn
  /\ UNCHANGED <<call, listening, cancelling, pipes, sidecarVars, deaths>>

\* The start call fails: startTimeoutMs passes.  A later answer is ignored.
StartTimesOut(t) ==
  /\ call[t] = "pending"
  /\ call' = [call EXCEPT ![t] = "over"]
  /\ turn' = [turn EXCEPT ![t] = IF Under(t) THEN "start_failed" ELSE @]
  /\ active' = IF Under(t) THEN NoTurn ELSE active
  /\ UNCHANGED <<listening, cancelling, pipes, sidecarVars, deaths>>

\* What the frames of a chunk mean to the host, as it was before the chunk.
Answered(chunk) == {t \in Turn : call[t] = "pending" /\ \E i \in DOMAIN chunk :
                                   chunk[i] = [kind |-> "answer", turn |-> t]}
Refused(chunk)  == {t \in Turn : call[t] = "pending" /\ \E i \in DOMAIN chunk :
                                   chunk[i] = [kind |-> "refusal", turn |-> t]}
AnsweredLast(chunk, t) ==
  \E i \in DOMAIN chunk :
    /\ chunk[i] = [kind |-> "answer", turn |-> t]
    /\ \A j \in DOMAIN chunk :
         j > i /\ chunk[j].kind = "answer" => chunk[j].turn \notin Answered(chunk)

\* The terminal notifications; the first one of a turn settles it.
Terminals(chunk, t) == {i \in DOMAIN chunk : /\ chunk[i].turn = t
                                            /\ chunk[i].kind \in {"done", "error"}}
Told(chunk)     == {t \in listening : Terminals(chunk, t) # {}}
ToldDone(chunk, t) ==
  \E i \in Terminals(chunk, t) : /\ chunk[i].kind = "done"
                                 /\ \A j \in Terminals(chunk, t) : i <= j

CleanedUpAlways(chunk) == Told(chunk) \cup {t \in Refused(chunk) : Under(t)}

\* The turns that settle, and so drop the chat's registration.
CleanedUp(chunk) == {t \in Told(chunk) \cup Refused(chunk) : Under(t)}

\* A chunk of n frames arrives.  A terminal notification reaches the turns that
\* listen; then, in a continuation of its own, an answered turn begins to.
HostReads(n) ==
  LET chunk == SubSeq(toHost, 1, n)
  IN /\ n \in 1..Len(toHost)
     /\ toHost' = SubSeq(toHost, n + 1, Len(toHost))
     /\ call' = [t \in Turn |-> IF t \in Answered(chunk) \cup Refused(chunk)
                                THEN "over" ELSE call[t]]
     /\ listening' = (listening \ Told(chunk)) \cup Answered(chunk)
     /\ turn' = [t \in Turn |->
                   CASE Under(t) /\ t \in Told(chunk) ->
                          IF ToldDone(chunk, t) THEN "done" ELSE "error"
                     [] Under(t) /\ t \in Refused(chunk) -> "start_failed"
                     [] turn[t] = "starting" /\ t \in Answered(chunk) -> "open"
                     [] OTHER -> turn[t]]
     /\ \/ \E t \in Answered(chunk) : AnsweredLast(chunk, t) /\ active' = t
        \/ /\ Answered(chunk) = {}
           /\ active' = IF CleanedUp(chunk) # {} THEN NoTurn ELSE active
     /\ UNCHANGED <<cancelling, toSidecar, sidecarVars, deaths>>
-----------------------------------------------------------------------------
(***************************************************************************)
(* The sidecar                                                             *)
(***************************************************************************)
Receives(kind, t) ==
  /\ toSidecar # <<>>
  /\ Head(toSidecar) = [kind |-> kind, turn |-> t]
  /\ toSidecar' = Tail(toSidecar)

Emit(kind, t) == toHost' = Append(toHost, [kind |-> kind, turn |-> t])

\* _handle_chat_stream: the parameters are refused ...
Refuse(t) ==
  /\ Receives("start", t)
  /\ Emit("refusal", t)
  /\ UNCHANGED <<hostVars, sidecarVars, deaths>>

\* ... or a task is created for the stream and its id answered.
Accept(t) ==
  /\ Receives("start", t)
  /\ Emit("answer", t)
  /\ task' = [task EXCEPT ![t] = "setup"]
  /\ streams' = streams \cup {t}
  /\ UNCHANGED <<hostVars, loops, stop, hard, dogs, deaths>>

NotDone(t) == task[t] \notin {"none", "ended"}

HandleCancelUnwatched(t) ==
  /\ Receives("cancel", t)
  /\ IF t \in loops
     THEN stop' = stop \cup {t} /\ UNCHANGED <<dogs, streams, hard>>
     ELSE /\ streams' = streams \ {t}
          /\ hard' = IF t \in streams /\ NotDone(t) THEN hard \cup {t} ELSE hard
          /\ UNCHANGED <<stop, dogs>>
  /\ UNCHANGED <<hostVars, toHost, task, loops, deaths>>

\* _handle_chat_cancel: a loop winds down cooperatively under a watchdog; a
\* stream without one is cancelled outright.
HandleCancel(t) ==
  /\ Receives("cancel", t)
  /\ IF t \in loops
     THEN /\ stop' = stop \cup {t}
          /\ dogs' = IF t \in streams THEN dogs \cup {t} ELSE dogs
          /\ UNCHANGED <<streams, hard>>
     ELSE /\ streams' = streams \ {t}
          /\ hard' = IF t \in streams /\ NotDone(t) THEN hard \cup {t} ELSE hard
          /\ UNCHANGED <<stop, dogs>>
  /\ UNCHANGED <<hostVars, toHost, task, loops, deaths>>

\* _hard_cancel_after
DogFires(t) ==
  /\ t \in dogs
  /\ dogs' = dogs \ {t}
  /\ hard' = IF NotDone(t) THEN hard \cup {t} ELSE hard
  /\ UNCHANGED <<hostVars, pipes, task, loops, streams, stop, deaths>>

\* _run_chat_stream_coreloop: setting up, up to the loop's registration.  (A
\* cancelled task goes no further than the await it is at.)
SetupDone(t) ==
  /\ task[t] = "setup"
  /\ t \notin hard
  /\ task' = [task EXCEPT ![t] = "running"]
  /\ loops' = loops \cup {t}
  /\ UNCHANGED <<hostVars, pipes, streams, stop, hard, dogs, deaths>>

\* It raises: _run_chat_stream_coreloop_guarded says so and ends; the stream
\* stays registered.
SetupFails(t) ==
  /\ task[t] = "setup"
  /\ t \notin hard
  /\ task' = [task EXCEPT ![t] = "ended"]
  /\ Emit("error", t)
  /\ UNCHANGED <<hostVars, toSidecar, loops, streams, stop, hard, dogs, deaths>>

\* It is cancelled: nothing is said.
SetupKilled(t) ==
  /\ task[t] = "setup"
  /\ t \in hard
  /\ task' = [task EXCEPT ![t] = "ended"]
  /\ hard' = hard \ {t}
  /\ UNCHANGED <<hostVars, pipes, loops, streams, stop, dogs, deaths>>

\* The loop ends: with a completion, or by raising.
Completes(t) ==
  /\ task[t] = "running"
  /\ t \notin hard
  /\ task' = [task EXCEPT ![t] = "said"]
  /\ Emit("done", t)
  /\ UNCHANGED <<hostVars, toSidecar, loops, streams, stop, hard, dogs, deaths>>

Raises(t) ==
  /\ task[t] = "running"
  /\ t \notin hard
  /\ task' = [task EXCEPT ![t] = "raised"]
  /\ Emit("error", t)
  /\ UNCHANGED <<hostVars, toSidecar, loops, streams, stop, hard, dogs, deaths>>

KilledSilently(t) ==
  /\ task[t] \in {"running", "said"}
  /\ t \in hard
  /\ task' = [task EXCEPT ![t] = "raised"]
  /\ hard' = hard \ {t}
  /\ UNCHANGED <<hostVars, pipes, loops, streams, stop, dogs, deaths>>

KilledAsCancelled(t) ==
  /\ task[t] \in {"running", "said"}
  /\ t \in hard
  /\ task' = [task EXCEPT ![t] = "raised"]
  /\ hard' = hard \ {t}
  /\ Emit("cancelled", t)
  /\ UNCHANGED <<hostVars, toSidecar, loops, streams, stop, dogs, deaths>>

\* CancelledError in the `try`: stream.done, a second one if the completion
\* was out already.
Killed(t) ==
  /\ task[t] \in {"running", "said"}
  /\ t \in hard
  /\ task' = [task EXCEPT ![t] = "raised"]
  /\ hard' = hard \ {t}
  /\ Emit("done", t)
  /\ UNCHANGED <<hostVars, toSidecar, loops, streams, stop, dogs, deaths>>

\* The `finally`: the loop is unregistered, the children are wound down ...
Closes(t) ==
  /\ \/ task[t] = "said" /\ t \notin hard
     \/ task[t] = "raised"
  /\ task' = [task EXCEPT ![t] = "closing"]
  /\ loops' = loops \ {t}
  /\ hard' = hard \ {t}
  /\ UNCHANGED <<hostVars, pipes, streams, stop, dogs, deaths>>

\* ... and at last the stream, which a cancellation in the `finally` may keep.
Closed(t) ==
  /\ task[t] = "closing"
  /\ task' = [task EXCEPT ![t] = "ended"]
  /\ \/ streams' = streams \ {t}
     \/ t \in hard /\ streams' = streams
  /\ hard' = hard \ {t}
  /\ UNCHANGED <<hostVars, pipes, loops, stop, dogs, deaths>>

\* The sidecar dies and is started again: the calls in flight are rejected,
\* the pipes and the tasks are gone.
Crash ==
  /\ deaths < MaxDeaths
  /\ deaths' = deaths + 1
  /\ call' = [t \in Turn |-> IF call[t] = "pending" THEN "over" ELSE call[t]]
  /\ turn' = [t \in Turn |-> IF turn[t] = "starting" /\ call[t] = "pending"
                             THEN "start_failed" ELSE turn[t]]
  /\ active' = IF \E t \in Turn : turn[t] = "starting" /\ call[t] = "pending"
               THEN NoTurn ELSE active
  /\ toSidecar' = <<>>
  /\ toHost' = <<>>
  /\ task' = [t \in Turn |-> IF task[t] = "none" THEN "none" ELSE "ended"]
  /\ loops' = {}
  /\ streams' = {}
  /\ stop' = {}
  /\ hard' = {}
  /\ dogs' = {}
  /\ UNCHANGED <<listening, cancelling>>
-----------------------------------------------------------------------------
HostStep(t) == Start(t) \/ Abort(t) \/ GraceExpires(t) \/ StartTimesOut(t)

TaskStep(t) ==
  \/ SetupDone(t) \/ SetupFails(t) \/ SetupKilled(t)
  \/ Completes(t) \/ Raises(t) \/ Killed(t) \/ Closes(t) \/ Closed(t)

SidecarReads(t) == Refuse(t) \/ Accept(t) \/ HandleCancel(t)

TurnNext ==
  \/ \E t \in Turn : HostStep(t) \/ SidecarReads(t) \/ DogFires(t) \/ TaskStep(t)
  \/ \E n \in 1..Len(toHost) : HostReads(n)
  \/ Crash

TurnSpec == TurnInit /\ [][TurnNext]_turnVars

\* Timers fire, frames are handled, cancellations are delivered and a task that
\* closes does so in bounded time; a setup or a loop need not end by itself.
TurnFairness ==
  /\ WF_turnVars(\E t \in Turn : SidecarReads(t))
  /\ WF_turnVars(\E n \in 1..Len(toHost) : HostReads(n))
  /\ \A t \in Turn : /\ WF_turnVars(GraceExpires(t))
                     /\ WF_turnVars(StartTimesOut(t))
                     /\ WF_turnVars(DogFires(t))
                     /\ WF_turnVars(SetupKilled(t))
                     /\ WF_turnVars(Killed(t))
                     /\ WF_turnVars(Closes(t))
                     /\ WF_turnVars(Closed(t))

TurnFairSpec == TurnSpec /\ TurnFairness
-----------------------------------------------------------------------------
(***************************************************************************)
(* Properties                                                              *)
(***************************************************************************)

\* A steer for the chat reaches the turn in progress: neither the late answer
\* nor the late end of a turn given up on touches its registration.
OpenTurnIsRegistered ==
  \A t \in Turn : turn[t] = "open" => active = t

\* An abort settles the turn, whatever has become of the sidecar.
AbortSettles ==
  \A t \in Turn : (t \in cancelling /\ Under(t)) ~> IsSettled(t)

\* A cancel that reaches the sidecar ends the stream, cooperatively or not,
\* and every loop of a stream that ends is unregistered.
CancelEndsTheStream ==
  \A t \in Turn : (t \in stop \cup hard) ~> (task[t] = "ended" /\ t \notin loops)

\* A loop that ends is heard: every stream that got as far as running emits a
\* terminal notification before it is over, also when it is cancelled.
Heard(t) == \E i \in DOMAIN toHost : toHost[i] \in [kind : {"done", "error"}, turn : {t}]
EndOfALoopIsSaid ==
  [][\A t \in Turn : task[t] = "running" /\ task'[t] \notin {"running", "ended"}
       => Heard(t)']_turnVars

(***************************************************************************)
(* A statement of the source that does not hold                            *)
(***************************************************************************)

\* The host waits for a notification that cannot come any more.
Stranded(t) ==
  /\ turn[t] = "open"
  /\ t \notin cancelling
  /\ task[t] = "ended"
  /\ ~ Heard(t)

\* No end of a stream may "strand the host waiting for a terminal event that
\* never comes".
NoHostIsStranded == \A t \in Turn : ~ Stranded(t)
=============================================================================
