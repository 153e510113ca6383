----------------------------- MODULE Supervisor -----------------------------
(***************************************************************************)
(* The host's supervisor of the sidecar process (agent-shell,              *)
(* sidecar/supervisor.ts): boot and the ready marker, the health check,    *)
(* restarts and shutdown.                                                  *)
(*                                                                         *)
(* One Node thread: a step is the handling of one event (a process that    *)
(* exits, its marker, a timer, the end of an awaited call) with the promise *)
(* continuations it releases.  Each spawned process has a number of its    *)
(* own; the RPC calls it serves are left to module ChatTurn.               *)
(***************************************************************************)
EXTENDS Naturals, FiniteSets

CONSTANTS
  MaxSpawns,   (* bound: processes spawned                                  *)
  MaxCrashes,  (* bound: exits nobody asked for                             *)
  MaxPingFailures (* bound: times the health check gives up on a process    *)

ASSUME BoundAssumption == {MaxSpawns, MaxCrashes, MaxPingFailures} \subseteq Nat

VARIABLES
  (* the processes *)
  proc,      (* "unborn", "booting", "ready" (printed its marker), "exited" *)
  asked,     (* processes that were sent a signal or system.shutdown        *)
  (* the supervisor *)
  child,     (* this.child; 0 = null                                        *)
  planning,  (* boot() calls awaiting resolveSandboxedSpawn                 *)
  waits,     (* boot() calls awaiting the marker, by the process they began *)
  timers,    (* restarts scheduled                                          *)
  intervals, (* health intervals that fire                                  *)
  held,      (* this.healthTimer is set                                     *)
  shut,      (* shutdown(): "no", "asking", "waiting", "done"               *)
  (* history *)
  crashes,
  gaveUp,    (* times the health check gave up                              *)
  refused,   (* a spawn plan was refused                                    *)
  late       (* processes spawned after shutdown was called                 *)

vars == <<proc, asked, child, planning, waits, timers, intervals, held, shut,
          crashes, gaveUp, refused, late>>
history == <<crashes, gaveUp, refused, late>>

Proc  == 1..MaxSpawns
Alive == {i \in Proc : proc[i] \in {"booting", "ready"}}
shuttingDown == shut # "no"

TypeOK ==
  /\ proc \in [Proc -> {"unborn", "booting", "ready", "exited"}]
  /\ asked \subseteq Proc
  /\ child \in 0..MaxSpawns
  /\ planning \in Nat
  /\ waits \subseteq Proc
  /\ timers \in Nat
  /\ intervals \in Nat
  /\ held \in BOOLEAN
  /\ shut \in {"no", "asking", "waiting", "done"}
  /\ crashes \in 0..MaxCrashes
  /\ gaveUp \in 0..MaxPingFailures
  /\ refused \in BOOLEAN
  /\ late \subseteq Proc

\* start(): the first boot().
Init ==
  /\ proc = [i \in Proc |-> "unborn"]
  /\ asked = {}
  /\ child = 0
  /\ planning = 1
  /\ waits = {}
  /\ timers = 0
  /\ intervals = 0
  /\ held = FALSE
  /\ shut = "no"
  /\ crashes = 0
  /\ gaveUp = 0
  /\ refused = FALSE
  /\ late = {}
-----------------------------------------------------------------------------
StopHealthTimerUnheld ==
  /\ intervals' = intervals - 1
  /\ held' = FALSE

\* stopHealthTimer
StopHealthTimer ==
  /\ intervals' = IF held THEN intervals - 1 ELSE intervals
  /\ held' = FALSE

ScheduleRestartTwice ==
  IF shuttingDown
  THEN UNCHANGED <<timers, intervals, held>>
  ELSE timers' = timers + 2 /\ StopHealthTimer

ScheduleRestartUnlessBooting ==
  IF shuttingDown \/ waits # {}
  THEN UNCHANGED <<timers, intervals, held>>
  ELSE timers' = timers + 1 /\ StopHealthTimer

\* scheduleRestart
ScheduleRestart ==
  IF shuttingDown
  THEN UNCHANGED <<timers, intervals, held>>
  ELSE timers' = timers + 1 /\ StopHealthTimer

\* boot() has its spawn plan: the process is spawned, whatever has happened to
\* the supervisor since boot() was called.
Spawn(i) ==
  /\ planning > 0
  /\ proc[i] = "unborn"
  /\ \A j \in Proc : j < i => proc[j] # "unborn"
  /\ planning' = planning - 1
  /\ proc' = [proc EXCEPT ![i] = "booting"]
  /\ child' = i
  /\ waits' = waits \cup {i}
  /\ late' = IF shuttingDown THEN late \cup {i} ELSE late
  /\ UNCHANGED <<asked, timers, intervals, held, shut,
                 crashes, gaveUp, refused>>

\* The sandbox cannot be planned: boot() throws, and nothing is scheduled.
PlanRefused ==
  /\ planning > 0
  /\ planning' = planning - 1
  /\ refused' = TRUE
  /\ UNCHANGED <<proc, asked, child, waits, timers, intervals, held, shut,
                 crashes, gaveUp, late>>

\* A ready marker resolves every boot() that waits for one.
Marker(i) ==
  /\ proc[i] = "booting"
  /\ proc' = [proc EXCEPT ![i] = "ready"]
  /\ waits' = {}
  /\ intervals' = intervals + Cardinality(waits)
  /\ held' = (held \/ waits # {})
  /\ UNCHANGED <<asked, child, planning, timers, shut, history>>

BootTimesOutUnkilled(i) ==
  /\ i \in waits
  /\ waits' = waits \ {i}
  /\ child' = 0
  /\ UNCHANGED <<proc, asked, planning, timers, intervals, held, shut, history>>

\* No marker in time: boot() kills its process.
BootTimesOut(i) ==
  /\ i \in waits
  /\ waits' = waits \ {i}
  /\ asked' = asked \cup {i}
  /\ child' = 0
  /\ UNCHANGED <<proc, planning, timers, intervals, held, shut, history>>

\* A process exits: every boot() that waits for a marker fails, and kills the
\* process it began; then a restart is scheduled.
Exits(i) ==
  /\ i \in Alive
  /\ IF i \in asked THEN UNCHANGED crashes
     ELSE crashes < MaxCrashes /\ crashes' = crashes + 1
  /\ proc' = [proc EXCEPT ![i] = "exited"]
  /\ waits' = {}
  /\ asked' = asked \cup waits
  /\ child' = IF waits = {} THEN child ELSE 0
  /\ ScheduleRestart
  /\ UNCHANGED <<planning, shut, gaveUp, refused, late>>

\* restart(): SIGTERM for the current child, if any, and boot() again.
Restart ==
  /\ timers > 0
  /\ timers' = timers - 1
  /\ IF shuttingDown
     THEN UNCHANGED <<asked, child, planning>>
     ELSE /\ asked' = IF child = 0 THEN asked ELSE asked \cup {child}
          /\ child' = 0
          /\ planning' = planning + 1
  /\ UNCHANGED <<proc, waits, intervals, held, shut, history>>

\* runHealthCheck, for the third time in a row: the process does not answer.
PingsFail ==
  /\ intervals > 0
  /\ ~ shuttingDown
  /\ child # 0
  /\ gaveUp < MaxPingFailures
  /\ gaveUp' = gaveUp + 1
  /\ ScheduleRestart
  /\ UNCHANGED <<proc, asked, child, planning, waits, shut,
                 crashes, refused, late>>
-----------------------------------------------------------------------------
\* shutdown(): the child, if there is one, is asked to stop.
Shutdown ==
  /\ shut = "no"
  /\ StopHealthTimer
  /\ shut' = IF child = 0 THEN "done" ELSE "asking"
  /\ asked' = IF child = 0 THEN asked ELSE asked \cup {child}
  /\ UNCHANGED <<proc, child, planning, waits, timers, history>>

\* It answered, or two seconds passed.
ShutdownWaits ==
  /\ shut = "asking"
  /\ shut' = "waiting"
  /\ UNCHANGED <<proc, asked, child, planning, waits, timers, intervals, held, history>>

\* It exited, or is killed after two more.
ShutdownReturns ==
  /\ shut = "waiting"
  /\ shut' = "done"
  /\ child' = 0
  /\ UNCHANGED <<proc, asked, planning, waits, timers, intervals, held, history>>
-----------------------------------------------------------------------------
ProcStep(i) == Spawn(i) \/ Marker(i) \/ BootTimesOut(i) \/ Exits(i)

Next ==
  \/ \E i \in Proc : ProcStep(i)
  \/ PlanRefused \/ Restart \/ PingsFail
  \/ Shutdown \/ ShutdownWaits \/ ShutdownReturns

Spec == Init /\ [][Next]_vars

\* Timers fire, plans are made, a process that is let alone prints its marker
\* and one that was sent a signal exits.
Fairness ==
  /\ WF_vars(Restart)
  /\ WF_vars(PlanRefused \/ \E i \in Proc : Spawn(i))
  /\ WF_vars(ShutdownWaits) /\ WF_vars(ShutdownReturns)
  /\ \A i \in Proc : /\ WF_vars(Marker(i))
                     /\ WF_vars(i \in asked /\ Exits(i))

FairSpec == Spec /\ Fairness
-----------------------------------------------------------------------------
(***************************************************************************)
(* Properties                                                              *)
(***************************************************************************)

\* As long as processes only fail by exiting or by booting too slowly, there
\* is one of: a process, a boot being planned, a restart scheduled.
SingleLineage ==
  gaveUp = 0 => Cardinality(Alive) + planning + timers <= 1

\* ... so whatever exits, and whenever, the supervisor comes back to a ready
\* process, unless it shuts down or a spawn plan is refused.
Serving == child # 0 /\ proc[child] = "ready"
RecoversFromExit ==
  (child = 0 \/ proc[child] = "exited")
    ~> (Serving \/ shuttingDown \/ refused \/ gaveUp > 0 \/ proc[MaxSpawns] # "unborn")

\* No process is forgotten: one that lives is the child, or was told to go, and
\* once shutdown is called it was told to go; only a process that a boot spawns
\* after that is neither.
NoOrphan ==
  gaveUp = 0 =>
    Alive \subseteq asked \cup late \cup (IF shuttingDown THEN {} ELSE {child})
=============================================================================
