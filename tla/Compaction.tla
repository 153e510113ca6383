----------------------------- MODULE Compaction -----------------------------
(***************************************************************************)
(* When a loop's transcript is compacted (compaction.py): the pressure     *)
(* path of pre_step with its hysteresis and its two circuit breakers, the  *)
(* periodic and the manual pass, and the forced passes after a request     *)
(* that did not fit.  As in the default harness (harness.py) the forced    *)
(* passes belong to a CompactionHooks object of their own, so that they    *)
(* leave the state of the pressure path alone.                             *)
(*                                                                         *)
(* A transcript is its estimated size.  What folding and summarizing leave *)
(* of it is any size they can leave: the head and the tail always stay.    *)
(***************************************************************************)
EXTENDS Naturals, Sequences

CONSTANTS
  Window,       (* max_context_tokens                                       *)
  Threshold,    (* threshold_ratio of it                                    *)
  Margin,       (* recompact_margin_ratio of it                             *)
  Kept,         (* the least a pass can leave                               *)
  Slack,        (* how far the provider's count may exceed the estimate     *)
  Growth,       (* what a round may add                                     *)
  MicroEvery,   (* micro_compact_interval_rounds; 0 is off                  *)
  RefillWindow, (* rapid_refill_window_rounds                               *)
  MaxRefills,   (* max_rapid_refills                                        *)
  MaxFailures,  (* max_consecutive_failures                                 *)
  MaxRetries,   (* max_overflow_retries                                     *)
  MaxRounds     (* bound: rounds of the loop                                *)

ASSUME CompactionAssumption ==
  /\ {Window, Threshold, Margin, Kept, Slack, MicroEvery} \subseteq Nat
  /\ {RefillWindow, MaxRefills, MaxFailures, MaxRetries, MaxRounds} \subseteq Nat \ {0}
  /\ Growth \subseteq Nat

Never == 0   (* "no compaction yet": rounds and pressures count from one     *)

VARIABLES
  round,        (* ctx.round_index, from one                                *)
  stage,        (* "pre" (before pre_step), "request", "sent", "failed"     *)
  tokens,       (* the estimate of the transcript                           *)
  lastPressure, (* _last_compaction_pressure                                *)
  failures,     (* _consecutive_failures                                    *)
  refills,      (* _rapid_refills                                           *)
  lastRound,    (* _last_compact_round                                      *)
  circuit,      (* circuit_reason, "closed" while circuit_open is false     *)
  retryRound,   (* _overflow_round                                          *)
  retries,      (* _overflow_attempts                                       *)
  story,        (* history: of each pressure pass since the last healthy    *)
                (* round or manual pass, "worked" or "failed"              *)
  worked        (* history: the rounds of those that did, after that of the *)
                (* last one before (Never, if a manual pass came since)     *)

compactionVars == <<round, stage, tokens, lastPressure, failures, refills,
                    lastRound, circuit, retryRound, retries, story, worked>>

CompactionTypeOK ==
  /\ round \in 1..MaxRounds
  /\ stage \in {"pre", "request", "sent", "failed"}
  /\ tokens \in Nat /\ lastPressure \in Nat
  /\ failures \in Nat /\ refills \in Nat
  /\ lastRound \in 0..MaxRounds
  /\ circuit \in {"closed", "consecutive_failures", "rapid_refill"}
  /\ retryRound \in 0..MaxRounds /\ retries \in 0..(MaxRetries + 1)
  /\ story \in Seq({"worked", "failed"})
  /\ worked \in Seq(0..MaxRounds)

CompactionInit ==
  /\ round = 1 /\ stage = "pre" /\ tokens \in Growth
  /\ lastPressure = Never /\ failures = 0 /\ refills = 0 /\ lastRound = Never
  /\ circuit = "closed" /\ retryRound = Never /\ retries = 0
  /\ story = <<>> /\ worked = <<Never>>

\* The periodic pass comes before the pressure is looked at, and instead of it,
\* unless there is nothing to fold.
MicroDue == MicroEvery > 0 /\ round > 1 /\ (round - 1) % MicroEvery = 0

MicroCompact ==
  /\ stage = "pre" /\ MicroDue
  /\ \E after \in Kept..(tokens - 1) : tokens' = after
  /\ stage' = "request"
  /\ UNCHANGED <<round, lastPressure, failures, refills, lastRound, circuit,
                 retryRound, retries, story, worked>>

\* A healthy round resets both counts.
Healthy ==
  /\ stage = "pre" /\ tokens < Threshold
  /\ failures' = 0 /\ refills' = 0
  /\ stage' = "request"
  /\ story' = <<>> /\ worked' = <<worked[Len(worked)]>>
  /\ UNCHANGED <<round, tokens, lastPressure, lastRound, circuit, retryRound,
                 retries>>

WithinMargin == lastPressure # Never /\ tokens < lastPressure + Margin

\* The open circuit, or the margin, holds the pass back.
Held ==
  /\ stage = "pre" /\ tokens >= Threshold
  /\ circuit # "closed" \/ WithinMargin
  /\ stage' = "request"
  /\ UNCHANGED <<round, tokens, lastPressure, failures, refills, lastRound,
                 circuit, retryRound, retries, story, worked>>

\* Variant: a compaction is a refill however long ago the last one was.
AlwaysRefilled == lastRound # Never

\* _note_successful_compaction.
Refilled == lastRound # Never /\ round - lastRound <= RefillWindow

NoteSuccess ==
  LET n == IF Refilled THEN refills + 1 ELSE 0
  IN  /\ failures' = 0
      /\ refills' = n
      /\ lastRound' = round
      /\ circuit' = IF n >= MaxRefills /\ circuit = "closed" THEN "rapid_refill" ELSE circuit

NoteFailure ==
  /\ failures' = failures + 1
  /\ circuit' = IF failures + 1 >= MaxFailures THEN "consecutive_failures" ELSE circuit
  /\ UNCHANGED <<refills, lastRound>>

\* A pressure pass: folding is enough, or the middle is summarized, whatever
\* that gives (the summary is a message more); getting under the threshold
\* decides which count it goes to.
PressurePass ==
  /\ stage = "pre" /\ tokens >= Threshold
  /\ circuit = "closed" /\ ~WithinMargin
  /\ \E after \in {tokens} \cup Kept..(tokens + 1) :
       /\ tokens' = after
       /\ IF after < Threshold THEN NoteSuccess ELSE NoteFailure
       /\ story' = Append(story, IF after < Threshold THEN "worked" ELSE "failed")
       /\ worked' = IF after < Threshold THEN Append(worked, round) ELSE worked
  /\ lastPressure' = tokens
  /\ stage' = "request"
  /\ UNCHANGED <<round, retryRound, retries>>

\* compact_now, after the regular pre_step of the round: whatever the counts,
\* which it resets, and with the circuit left as it is.
ManualPass ==
  /\ stage = "request"
  /\ \/ \E after \in Kept..(tokens - 1) :
          tokens' = after /\ lastPressure' = tokens
     \/ UNCHANGED <<tokens, lastPressure>>
  /\ failures' = 0 /\ refills' = 0 /\ lastRound' = Never
  /\ story' = <<>> /\ worked' = <<Never>>
  /\ UNCHANGED <<round, stage, circuit, retryRound, retries>>

\* The request fits, by the provider's count.
Fits ==
  /\ stage = "request" /\ tokens <= Window + Slack
  /\ stage' = "sent"
  /\ UNCHANGED <<round, tokens, lastPressure, failures, refills, lastRound,
                 circuit, retryRound, retries, story, worked>>

\* Variant: the count starts anew with every error.
FirstAttempt == 1

\* Attempts of this round, the one that is made included.
Attempt == IF retryRound = round THEN retries + 1 ELSE 1

\* on_request_error: a forced pass and another try, or the turn fails.
Overflows ==
  /\ stage = "request" /\ tokens + Slack > Window
  /\ retryRound' = round /\ retries' = Attempt
  /\ IF Attempt > MaxRetries THEN stage' = "failed" /\ UNCHANGED tokens
     ELSE /\ \E after \in {tokens} \cup Kept..(tokens + 1) : tokens' = after
          /\ UNCHANGED stage
  /\ UNCHANGED <<round, lastPressure, failures, refills, lastRound, circuit, story,
                 worked>>

\* The model's calls and their results.
NextRound ==
  /\ stage = "sent" /\ round < MaxRounds
  /\ \E more \in Growth : tokens' = tokens + more
  /\ round' = round + 1 /\ stage' = "pre"
  /\ UNCHANGED <<lastPressure, failures, refills, lastRound, circuit, retryRound,
                 retries, story, worked>>

PreStep == MicroCompact \/ Healthy \/ Held \/ PressurePass

CompactionNext == PreStep \/ ManualPass \/ Fits \/ Overflows \/ NextRound

CompactionSpec == CompactionInit /\ [][CompactionNext]_compactionVars

\* pre_step returns, and the provider answers a request one way or the other;
\* the model need not call for another round.
CompactionFairness ==
  WF_compactionVars(PreStep) /\ WF_compactionVars(Fits \/ Overflows)
-----------------------------------------------------------------------------
(***************************************************************************)
(* Properties                                                              *)
(***************************************************************************)

\* A transcript that never fits does not keep the loop compacting: every round
\* is sent or given up, with manual passes in between as often as one likes.
RoundsEnd == stage = "pre" ~> stage \in {"sent", "failed"}

\* A breaker opens only on what its name says, with no healthy round and no
\* manual pass in between: so many passes in a row that left the transcript
\* over the threshold, or so many that worked and whose predecessor's room was
\* filled again within the window each time.
FailedInARow ==
  LET n == Len(story')
  IN  n >= MaxFailures /\ \A i \in (n - MaxFailures + 1)..n : story'[i] = "failed"
RefilledInARow ==
  LET n == Len(worked')
  IN  /\ n > MaxRefills
      /\ \A i \in (n - MaxRefills + 1)..n :
           worked'[i - 1] # Never /\ worked'[i] - worked'[i - 1] <= RefillWindow
BreakerIsEarned ==
  [][circuit' # circuit =>
       \/ circuit' = "consecutive_failures" /\ FailedInARow
       \/ circuit' = "rapid_refill" /\ RefilledInARow]_compactionVars
=============================================================================
