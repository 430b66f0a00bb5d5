------------------------------ MODULE AgentLoop ------------------------------
(***************************************************************************)
(* A task: runAgentLoop of src/src/orchestrator/loop.ts around             *)
(* runAgentStep (AgentStep), with the Stop button of the panel pressed at  *)
(* any moment. The loop is given settle and pageFingerprint, as runTask of *)
(* src/src/entrypoints/background.ts always gives them.                    *)
(***************************************************************************)
EXTENDS AgentStep

CONSTANTS
    MaxSteps,       \* options.maxSteps
    MaxStall,       \* options.maxStallSteps
    MaxRepeats,     \* options.maxRepeats
    Fingerprints    \* what pageFingerprint can answer

ASSUME LoopAssumption ==
    /\ MaxSteps \in Nat
    /\ MaxStall \in Nat \ {0}
    /\ MaxRepeats \in Nat \ {0}

VARIABLES
    at,             \* where runAgentLoop is
    lastKey,        \* the action planned last
    repeats,        \* how often it has been planned again in a row
    stalls,         \* consecutive steps with no observable change
    actionsTaken,   \* reported in the LoopResult
    reason,         \* why the loop stopped
    stopRequested,  \* background's flag, set by agent/stop
    probes,         \* observation: fingerprints of this run, oldest first
    detects         \* observation: outcomes of this run's vision requests

loopVars == <<at, lastKey, repeats, stalls, actionsTaken, reason, probes, detects>>
vars     == <<callVars, stepVars, loopVars, stopRequested>>

Places  == {"ready", "top", "stepping", "settling", "probing", "stopped"}
Reasons == {"none", "done", "abort", "ask_user", "error", "max-steps",
            "cancelled", "no-progress", "repeating", "thrown"}

(* What an ExecutedStep of the history records.                              *)
Earlier == [step |-> 0, action |-> NoAction, ok |-> TRUE]
Entry(missed) == [step |-> step, action |-> action, ok |-> ~missed]

(* The last n entries of s are the same.                                     *)
Steady(s, n) ==
    Len(s) >= n /\ \A i \in Len(s) - n + 1 .. Len(s) : s[i] = s[Len(s)]

(* The actions of this run in the order they were planned.                   *)
Planned(h) == [i \in 1 .. Len(h) |-> h[i].action.key]

Init ==
    /\ StepInit
    /\ input \in StepInputs
    /\ step = 0
    /\ history = IF input.prior THEN <<Earlier>> ELSE <<>>
    /\ visionFailures \in 0 .. VisionFailureLimit
    /\ at = "ready"
    /\ lastKey = NoKey
    /\ repeats = 0
    /\ stalls = 0
    /\ actionsTaken = 0
    /\ reason = "none"
    /\ stopRequested = FALSE
    /\ probes = <<>>
    /\ detects = <<>>

-----------------------------------------------------------------------------
Stop(why) == at' = "stopped" /\ reason' = why

(* The loop is called and forgets the vision failures of earlier runs.       *)
LoopStarts ==
    /\ at = "ready"
    /\ at' = "top"
    /\ visionFailures' = 0
    /\ UNCHANGED <<callVars, stage, viewVars, replyVars, sendVars, outVars, executed,
                   captured, lastKey, repeats, stalls, actionsTaken, reason, probes,
                   detects, stopRequested>>

(* Mutant: Stop is not looked at before a step.                              *)
MayBeginAnyway == step < MaxSteps

(* shouldStop is read at the head of every iteration.                        *)
MayBegin == step < MaxSteps /\ ~stopRequested

BeginStep ==
    /\ at = "top"
    /\ MayBegin
    /\ at' = "stepping"
    /\ step' = step + 1
    /\ StepCalled
    /\ UNCHANGED <<input, history, lastKey, repeats, stalls, actionsTaken, reason,
                   probes, detects, stopRequested>>

CancelAtTop ==
    /\ at = "top"
    /\ step < MaxSteps
    /\ ~MayBegin
    /\ Stop("cancelled")
    /\ UNCHANGED <<callVars, stepVars, lastKey, repeats, stalls, actionsTaken, probes,
                   detects, stopRequested>>

(* Mutant: off by one against MayBegin.                                      *)
ExhaustedLate ==
    /\ at = "top"
    /\ step > MaxSteps
    /\ Stop("max-steps")
    /\ UNCHANGED <<callVars, stepVars, lastKey, repeats, stalls, actionsTaken, probes,
                   detects, stopRequested>>

Exhausted ==
    /\ at = "top"
    /\ step >= MaxSteps
    /\ Stop("max-steps")
    /\ UNCHANGED <<callVars, stepVars, lastKey, repeats, stalls, actionsTaken, probes,
                   detects, stopRequested>>

(* The step function runs to one of its awaits.                              *)
StepRuns ==
    /\ at = "stepping"
    /\ StepNext
    /\ detects' = IF stage = "detect" THEN Append(detects, visionFailures' = 0)
                  ELSE detects
    /\ UNCHANGED <<at, lastKey, repeats, stalls, actionsTaken, reason, probes,
                   stopRequested>>

StepFailed ==
    /\ at = "stepping"
    /\ stage = "returned"
    /\ ~result.ok
    /\ Stop("error")
    /\ stage' = "idle"
    /\ UNCHANGED <<callVars, visionFailures, viewVars, replyVars, sendVars, outVars,
                   executed, captured, lastKey, repeats, stalls, actionsTaken, probes,
                   detects, stopRequested>>

(* terminalReason                                                            *)
Terminal == action.type \in {"done", "abort", "ask_user"}

(* Mutant: only an action that landed counts as repeated.                    *)
RepeatsLanded ==
    IF action.key = lastKey /\ ~result.missed THEN repeats + 1 ELSE 0

Repeats == IF action.key = lastKey THEN repeats + 1 ELSE 0

(* The step's outcome is recorded; then a terminal action, or an action      *)
(* planned too often in a row, ends the run.                                 *)
StepReturned ==
    /\ at = "stepping"
    /\ stage = "returned"
    /\ result.ok
    /\ stage' = "idle"
    /\ history' = Append(history, Entry(result.missed))
    /\ IF Terminal
       THEN /\ Stop(action.type)
            /\ UNCHANGED <<lastKey, repeats, actionsTaken>>
       ELSE /\ actionsTaken' = actionsTaken + 1
            /\ repeats' = Repeats
            /\ IF Repeats >= MaxRepeats
               THEN Stop("repeating") /\ UNCHANGED lastKey
               ELSE at' = "settling" /\ lastKey' = action.key /\ UNCHANGED reason
    /\ UNCHANGED <<input, step, visionFailures, viewVars, replyVars, sendVars, outVars,
                   executed, captured, stalls, probes, detects, stopRequested>>

(* settle waits for the tab and swallows its errors.                         *)
Settled ==
    /\ at = "settling"
    /\ at' = "probing"
    /\ UNCHANGED <<callVars, stepVars, lastKey, repeats, stalls, actionsTaken, reason,
                   probes, detects, stopRequested>>

(* Mutant: the second fingerprint still counts as a baseline.                *)
UnchangedLate(f) == Len(probes) > 1 /\ probes[Len(probes)] = f

(* The first fingerprint of a run has nothing to be compared with.           *)
Unchanged(f) == probes # <<>> /\ probes[Len(probes)] = f

Probed(f) ==
    /\ at = "probing"
    /\ probes' = Append(probes, f)
    /\ stalls' = IF Unchanged(f) THEN stalls + 1 ELSE 0
    /\ IF Unchanged(f) /\ stalls + 1 >= MaxStall THEN Stop("no-progress")
       ELSE IF stopRequested THEN Stop("cancelled")
       ELSE at' = "top" /\ UNCHANGED reason
    /\ UNCHANGED <<callVars, stepVars, lastKey, repeats, actionsTaken, detects,
                   stopRequested>>

(* A fingerprint request that rejects rejects the whole loop.                *)
ProbeFails ==
    /\ at = "probing"
    /\ Stop("thrown")
    /\ UNCHANGED <<callVars, stepVars, lastKey, repeats, stalls, actionsTaken, probes,
                   detects, stopRequested>>

(* agent/stop                                                                *)
PressStop ==
    /\ at # "stopped"
    /\ stopRequested' = TRUE
    /\ UNCHANGED <<callVars, stepVars, loopVars>>

Progress ==
    \/ LoopStarts \/ BeginStep \/ CancelAtTop \/ Exhausted
    \/ StepRuns \/ StepFailed \/ StepReturned
    \/ Settled \/ ProbeFails
    \/ \E f \in Fingerprints : Probed(f)

Next == Progress \/ PressStop

Spec == Init /\ [][Next]_vars /\ WF_vars(Progress)

-----------------------------------------------------------------------------
(* The state the run is made of.                                             *)
EntryType == [step : 0 .. MaxSteps, action : Actions \cup {NoAction}, ok : BOOLEAN]

FlagsOK ==
    /\ retained \in BOOLEAN /\ uncovered \in BOOLEAN /\ recoverable \in BOOLEAN
    /\ context \in Contexts
    /\ result \in [ok : BOOLEAN, missed : BOOLEAN]
    /\ stopRequested \in BOOLEAN
    /\ detects \in Seq(BOOLEAN)

LocalsOK ==
    /\ visionFailures \in 0 .. VisionFailureLimit
    /\ stage \in Stages
    /\ ops \in 0 .. MaxOps
    /\ action \in Actions \cup {NoAction}
    /\ verdict \in Verdicts
    /\ asks \in 0 .. 3

ObservedOK ==
    /\ wire \subseteq Contexts
    /\ executed \in Seq([step : 1 .. MaxSteps, action : Actions])
    /\ captured \subseteq 1 .. MaxSteps
    /\ released \subseteq captured
    /\ probes \in Seq(Fingerprints)

LoopOK ==
    /\ input \in StepInputs
    /\ step \in 0 .. MaxSteps
    /\ history \in Seq(EntryType)
    /\ at \in Places
    /\ lastKey \in Keys \cup {NoKey}
    /\ repeats \in 0 .. MaxRepeats
    /\ stalls \in 0 .. MaxStall
    /\ actionsTaken \in 0 .. step
    /\ reason \in Reasons

TypeOK == FlagsOK /\ LocalsOK /\ ObservedOK /\ LoopOK

(* How the places of the loop and the stages of the step constrain the       *)
(* counters: what TypeOK needs to be inductive.                              *)
Control ==
    /\ at = "stepping" <=> stage # "idle"
    /\ at = "stepping" => step >= 1 /\ actionsTaken < step
    /\ at # "stopped" => repeats < MaxRepeats /\ stalls < MaxStall
    /\ stage \in {"snapshot", "capture", "detect", "retain", "redact", "bake",
                  "sanitize", "verify"} => asks = 0
    /\ stage = "plan" => asks = 1
    /\ stage = "replan" => asks = 2
    /\ stage = "correct" => asks \in 2 .. 3
    /\ stage = "detect" => visionFailures < VisionFailureLimit

(* Nothing reaches a planner that the gate did not pass, and no image in     *)
(* which an applied redaction is still legible: not on the first ask, the    *)
(* re-plan or the correction, whatever vision, retain and bake did.          *)
EgressSafe == \A c \in wire : c.clean /\ c.image # "exposed"

(* Only an action that validated against the context of its own step reaches *)
(* the page, at most one per step, and none in plan-only mode, even when the *)
(* reply that carried it was a correction or the client's own recovery.      *)
ActsValidated ==
    /\ \A i \in 1 .. Len(executed) : executed[i].action.code = "ok"
    /\ \A i, j \in 1 .. Len(executed) : i < j => executed[i].step < executed[j].step
    /\ input.planOnly => executed = <<>>

(* The history the next plan is made from says "ok" of a page action only if *)
(* that action validated and, outside plan-only mode, was sent to the page   *)
(* in the step the entry names.                                              *)
HistoryTruthful ==
    \A i \in 1 .. Len(history) :
        LET e == history[i] IN
        e.action.type = "page" /\ e.ok =>
            /\ e.action.code = "ok"
            /\ input.planOnly \/ \E j \in 1 .. Len(executed) :
                  executed[j] = [step |-> e.step, action |-> e.action]

(* A run that goes in circles ends: an action planned MaxRepeats + 1 times in*)
(* a row, whether it was performed, missed or refused each time, and a page  *)
(* that looked the same MaxStall + 1 times running.                          *)
CirclesEndRun ==
    /\ Steady(Planned(history), MaxRepeats + 1) /\ history[Len(history)].action.type = "page"
           => at = "stopped"
    /\ Steady(probes, MaxStall + 1) => at = "stopped"

(* Vision that failed VisionFailureLimit times in a row is not asked again   *)
(* in the run, and a run always gives it a first chance, however the run     *)
(* before it ended.                                                          *)
VisionBreaker ==
    /\ Steady(detects, VisionFailureLimit) /\ ~detects[Len(detects)] => stage # "detect"
    /\ stage = "redact" /\ input.vision /\ step = 1 => detects # <<>>

(* On an action goal with no earlier history, the first observation is never *)
(* enough to report the task done, through the correction or the recovery.   *)
DoneNotAtOnce == reason = "done" /\ input.needsAct /\ ~input.prior => step > 1

(* Between steps no raw frame is left with the worker unasked for: whatever  *)
(* ended the step, every captured frame was released.                        *)
FramesDropped == at # "stepping" => captured = released

(* Stop lets the step under way finish and lets no other begin.              *)
NoStepAfterStop == [][stopRequested => step' = step]_vars

(* Every run ends.                                                           *)
RunEnds == <>(at = "stopped")

(* The run does what the abstract task promises.                             *)
TaskPhase ==
    IF at = "stopped" THEN "ended"
    ELSE IF at # "stepping" THEN "between"
    ELSE IF asks = 0 THEN "looking"
    ELSE IF \E i \in 1 .. Len(executed) : executed[i].step = step THEN "acted"
    ELSE "asked"

Task == INSTANCE AgentTask WITH
    phase    <- TaskPhase,
    begun    <- step,
    acted    <- Len(executed),
    stopping <- stopRequested,
    leaked   <- ~EgressSafe

TaskRefined == Task!TaskSpec

=============================================================================
