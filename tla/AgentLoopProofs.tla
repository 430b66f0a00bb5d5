--------------------------- MODULE AgentLoopProofs ---------------------------
(***************************************************************************)
(* Safety of AgentLoop for every value of its constants. Type correctness  *)
(* needs Control, which ties the counters to the places they are advanced  *)
(* at. The other theorems rest on TypeInv and on an invariant of their own *)
(* each, which says what the step owes between its awaits. The parts of    *)
(* the loop outside a step change none of what these are about             *)
(* (OutsideStep), so each proof looks at the step alone.                   *)
(***************************************************************************)
EXTENDS AgentLoop, TLAPS, SequenceTheorems

TypeInv == TypeOK /\ Control

LEMMA InitType == Init => TypeInv
<1> SUFFICES ASSUME Init PROVE TypeInv
    OBVIOUS
<1> USE DEF Init, StepInit
<1>1. FlagsOK
  <2>1. context \in Contexts
    BY DEF Contexts, Images, NoContext
  <2>2. result \in [ok : BOOLEAN, missed : BOOLEAN]
    BY DEF NoResult
  <2>3. retained = FALSE /\ uncovered = FALSE /\ recoverable = FALSE
    OBVIOUS
  <2>4. stopRequested = FALSE
    OBVIOUS
  <2>5. detects \in Seq(BOOLEAN)
    OBVIOUS
  <2> QED BY <2>1, <2>2, <2>3, <2>4, <2>5 DEF FlagsOK
<1>2. LocalsOK
  BY LimitAssumption DEF LocalsOK, Stages, Verdicts
<1>3. ObservedOK
  BY DEF ObservedOK
<1>4. LoopOK
  <2>1. Earlier \in EntryType
    BY LoopAssumption DEF Earlier, EntryType
  <2>2. history \in Seq(EntryType)
    BY <2>1
  <2> QED BY <2>2, LoopAssumption DEF LoopOK, Places, Reasons
<1>5. Control
  BY LoopAssumption DEF Control
<1> QED BY <1>1, <1>2, <1>3, <1>4, <1>5 DEF TypeInv, TypeOK

-----------------------------------------------------------------------------
(* What the shared pieces of a step establish.                               *)

ResultType == [ok : BOOLEAN, missed : BOOLEAN]
PageLog    == Seq([step : 1 .. MaxSteps, action : Actions])

LEMMA ReturnEffect ==
    ASSUME NEW ok \in BOOLEAN, NEW missed \in BOOLEAN, Return(ok, missed),
           released \subseteq captured
    PROVE  /\ stage' = "returned"
           /\ result' \in ResultType
           /\ released' \subseteq captured
BY DEF Return, ResultType

LEMMA RecoveredIsAction == \A k \in Keys : Recovered(k) \in Actions
BY DEF Recovered, Actions, PageActions

(* Handing a validated action over ends the step or awaits the page.         *)
LEMMA AcceptEffect ==
    ASSUME NEW a \in Actions, Accept(a), released \subseteq captured,
           result \in ResultType, executed \in PageLog, step \in 1 .. MaxSteps
    PROVE  /\ stage' \in {"returned", "execute"}
           /\ result' \in ResultType
           /\ released' \subseteq captured
           /\ executed' \in PageLog
           /\ action' = a
           /\ verdict' = "ok"
<1>1. CASE input.planOnly
  <2>1. Return(TRUE, FALSE) /\ executed' = executed /\ action' = a /\ verdict' = "ok"
    BY <1>1 DEF Accept
  <2> QED BY <2>1, ReturnEffect
<1>2. CASE ~input.planOnly
  <2>1. /\ stage' = "execute" /\ UNCHANGED outVars /\ action' = a /\ verdict' = "ok"
        /\ executed' = IF a.type = "page"
                       THEN Append(executed, [step |-> step, action |-> a])
                       ELSE executed
    BY <1>2 DEF Accept
  <2>2. [step |-> step, action |-> a] \in [step : 1 .. MaxSteps, action : Actions]
    OBVIOUS
  <2>3. executed' \in PageLog
    <3>1. CASE a.type = "page"
      BY <2>1, <2>2, <3>1 DEF PageLog
    <3>2. CASE a.type # "page"
      BY <2>1, <3>2
    <3> QED BY <3>1, <3>2
  <2> QED BY <2>1, <2>3 DEF outVars
<1> QED BY <1>1, <1>2

(* A verdict is one of Verdicts.                                             *)
LEMMA VerdictType == \A a \in Actions : Verdict(a) \in Verdicts
BY DEF Verdict, Verdicts, Actions, PageActions, Endings, Questions, RedFlags

(* The parts of the state a step can change keep their types.                *)
StepParts ==
    /\ retained \in BOOLEAN /\ uncovered \in BOOLEAN /\ recoverable \in BOOLEAN
    /\ context \in Contexts
    /\ result \in ResultType
    /\ LocalsOK
    /\ wire \subseteq Contexts
    /\ executed \in PageLog
    /\ captured \subseteq 1 .. MaxSteps
    /\ released \subseteq captured

(* The part of Control a step must keep.                                     *)
StepControl ==
    /\ stage # "idle"
    /\ stage \in {"snapshot", "capture", "detect", "retain", "redact", "bake",
                  "sanitize", "verify"} => asks = 0
    /\ stage = "plan" => asks = 1
    /\ stage = "replan" => asks = 2
    /\ stage = "correct" => asks \in 2 .. 3
    /\ stage = "detect" => visionFailures < VisionFailureLimit

LEMMA StepActionType ==
    ASSUME StepParts, StepControl, step \in 1 .. MaxSteps, StepNext
    PROVE  StepParts' /\ StepControl'
<1> USE LimitAssumption DEF StepParts, LocalsOK, StepControl, Stages
<1>1. CASE Fails
  <2>1. stage' = "returned" /\ result' \in ResultType /\ released' \subseteq captured
    BY <1>1, ReturnEffect DEF Fails, Fail
  <2> QED BY <1>1, <2>1 DEF Fails, viewVars, replyVars, sendVars
<1>2. CASE SnapshotSucceeds
  BY <1>2 DEF SnapshotSucceeds, viewVars, replyVars, sendVars, outVars
<1>3. CASE CaptureSucceeds
  <2>1. retained' \in BOOLEAN
    BY <1>3 DEF CaptureSucceeds
  <2>2. ~SkipVision => visionFailures < VisionFailureLimit
    BY DEF SkipVision
  <2>3. stage' \in {"detect", "retain", "redact"} /\ (stage' = "detect" => ~SkipVision)
    BY <1>3 DEF CaptureSucceeds
  <2> QED BY <1>3, <2>1, <2>2, <2>3 DEF CaptureSucceeds, replyVars, sendVars, outVars
<1>4. CASE DetectSettles
  BY <1>4 DEF DetectSettles, viewVars, replyVars, sendVars, outVars
<1>5. CASE RetainSettles
  BY <1>5 DEF RetainSettles, replyVars, sendVars, outVars
<1>6. CASE RedactSucceeds
  BY <1>6 DEF RedactSucceeds, replyVars, sendVars, outVars
<1>7. CASE BakeSettles
  <2>1. context' \in Contexts
    BY <1>7 DEF BakeSettles, ImageOf, Contexts, Images
  <2> QED BY <1>7, <2>1 DEF BakeSettles, replyVars, sendVars, outVars
<1>8. CASE SanitizeSucceeds
  <2>1. context' \in Contexts
    BY <1>8 DEF SanitizeSucceeds, Contexts
  <2> QED BY <1>8, <2>1 DEF SanitizeSucceeds, replyVars, sendVars, outVars
<1>9. CASE AskLocally
  <2>1. action' \in Actions
    BY <1>9 DEF AskLocally, LocalAsk, Actions, Questions
  <2>2. stage' = "returned" /\ result' \in ResultType /\ released' \subseteq captured
    BY <1>9, ReturnEffect DEF AskLocally
  <2> QED BY <1>9, <2>1, <2>2 DEF AskLocally, viewVars, sendVars
<1>10. CASE FirstAsk \/ PlanUnparsed
  <2>1. wire' \subseteq Contexts
    BY <1>10 DEF FirstAsk, PlanUnparsed, Ask
  <2>2. CASE FirstAsk
    BY <2>1, <2>2 DEF FirstAsk, Ask, viewVars, replyVars, outVars
  <2>3. CASE PlanUnparsed
    BY <2>1, <2>3 DEF PlanUnparsed, Ask, viewVars, replyVars, outVars
  <2> QED BY <1>10, <2>2, <2>3
<1>11. CASE CorrectionFails
  <2>1. stage' = "returned" /\ result' \in ResultType /\ released' \subseteq captured
    BY <1>11, ReturnEffect DEF CorrectionFails, KeepRefusal, Fail
  <2> QED BY <1>11, <2>1 DEF CorrectionFails, viewVars, replyVars, sendVars
<1>12. CASE ExecuteSettles
  <2>1. stage' = "returned" /\ result' \in ResultType /\ released' \subseteq captured
    BY <1>12, ReturnEffect DEF ExecuteSettles
  <2> QED BY <1>12, <2>1 DEF ExecuteSettles, viewVars, replyVars, sendVars
<1>13. ASSUME NEW a \in Actions, CorrectionReplied(a) PROVE StepParts' /\ StepControl'
  <2>0. UNCHANGED <<visionFailures, viewVars, sendVars, captured>>
    BY <1>13 DEF CorrectionReplied
  <2>1. CASE Accept(a)
    BY <2>0, <2>1, AcceptEffect DEF Verdicts, viewVars, sendVars
  <2>2. CASE KeepRefusal /\ UNCHANGED <<action, verdict, executed>>
    <3>1. stage' = "returned" /\ result' \in ResultType /\ released' \subseteq captured
      BY <2>2, ReturnEffect DEF KeepRefusal, Fail
    <3> QED BY <2>0, <2>2, <3>1 DEF viewVars, sendVars
  <2> QED BY <1>13, <2>1, <2>2 DEF CorrectionReplied
<1>14. ASSUME NEW a \in Actions, Judged(a) PROVE StepParts' /\ StepControl'
  <2>0. /\ UNCHANGED <<visionFailures, viewVars, captured>>
        /\ stage \in {"plan", "replan"}
    BY <1>14 DEF Judged
  <2>1. CASE Accept(a) /\ UNCHANGED sendVars
    BY <2>0, <2>1, AcceptEffect DEF Verdicts, viewVars, sendVars
  <2>2. ASSUME NEW k \in Keys, Accept(Recovered(k)), UNCHANGED sendVars
        PROVE  StepParts' /\ StepControl'
    BY <2>0, <2>2, AcceptEffect, RecoveredIsAction DEF Verdicts, viewVars, sendVars
  <2>3. CASE SendCorrection(a)
    BY <2>0, <2>3, VerdictType DEF SendCorrection, Ask, viewVars, outVars
  <2>4. CASE Refuse(a)
    <3>1. stage' = "returned" /\ result' \in ResultType /\ released' \subseteq captured
      BY <2>4, ReturnEffect DEF Refuse, Fail
    <3> QED BY <2>0, <2>4, <3>1, VerdictType DEF Refuse, viewVars, sendVars
  <2> QED BY <1>14, <2>1, <2>2, <2>3, <2>4 DEF Judged
<1> QED BY <1>1, <1>2, <1>3, <1>4, <1>5, <1>6, <1>7, <1>8, <1>9, <1>10, <1>11, <1>12,
           <1>13, <1>14
        DEF StepNext, Perceive, Plan, GateBlocks, AwaitFails

-----------------------------------------------------------------------------
(* One iteration of the loop.                                                *)

LEMMA StepType == TypeInv /\ [Next]_vars => TypeInv'
<1> SUFFICES ASSUME TypeInv, [Next]_vars PROVE TypeInv'
    OBVIOUS
<1> USE LimitAssumption, LoopAssumption
<1>1. FlagsOK /\ LocalsOK /\ ObservedOK /\ LoopOK /\ Control
  BY DEF TypeInv, TypeOK
<1>2. StepParts
  BY <1>1 DEF StepParts, FlagsOK, ObservedOK, ResultType, PageLog
<1>3. ASSUME StepParts', stopRequested' \in BOOLEAN, detects' \in Seq(BOOLEAN),
             probes' \in Seq(Fingerprints), LoopOK', Control'
      PROVE  TypeInv'
  BY <1>3 DEF StepParts, FlagsOK, ObservedOK, ResultType, PageLog, TypeInv, TypeOK
<1>4. ASSUME UNCHANGED stepVars PROVE StepParts'
  BY <1>2, <1>4 DEF StepParts, LocalsOK, stepVars, viewVars, replyVars, sendVars, outVars
<1>5. stopRequested \in BOOLEAN /\ detects \in Seq(BOOLEAN) /\ probes \in Seq(Fingerprints)
  BY <1>1 DEF FlagsOK, ObservedOK
<1>6. CASE LoopStarts
  <2>1. StepParts'
    BY <1>2, <1>6 DEF LoopStarts, StepParts, LocalsOK, viewVars, replyVars, sendVars, outVars
  <2>2. LoopOK' /\ Control'
    BY <1>1, <1>6 DEF LoopStarts, LoopOK, Control, Places, callVars, sendVars
  <2> QED BY <1>3, <1>5, <1>6, <2>1, <2>2 DEF LoopStarts
<1>7. CASE BeginStep
  <2>1. StepParts'
    <3>1. context' \in Contexts
      BY <1>7 DEF BeginStep, StepCalled, Contexts, Images, NoContext
    <3>2. result' \in ResultType
      BY <1>7 DEF BeginStep, StepCalled, ResultType, NoResult
    <3>3. LocalsOK'
      BY <1>1, <1>7 DEF BeginStep, StepCalled, LocalsOK, Stages, Verdicts
    <3> QED BY <1>2, <1>7, <3>1, <3>2, <3>3 DEF BeginStep, StepCalled, StepParts
  <2>2. LoopOK' /\ Control'
    BY <1>1, <1>7 DEF BeginStep, MayBegin, StepCalled, LoopOK, Control, Places
  <2> QED BY <1>3, <1>5, <1>7, <2>1, <2>2 DEF BeginStep
<1>8. CASE CancelAtTop \/ Exhausted \/ ProbeFails
  <2>1. LoopOK' /\ Control'
    BY <1>1, <1>8 DEF CancelAtTop, Exhausted, ProbeFails, Stop, LoopOK, Control, Places,
        Reasons, callVars, stepVars, sendVars
  <2>2. UNCHANGED <<stepVars, stopRequested, detects, probes>>
    BY <1>8 DEF CancelAtTop, Exhausted, ProbeFails
  <2> QED BY <1>3, <1>4, <1>5, <2>1, <2>2
<1>9. CASE StepRuns
  <2>1. step \in 1 .. MaxSteps /\ StepControl
    BY <1>1, <1>9 DEF StepRuns, LoopOK, Control, StepControl
  <2>2. StepParts' /\ StepControl'
    BY <1>2, <1>9, <2>1, StepActionType DEF StepRuns
  <2>3. detects' \in Seq(BOOLEAN)
    <3>1. (visionFailures' = 0) \in BOOLEAN
      OBVIOUS
    <3>2. CASE stage = "detect"
      BY <1>5, <1>9, <3>1, <3>2 DEF StepRuns
    <3>3. CASE stage # "detect"
      BY <1>5, <1>9, <3>3 DEF StepRuns
    <3> QED BY <3>2, <3>3
  <2>4. UNCHANGED <<callVars, at, lastKey, repeats, stalls, actionsTaken, reason, probes,
                    stopRequested>>
    BY <1>9 DEF StepRuns, StepNext
  <2>5. LoopOK'
    BY <1>1, <2>4 DEF LoopOK, callVars
  <2>6. Control'
    BY <1>1, <1>9, <2>2, <2>4 DEF StepRuns, StepControl, Control, callVars
  <2> QED BY <1>3, <1>5, <2>2, <2>3, <2>4, <2>5, <2>6
<1>10. CASE StepFailed
  <2>1. StepParts'
    BY <1>2, <1>10 DEF StepFailed, StepParts, LocalsOK, Stages, viewVars, replyVars,
        sendVars, outVars
  <2>2. LoopOK' /\ Control'
    BY <1>1, <1>10 DEF StepFailed, Stop, LoopOK, Control, Places, Reasons, callVars, sendVars
  <2> QED BY <1>3, <1>5, <1>10, <2>1, <2>2 DEF StepFailed
<1>11. CASE StepReturned
  <2>1. StepParts'
    BY <1>2, <1>11 DEF StepReturned, StepParts, LocalsOK, Stages, viewVars, replyVars,
        sendVars, outVars
  <2>2. history' \in Seq(EntryType)
    <3>1. Entry(result.missed) \in EntryType
      BY <1>1, <1>2 DEF Entry, EntryType, LoopOK, LocalsOK, StepParts, ResultType
    <3>2. history' = Append(history, Entry(result.missed))
      BY <1>11 DEF StepReturned
    <3> QED BY <1>1, <3>1, <3>2 DEF LoopOK
  <2>3. LoopOK' /\ Control'
    <3>1. action.key \in Keys \cup {NoKey}
      BY <1>1 DEF LocalsOK, Actions, PageActions, Endings, Questions, NoAction
    <3>2. Terminal => action.type \in Reasons
      BY DEF Terminal, Reasons
    <3> QED BY <1>1, <1>11, <2>2, <3>1, <3>2
            DEF StepReturned, Stop, Repeats, LoopOK, Control, Places, Reasons, sendVars
  <2> QED BY <1>3, <1>5, <1>11, <2>1, <2>3 DEF StepReturned
<1>12. CASE Settled
  <2>1. LoopOK' /\ Control'
    BY <1>1, <1>12 DEF Settled, LoopOK, Control, Places, callVars, stepVars, sendVars
  <2>2. UNCHANGED <<stepVars, stopRequested, detects, probes>>
    BY <1>12 DEF Settled
  <2> QED BY <1>3, <1>4, <1>5, <2>1, <2>2
<1>13. ASSUME NEW f \in Fingerprints, Probed(f) PROVE TypeInv'
  <2>1. LoopOK' /\ Control'
    BY <1>1, <1>13 DEF Probed, Stop, LoopOK, Control, Places, Reasons, callVars, stepVars,
        sendVars
  <2>2. UNCHANGED <<stepVars, stopRequested, detects>> /\ probes' = Append(probes, f)
    BY <1>13 DEF Probed
  <2> QED BY <1>3, <1>4, <1>5, <2>1, <2>2
<1>14. CASE PressStop
  <2>1. LoopOK' /\ Control'
    BY <1>1, <1>14 DEF PressStop, LoopOK, Control, callVars, stepVars, sendVars, loopVars
  <2>2. UNCHANGED <<stepVars, detects, probes>> /\ stopRequested' = TRUE
    BY <1>14 DEF PressStop, loopVars
  <2> QED BY <1>3, <1>4, <1>5, <2>1, <2>2
<1>15. CASE UNCHANGED vars
  <2>1. LoopOK' /\ Control'
    BY <1>1, <1>15 DEF vars, LoopOK, Control, callVars, stepVars, sendVars, loopVars
  <2>2. UNCHANGED <<stepVars, stopRequested, detects, probes>>
    BY <1>15 DEF vars, loopVars
  <2> QED BY <1>3, <1>4, <1>5, <2>1, <2>2
<1> QED BY <1>6, <1>7, <1>8, <1>9, <1>10, <1>11, <1>12, <1>13, <1>14, <1>15
        DEF Next, Progress

(* Every variable keeps its type in every run.                               *)
THEOREM TypeCorrect == Spec => []TypeOK
<1>1. Init => TypeInv BY InitType
<1>2. TypeInv /\ [Next]_vars => TypeInv' BY StepType
<1>3. TypeInv => TypeOK BY DEF TypeInv
<1> QED BY <1>1, <1>2, <1>3, PTL DEF Spec

-----------------------------------------------------------------------------
Asking == {"plan", "replan", "correct"}
Before == {"snapshot", "capture", "detect", "retain", "redact", "bake", "sanitize",
           "verify"} \cup Asking

LEMMA OutsideStep ==
    ASSUME [Next]_vars, ~StepRuns, ~BeginStep
    PROVE  /\ UNCHANGED <<input, step, viewVars, sendVars, executed, captured, released>>
           /\ stage' # stage => stage = "returned" /\ stage' = "idle"
<1> USE DEF callVars, stepVars, outVars
<1>1. CASE LoopStarts
  BY <1>1 DEF LoopStarts
<1>2. CASE CancelAtTop \/ Exhausted \/ ProbeFails
  BY <1>2 DEF CancelAtTop, Exhausted, ProbeFails
<1>3. CASE StepFailed
  BY <1>3 DEF StepFailed
<1>4. CASE StepReturned
  BY <1>4 DEF StepReturned
<1>5. CASE Settled
  BY <1>5 DEF Settled
<1>6. ASSUME NEW f \in Fingerprints, Probed(f)
      PROVE  /\ UNCHANGED <<input, step, viewVars, sendVars, executed, captured, released>>
             /\ stage' = stage
  BY <1>6 DEF Probed
<1>7. CASE PressStop \/ UNCHANGED vars
  BY <1>7 DEF PressStop, vars
<1> QED BY <1>1, <1>2, <1>3, <1>4, <1>5, <1>6, <1>7 DEF Next, Progress

(* Accepting an action either ends the step or waits for the page.           *)
LEMMA AcceptStage == \A a \in Actions : Accept(a) => stage' \in {"returned", "execute"}
BY DEF Accept, Return

-----------------------------------------------------------------------------
(* What is sent.                                                             *)

EgressInv ==
    /\ EgressSafe
    /\ context.image # "exposed"
    /\ stage = "bake" => ~uncovered
    /\ stage \in Asking => context.clean

(* The counters of the bake say enough: a kept image has nothing legible.    *)
LEMMA KeptIsCovered ==
    ASSUME ops \in Nat, ~uncovered, NEW outside \in 0 .. ops,
           NEW applied \in 0 .. ops - outside, Keeps(outside, applied)
    PROVE  ImageOf(outside, applied) = "covered"
BY DEF Keeps, ImageOf

LEMMA BakeSafe ==
    ASSUME context \in Contexts, ops \in Nat, ~uncovered, BakeSettles
    PROVE  context'.image # "exposed"
<1>1. ASSUME NEW outside \in 0 .. ops, NEW applied \in 0 .. ops - outside,
             context' = [context EXCEPT !.image =
                IF Keeps(outside, applied) THEN ImageOf(outside, applied) ELSE "none"]
      PROVE  context'.image # "exposed"
  <2>1. CASE Keeps(outside, applied)
    BY <1>1, <2>1, KeptIsCovered DEF Contexts
  <2>2. CASE ~Keeps(outside, applied)
    BY <1>1, <2>2 DEF Contexts
  <2> QED BY <2>1, <2>2
<1>2. CASE context' = [context EXCEPT !.image = "none"]
  BY <1>2 DEF Contexts
<1> QED BY <1>1, <1>2 DEF BakeSettles

LEMMA EgressOfStep ==
    ASSUME TypeInv, EgressInv, StepNext
    PROVE  EgressInv'
<1> USE DEF EgressInv, EgressSafe, Asking
<1>0. context \in Contexts /\ ops \in Nat
  BY DEF TypeInv, TypeOK, FlagsOK, LocalsOK
<1>1. CASE Fails \/ AskLocally \/ ExecuteSettles \/ CorrectionFails
  <2>1. UNCHANGED <<context, wire>> /\ stage' = "returned"
    BY <1>1 DEF Fails, Fail, AskLocally, ExecuteSettles, CorrectionFails, KeepRefusal,
        Return, viewVars, sendVars
  <2> QED BY <2>1
<1>2. CASE SnapshotSucceeds \/ CaptureSucceeds \/ DetectSettles \/ RetainSettles
  BY <1>2 DEF SnapshotSucceeds, CaptureSucceeds, DetectSettles, RetainSettles,
      viewVars, sendVars
<1>3. CASE RedactSucceeds
  BY <1>3 DEF RedactSucceeds, MayBake, sendVars
<1>4. CASE BakeSettles
  <2>1. UNCHANGED wire /\ stage' = "sanitize" /\ ~uncovered
    BY <1>4 DEF BakeSettles, sendVars
  <2> QED BY <1>0, <1>4, <2>1, BakeSafe
<1>5. CASE SanitizeSucceeds
  <2>1. context'.image = context.image
    BY <1>0, <1>5 DEF SanitizeSucceeds, Contexts
  <2> QED BY <1>5, <2>1 DEF SanitizeSucceeds, sendVars
<1>6. CASE FirstAsk \/ PlanUnparsed
  <2>1. context.clean
    BY <1>6 DEF FirstAsk, PlanUnparsed, PassesGate
  <2> QED BY <1>6, <2>1 DEF FirstAsk, PlanUnparsed, Ask, viewVars
<1>7. ASSUME NEW a \in Actions, Judged(a) PROVE EgressInv'
  <2>0. UNCHANGED viewVars /\ stage \in {"plan", "replan"}
    BY <1>7 DEF Judged
  <2>1. CASE UNCHANGED sendVars /\ stage' \in {"returned", "execute"}
    BY <2>0, <2>1 DEF viewVars, sendVars
  <2>2. CASE SendCorrection(a)
    BY <2>0, <2>2 DEF SendCorrection, Ask, viewVars
  <2> QED BY <1>7, <2>1, <2>2, AcceptStage, RecoveredIsAction
          DEF Judged, Refuse, Fail, Return
<1>8. ASSUME NEW a \in Actions, CorrectionReplied(a) PROVE EgressInv'
  <2>1. UNCHANGED <<viewVars, sendVars>> /\ stage' \in {"returned", "execute"}
    BY <1>8, AcceptStage DEF CorrectionReplied, KeepRefusal, Fail, Return
  <2> QED BY <2>1 DEF viewVars, sendVars
<1> QED BY <1>1, <1>2, <1>3, <1>4, <1>5, <1>6, <1>7, <1>8
        DEF StepNext, Perceive, Plan, GateBlocks, AwaitFails

(* Nothing leaves that the gate did not pass or that shows what the text     *)
(* redaction removed.                                                        *)
THEOREM EgressIsSafe == Spec => []EgressSafe
<1>1. Init => EgressInv
  BY DEF Init, StepInit, EgressInv, EgressSafe, NoContext, Asking
<1>2. ASSUME TypeInv, EgressInv, [Next]_vars PROVE EgressInv'
  <2>1. CASE StepRuns
    BY <1>2, <2>1, EgressOfStep DEF StepRuns
  <2>2. CASE BeginStep
    BY <1>2, <2>2 DEF BeginStep, StepCalled, EgressInv, EgressSafe, NoContext, Asking
  <2>3. CASE ~StepRuns /\ ~BeginStep
    BY <1>2, <2>3, OutsideStep DEF EgressInv, EgressSafe, Asking, viewVars, sendVars
  <2> QED BY <2>1, <2>2, <2>3
<1>3. Init => TypeInv BY InitType
<1>4. TypeInv /\ [Next]_vars => TypeInv' BY StepType
<1>5. EgressInv => EgressSafe BY DEF EgressInv
<1> QED BY <1>1, <1>2, <1>3, <1>4, <1>5, PTL DEF Spec
-----------------------------------------------------------------------------
(* What is performed.                                                        *)

(* One step performs at most one action, at its very end.                    *)
ActInv ==
    /\ ActsValidated
    /\ \A i \in 1 .. Len(executed) : executed[i].step <= step
    /\ stage \in Before => \A i \in 1 .. Len(executed) : executed[i].step < step

(* An action reaches the page only if it validated, and only then.           *)
Performs(a) ==
    /\ a.code = "ok"
    /\ ~input.planOnly
    /\ stage \in Asking
    /\ stage' = "execute"
    /\ executed' = Append(executed, [step |-> step, action |-> a])

LEMMA AcceptPerforms ==
    ASSUME NEW a \in Actions, a.code = "ok", stage \in Asking, Accept(a)
    PROVE  (executed' = executed /\ stage' \notin Before) \/ Performs(a)
BY DEF Accept, Return, Performs, Before, Asking

LEMMA StepPerforms ==
    ASSUME StepNext
    PROVE  \/ executed' = executed /\ (stage' \in Before => stage \in Before)
           \/ \E a \in Actions : Performs(a)
<1>1. CASE Fails \/ AskLocally \/ ExecuteSettles \/ CorrectionFails
  BY <1>1 DEF Fails, Fail, AskLocally, ExecuteSettles, CorrectionFails, KeepRefusal,
      Return, Before, Asking
<1>2. CASE Perceive
  BY <1>2 DEF Perceive, SnapshotSucceeds, CaptureSucceeds, DetectSettles, RetainSettles,
      RedactSucceeds, BakeSettles, SanitizeSucceeds, Before
<1>3. CASE FirstAsk \/ PlanUnparsed
  BY <1>3 DEF FirstAsk, PlanUnparsed, Before, Asking
<1>4. ASSUME NEW a \in Actions, Judged(a)
      PROVE  (executed' = executed /\ stage \in Before) \/ \E b \in Actions : Performs(b)
  <2>0. stage \in Before /\ stage \in Asking
    BY <1>4 DEF Judged, Before, Asking
  <2>1. CASE Verdict(a) = "ok"
    <3>1. a.code = "ok" /\ Accept(a)
      BY <1>4, <2>1 DEF Judged, Verdict, Unverified
    <3> QED BY <2>0, <3>1, AcceptPerforms
  <2>2. ASSUME NEW k \in Keys, Accept(Recovered(k))
        PROVE  (executed' = executed /\ stage \in Before) \/ \E b \in Actions : Performs(b)
    <3>1. Recovered(k).code = "ok"
      BY DEF Recovered
    <3> QED BY <2>0, <2>2, <3>1, AcceptPerforms, RecoveredIsAction
  <2>3. CASE SendCorrection(a) \/ Refuse(a)
    BY <2>0, <2>3 DEF SendCorrection, Refuse
  <2> QED BY <1>4, <2>1, <2>2, <2>3 DEF Judged
<1>5. ASSUME NEW a \in Actions, CorrectionReplied(a)
      PROVE  (executed' = executed /\ stage \in Before) \/ \E b \in Actions : Performs(b)
  <2>0. stage \in Before /\ stage \in Asking
    BY <1>5 DEF CorrectionReplied, Before, Asking
  <2>1. CASE Verdict(a) = "ok"
    <3>1. a.code = "ok" /\ Accept(a)
      BY <1>5, <2>1 DEF CorrectionReplied, Verdict, Unverified
    <3> QED BY <2>0, <3>1, AcceptPerforms
  <2>2. CASE Verdict(a) # "ok"
    BY <1>5, <2>0, <2>2 DEF CorrectionReplied
  <2> QED BY <2>1, <2>2
<1> QED BY <1>1, <1>2, <1>3, <1>4, <1>5 DEF StepNext, Plan, GateBlocks, AwaitFails

LEMMA LoggedSteps ==
    ASSUME executed \in PageLog
    PROVE  \A i \in 1 .. Len(executed) : executed[i].step \in Nat
<1>1. \A i \in 1 .. Len(executed) : executed[i] \in [step : 1 .. MaxSteps, action : Actions]
  BY ElementOfSeq DEF PageLog
<1>2. 1 .. MaxSteps \subseteq Nat
  BY LoopAssumption
<1> QED BY <1>1, <1>2

LEMMA ActOfStep ==
    ASSUME TypeInv, ActInv, StepNext
    PROVE  ActInv'
<1>0. executed \in PageLog /\ step \in Nat /\ UNCHANGED callVars
  BY LoopAssumption DEF TypeInv, TypeOK, ObservedOK, PageLog, LoopOK, StepNext
<1>1. CASE executed' = executed /\ (stage' \in Before => stage \in Before)
  BY <1>0, <1>1 DEF ActInv, ActsValidated, callVars
<1>2. ASSUME NEW a \in Actions, Performs(a) PROVE ActInv'
  <2> DEFINE n == Len(executed)
  <2>1. /\ Len(executed') = n + 1 /\ n \in Nat
        /\ \A i \in 1 .. n : executed'[i] = executed[i]
        /\ executed'[n + 1] = [step |-> step, action |-> a]
    BY <1>0, <1>2 DEF Performs, PageLog
  <2>2. \A i \in 1 .. n : executed[i].step < step /\ executed[i].step \in Nat
    <3>1. stage \in Before
      BY <1>2 DEF Performs, Before
    <3> QED BY <1>0, <3>1, LoggedSteps DEF ActInv
  <2>3. stage' \notin Before
    BY <1>2 DEF Performs, Before, Asking
  <2>4. \A i \in 1 .. n + 1 : executed'[i].action.code = "ok"
    BY <1>2, <2>1 DEF Performs, ActInv, ActsValidated
  <2>5. \A i \in 1 .. n + 1 : executed'[i].step <= step
    BY <1>0, <2>1, <2>2
  <2>6. \A i, j \in 1 .. n + 1 : i < j => executed'[i].step < executed'[j].step
    BY <1>0, <2>1, <2>2 DEF ActInv, ActsValidated
  <2>7. ~input'.planOnly
    BY <1>0, <1>2 DEF Performs, callVars
  <2> QED BY <1>0, <2>1, <2>3, <2>4, <2>5, <2>6, <2>7 DEF ActInv, ActsValidated, callVars
<1> QED BY <1>1, <1>2, StepPerforms

LEMMA ActInvInit == Init => ActInv
BY DEF Init, StepInit, ActInv, ActsValidated

LEMMA ActInvStep == TypeInv /\ ActInv /\ [Next]_vars => ActInv'
<1> SUFFICES ASSUME TypeInv, ActInv, [Next]_vars PROVE ActInv'
    OBVIOUS
<1>1. CASE StepRuns
  BY <1>1, ActOfStep DEF StepRuns
<1>2. CASE BeginStep
  <2>1. /\ UNCHANGED <<input, executed>>
        /\ step' = step + 1
    BY <1>2 DEF BeginStep, StepCalled
  <2>2. /\ step \in Nat
        /\ \A i \in 1 .. Len(executed) : executed[i].step \in Nat
    BY LoggedSteps, LoopAssumption DEF TypeInv, TypeOK, ObservedOK, LoopOK, PageLog
  <2> QED BY <2>1, <2>2 DEF ActInv, ActsValidated
<1>3. CASE ~StepRuns /\ ~BeginStep
  <2>1. UNCHANGED <<input, step, executed>> /\ (stage' \in Before => stage \in Before)
    BY <1>3, OutsideStep DEF Before, Asking
  <2> QED BY <2>1 DEF ActInv, ActsValidated
<1> QED BY <1>1, <1>2, <1>3

(* Only validated actions are performed, at most one per step, and none in   *)
(* plan-only mode.                                                           *)
THEOREM ActsAreValidated == Spec => []ActsValidated
<1>1. Init => TypeInv BY InitType
<1>2. TypeInv /\ [Next]_vars => TypeInv' BY StepType
<1>3. ActInv => ActsValidated BY DEF ActInv
<1> QED BY <1>1, <1>2, <1>3, ActInvInit, ActInvStep, PTL DEF Spec

-----------------------------------------------------------------------------
(* Frames.                                                                   *)

(* A step owes the worker at most the release of its own frame.              *)
FrameInv ==
    /\ FramesDropped
    /\ captured \subseteq released \cup {step}
    /\ stage \in {"returned", "snapshot"} => captured = released

LEMMA ReturnDrops ==
    ASSUME NEW ok \in BOOLEAN, NEW missed \in BOOLEAN, Return(ok, missed),
           UNCHANGED captured, released \subseteq captured,
           captured \subseteq released \cup {step}
    PROVE  captured' = released'
BY DEF Return

(* However a step leaves the await it was in, it owes no more than before,   *)
(* and nothing if it returns.                                                *)
LEMMA FrameOfStep ==
    ASSUME TypeInv, FrameInv, StepNext
    PROVE  /\ captured' \subseteq released' \cup {step}
           /\ stage' \in {"returned", "snapshot"} => captured' = released'
<1>0. released \subseteq captured /\ captured \subseteq released \cup {step}
  BY DEF TypeInv, TypeOK, ObservedOK, FrameInv
<1>1. ASSUME NEW ok \in BOOLEAN, NEW missed \in BOOLEAN, Return(ok, missed),
             UNCHANGED captured
      PROVE  captured' = released'
  BY <1>0, <1>1, ReturnDrops
<1>2. CASE Fails \/ AskLocally \/ ExecuteSettles \/ CorrectionFails
  BY <1>1, <1>2 DEF Fails, Fail, AskLocally, ExecuteSettles, CorrectionFails, KeepRefusal
<1>3. CASE Perceive
  BY <1>0, <1>3 DEF Perceive, SnapshotSucceeds, CaptureSucceeds, DetectSettles,
      RetainSettles, RedactSucceeds, BakeSettles, SanitizeSucceeds, outVars
<1>4. CASE FirstAsk \/ PlanUnparsed
  BY <1>0, <1>4 DEF FirstAsk, PlanUnparsed, outVars
<1>5. ASSUME NEW a \in Actions, Accept(a), UNCHANGED captured
      PROVE  \/ captured' = released'
             \/ UNCHANGED <<captured, released>> /\ stage' = "execute"
  BY <1>1, <1>5 DEF Accept, outVars
<1>6. ASSUME NEW a \in Actions, Judged(a)
      PROVE  \/ captured' = released'
             \/ UNCHANGED <<captured, released>> /\ stage' \in {"execute", "correct"}
  BY <1>1, <1>5, <1>6, RecoveredIsAction DEF Judged, SendCorrection, Refuse, Fail, outVars
<1>7. ASSUME NEW a \in Actions, CorrectionReplied(a)
      PROVE  \/ captured' = released'
             \/ UNCHANGED <<captured, released>> /\ stage' = "execute"
  BY <1>1, <1>5, <1>7 DEF CorrectionReplied, KeepRefusal, Fail
<1> QED BY <1>0, <1>2, <1>3, <1>4, <1>6, <1>7
        DEF StepNext, Plan, GateBlocks, AwaitFails

(* Between steps the worker holds no frame of the run.                       *)
THEOREM FramesAreDropped == Spec => []FramesDropped
<1>1. Init => FrameInv
  BY DEF Init, StepInit, FrameInv, FramesDropped
<1>2. ASSUME TypeInv, FrameInv, [Next]_vars PROVE FrameInv'
  <2>0. (at = "stepping" <=> stage # "idle") /\ (at' = "stepping" <=> stage' # "idle")
    BY <1>2, StepType DEF TypeInv, Control
  <2>1. CASE StepRuns
    <3>1. at' = "stepping" /\ step' = step
      BY <2>1 DEF StepRuns, StepNext, callVars
    <3> QED BY <1>2, <2>1, <3>1, FrameOfStep DEF StepRuns, FrameInv, FramesDropped
  <2>2. CASE BeginStep
    BY <1>2, <2>2 DEF BeginStep, StepCalled, FrameInv, FramesDropped
  <2>3. CASE ~StepRuns /\ ~BeginStep
    <3>1. /\ UNCHANGED <<step, captured, released>>
          /\ stage' # stage => stage = "returned" /\ stage' = "idle"
      BY <1>2, <2>3, OutsideStep
    <3> QED BY <1>2, <2>0, <3>1 DEF FrameInv, FramesDropped
  <2> QED BY <2>1, <2>2, <2>3
<1>3. Init => TypeInv BY InitType
<1>4. TypeInv /\ [Next]_vars => TypeInv' BY StepType
<1>5. FrameInv => FramesDropped BY DEF FrameInv
<1> QED BY <1>1, <1>2, <1>3, <1>4, <1>5, PTL DEF Spec

-----------------------------------------------------------------------------
(* Stop.                                                                     *)

(* After Stop was pressed no step begins.                                    *)
THEOREM StopIsFinal == Spec => NoStepAfterStop
<1>1. ASSUME [Next]_vars, stopRequested PROVE step' = step
  <2>1. CASE BeginStep
    BY <1>1, <2>1 DEF BeginStep, MayBegin
  <2>2. CASE StepRuns
    BY <2>2 DEF StepRuns, StepNext, callVars
  <2>3. CASE ~StepRuns /\ ~BeginStep
    BY <1>1, <2>3, OutsideStep
  <2> QED BY <2>1, <2>2, <2>3
<1> QED BY <1>1, PTL DEF Spec, NoStepAfterStop
-----------------------------------------------------------------------------
(* Done.                                                                     *)

(* A `done` of a first observation stays refused until the step has failed.  *)
DoneInv ==
    /\ DoneNotAtOnce
    /\ input.needsAct /\ ~input.prior /\ step <= 1 =>
          /\ at = "stepping" \/ step = 0 => history = <<>>
          /\ at = "stepping" /\ action.type = "done" =>
                \/ stage = "correct" /\ verdict = Unverified
                \/ stage = "returned" /\ ~result.ok

LEMMA DoneOfStep ==
    ASSUME TypeInv, StepNext, history = <<>>, input.needsAct, step <= 1,
           action.type = "done" => \/ stage = "correct" /\ verdict = Unverified
                                   \/ stage = "returned" /\ ~result.ok
    PROVE  action'.type = "done" => \/ stage' = "correct" /\ verdict' = Unverified
                                    \/ stage' = "returned" /\ ~result'.ok
<1>1. CASE Fails \/ ExecuteSettles \/ CorrectionFails
  BY <1>1 DEF Fails, Fail, ExecuteSettles, CorrectionFails, KeepRefusal, Return, replyVars
<1>2. CASE Perceive \/ FirstAsk \/ PlanUnparsed
  BY <1>2 DEF Perceive, SnapshotSucceeds, CaptureSucceeds, DetectSettles, RetainSettles,
      RedactSucceeds, BakeSettles, SanitizeSucceeds, FirstAsk, PlanUnparsed, replyVars
<1>3. CASE AskLocally
  BY <1>3 DEF AskLocally, LocalAsk
<1>4. ASSUME NEW a \in Actions, a.type = "done"
      PROVE  Verdict(a) = Unverified
  BY <1>4 DEF Verdict, Unproven
<1>5. ASSUME NEW a \in Actions, Judged(a)
      PROVE  action'.type = "done" => \/ stage' = "correct" /\ verdict' = Unverified
                                      \/ stage' = "returned" /\ ~result'.ok
  <2>1. CASE Verdict(a) = "ok"
    BY <1>4, <1>5, <2>1 DEF Judged, Accept, Unverified
  <2>2. ASSUME NEW k \in Keys, Accept(Recovered(k)) PROVE action'.type # "done"
    BY <2>2 DEF Accept, Recovered
  <2>3. CASE SendCorrection(a) \/ Refuse(a)
    BY <1>4, <2>3 DEF SendCorrection, Refuse, Fail, Return
  <2> QED BY <1>5, <2>1, <2>2, <2>3 DEF Judged
<1>6. ASSUME NEW a \in Actions, CorrectionReplied(a)
      PROVE  action'.type = "done" => \/ stage' = "correct" /\ verdict' = Unverified
                                      \/ stage' = "returned" /\ ~result'.ok
  <2>1. CASE Verdict(a) = "ok"
    BY <1>4, <1>6, <2>1 DEF CorrectionReplied, Accept, Unverified
  <2>2. CASE Verdict(a) # "ok"
    BY <1>6, <2>2 DEF CorrectionReplied, KeepRefusal, Fail, Return
  <2> QED BY <2>1, <2>2
<1> QED BY <1>1, <1>2, <1>3, <1>5, <1>6 DEF StepNext, Plan, GateBlocks, AwaitFails

(* The places of the loop in which no step runs.                             *)
LEMMA DoneOutsideStep ==
    ASSUME TypeInv, DoneInv, [Next]_vars, ~StepRuns, ~BeginStep
    PROVE  DoneInv'
<1>0. UNCHANGED <<input, step>>
  BY OutsideStep
<1>1. CASE StepReturned
  <2>1. /\ at' \in {"stopped", "settling"} /\ step >= 1 /\ step \in Nat
        /\ at = "stepping" /\ stage = "returned" /\ result.ok
    BY <1>1, LoopAssumption DEF StepReturned, Stop, TypeInv, TypeOK, LoopOK, Control
  <2>2. reason' = "done" => reason = "done" \/ action.type = "done"
    BY <1>1 DEF StepReturned, Stop, Terminal
  <2> QED BY <1>0, <2>1, <2>2 DEF DoneInv, DoneNotAtOnce
<1>2. ASSUME ~StepReturned
      PROVE  /\ reason' = "done" => reason = "done"
             /\ at' = "stepping" => at = "stepping" /\ UNCHANGED <<stage, action, verdict, result>>
             /\ UNCHANGED history
  <2>1. CASE LoopStarts
    BY <2>1 DEF LoopStarts, callVars
  <2>2. CASE CancelAtTop \/ Exhausted \/ ProbeFails \/ StepFailed
    BY <2>2 DEF CancelAtTop, Exhausted, ProbeFails, StepFailed, Stop, callVars
  <2>3. CASE Settled
    BY <2>3 DEF Settled, callVars
  <2>4. ASSUME NEW f \in Fingerprints, Probed(f)
        PROVE  at' # "stepping" /\ (reason' = "done" => reason = "done") /\ UNCHANGED history
    BY <2>4 DEF Probed, Stop, callVars
  <2>5. CASE PressStop \/ UNCHANGED vars
    BY <2>5 DEF PressStop, vars, callVars, stepVars, loopVars, replyVars, outVars
  <2> QED BY <1>2, <2>1, <2>2, <2>3, <2>4, <2>5 DEF Next, Progress
<1>3. CASE ~StepReturned
  BY <1>0, <1>2, <1>3 DEF DoneInv, DoneNotAtOnce
<1> QED BY <1>1, <1>3

(* An action goal with no earlier history is never reported done on its      *)
(* first observation.                                                        *)
THEOREM DoneIsNotAtOnce == Spec => []DoneNotAtOnce
<1>1. Init => DoneInv
  BY DEF Init, DoneInv, DoneNotAtOnce
<1>2. ASSUME TypeInv, DoneInv, [Next]_vars PROVE DoneInv'
  <2>0. step \in Nat
    BY <1>2, LoopAssumption DEF TypeInv, TypeOK, LoopOK
  <2>1. CASE StepRuns
    <3>1. UNCHANGED <<input, step, history, at, reason>> /\ at = "stepping" /\ StepNext
      BY <2>1 DEF StepRuns, StepNext, callVars
    <3> QED BY <1>2, <3>1, DoneOfStep DEF DoneInv, DoneNotAtOnce
  <2>2. CASE BeginStep
    <3>1. /\ UNCHANGED <<input, history, reason>> /\ step' = step + 1
          /\ action'.type # "done"
      BY <2>2 DEF BeginStep, StepCalled, NoAction
    <3> QED BY <1>2, <2>0, <3>1 DEF DoneInv, DoneNotAtOnce
  <2>3. CASE ~StepRuns /\ ~BeginStep
    BY <1>2, <2>3, DoneOutsideStep
  <2> QED BY <2>1, <2>2, <2>3
<1>3. Init => TypeInv BY InitType
<1>4. TypeInv /\ [Next]_vars => TypeInv' BY StepType
<1>5. DoneInv => DoneNotAtOnce BY DEF DoneInv
<1> QED BY <1>1, <1>2, <1>3, <1>4, <1>5, PTL DEF Spec
-----------------------------------------------------------------------------
(* The run as an AgentTask.                                                  *)

ActedNow == \E i \in 1 .. Len(executed) : executed[i].step = step

(* Within a step the calls of the planner only grow, one at a time, before   *)
(* anything is performed.                                                    *)
LEMMA AsksOfStep ==
    ASSUME StepNext
    PROVE  \/ UNCHANGED asks
           \/ asks' = asks + 1 /\ stage \in Before /\ UNCHANGED executed
<1>1. CASE Fails \/ AskLocally \/ ExecuteSettles \/ CorrectionFails
  BY <1>1 DEF Fails, AskLocally, ExecuteSettles, CorrectionFails, sendVars
<1>2. CASE Perceive
  BY <1>2 DEF Perceive, SnapshotSucceeds, CaptureSucceeds, DetectSettles, RetainSettles,
      RedactSucceeds, BakeSettles, SanitizeSucceeds, sendVars
<1>3. CASE FirstAsk \/ PlanUnparsed
  BY <1>3 DEF FirstAsk, PlanUnparsed, Ask, Before, Asking
<1>4. ASSUME NEW a \in Actions, Judged(a)
      PROVE  \/ UNCHANGED asks
             \/ asks' = asks + 1 /\ stage \in Before /\ UNCHANGED executed
  BY <1>4 DEF Judged, SendCorrection, Refuse, Ask, sendVars, Before, Asking
<1>5. ASSUME NEW a \in Actions, CorrectionReplied(a) PROVE UNCHANGED asks
  BY <1>5 DEF CorrectionReplied, sendVars
<1> QED BY <1>1, <1>2, <1>3, <1>4, <1>5 DEF StepNext, Plan, GateBlocks, AwaitFails

(* A step of runAgentStep is a Send, an Act or nothing of the abstract task. *)
LEMMA StepIsTask ==
    ASSUME TypeInv, ActInv, EgressSafe, EgressSafe', StepRuns
    PROVE  [Task!TaskNext]_Task!taskVars
<1>0. /\ at = "stepping" /\ at' = "stepping"
      /\ UNCHANGED <<step, stopRequested>>
      /\ asks \in Nat /\ executed \in PageLog /\ StepNext
  BY DEF StepRuns, StepNext, callVars, TypeInv, TypeOK, LocalsOK, ObservedOK, PageLog
<1>1. stage \in Before => ~ActedNow
  <2>1. \A i \in 1 .. Len(executed) : executed[i].step \in Nat
    BY <1>0, LoggedSteps
  <2>2. step \in Nat
    BY LoopAssumption DEF TypeInv, TypeOK, LoopOK
  <2> QED BY <2>1, <2>2 DEF ActInv, ActedNow
<1>2. TaskPhase = IF asks = 0 THEN "looking" ELSE IF ActedNow THEN "acted" ELSE "asked"
  BY <1>0 DEF TaskPhase, ActedNow
<1>3. TaskPhase' = IF asks' = 0 THEN "looking" ELSE IF ActedNow' THEN "acted" ELSE "asked"
  BY <1>0 DEF TaskPhase, ActedNow
<1>4. CASE UNCHANGED <<asks, executed>>
  <2>1. ActedNow' = ActedNow
    BY <1>0, <1>4 DEF ActedNow
  <2>2. UNCHANGED <<TaskPhase, executed>>
    BY <1>2, <1>3, <1>4, <2>1
  <2> QED BY <1>0, <2>2 DEF Task!taskVars
<1>5. CASE asks' = asks + 1 /\ stage \in Before /\ UNCHANGED executed
  <2>1. ActedNow' = ActedNow /\ ~ActedNow
    BY <1>0, <1>1, <1>5 DEF ActedNow
  <2>2. TaskPhase' = "asked"
    BY <1>0, <1>3, <1>5, <2>1
  <2>3. CASE asks = 0
    <3>1. TaskPhase = "looking"
      BY <1>2, <2>3
    <3> QED BY <1>0, <1>5, <2>2, <3>1 DEF Task!TaskNext, Task!Send
  <2>4. CASE asks # 0
    <3>1. TaskPhase = "asked"
      BY <1>2, <2>1, <2>4
    <3> QED BY <1>0, <1>5, <2>2, <3>1 DEF Task!taskVars
  <2> QED BY <2>3, <2>4
<1>6. ASSUME NEW a \in Actions, Performs(a), UNCHANGED asks
      PROVE  [Task!TaskNext]_Task!taskVars
  <2>1. stage \in Asking /\ asks # 0
    BY <1>6 DEF Performs, Asking, TypeInv, Control
  <2>2. TaskPhase = "asked"
    BY <1>1, <1>2, <2>1 DEF Before
  <2>3. /\ Len(executed') = Len(executed) + 1
        /\ executed'[Len(executed) + 1].step = step
        /\ Len(executed) \in Nat
    BY <1>0, <1>6 DEF Performs, PageLog
  <2>4. ActedNow'
    <3>1. Len(executed) + 1 \in 1 .. Len(executed')
      BY <2>3
    <3> QED BY <1>0, <2>3, <3>1 DEF ActedNow
  <2>5. TaskPhase' = "acted"
    BY <1>3, <1>6, <2>1, <2>4
  <2> QED BY <1>0, <2>2, <2>3, <2>5 DEF Task!TaskNext, Task!Act
<1>7. ASSUME NEW a \in Actions, Performs(a), ~UNCHANGED asks PROVE FALSE
  <2>1. executed' # executed
    <3>1. Len(executed') # Len(executed)
      BY <1>0, <1>7 DEF Performs, PageLog
    <3> QED BY <3>1
  <2> QED BY <1>0, <1>7, <2>1, AsksOfStep
<1> QED BY <1>0, <1>4, <1>5, <1>6, <1>7, StepPerforms, AsksOfStep

(* So is everything the loop does around its steps.                          *)
LEMMA LoopIsTask ==
    ASSUME TypeInv, EgressSafe, EgressSafe', [Next]_vars, ~StepRuns
    PROVE  [Task!TaskNext]_Task!taskVars
<1> USE DEF TaskPhase, Task!TaskNext, Task!taskVars
<1>1. CASE BeginStep
  <2>1. /\ at = "top" /\ at' = "stepping" /\ asks' = 0
        /\ step < MaxSteps /\ ~stopRequested /\ step' = step + 1
        /\ UNCHANGED <<executed, stopRequested>>
    BY <1>1 DEF BeginStep, MayBegin, StepCalled
  <2> QED BY <2>1 DEF Task!Look
<1>2. CASE ~BeginStep
  <2>0. UNCHANGED <<step, executed, asks>>
    BY <1>2, OutsideStep DEF sendVars
  <2>1. CASE LoopStarts
    BY <2>0, <2>1 DEF LoopStarts
  <2>2. CASE CancelAtTop \/ Exhausted \/ ProbeFails \/ StepFailed
    <3>1. at # "stopped" /\ at' = "stopped" /\ UNCHANGED stopRequested
      BY <2>2 DEF CancelAtTop, Exhausted, ProbeFails, StepFailed, Stop
    <3>2. TaskPhase # "ended" /\ TaskPhase' = "ended"
      BY <3>1
    <3> QED BY <2>0, <3>1, <3>2 DEF Task!End
  <2>3. CASE StepReturned
    <3>1. at = "stepping" /\ at' \in {"stopped", "settling"} /\ UNCHANGED stopRequested
      BY <2>3 DEF StepReturned, Stop
    <3>2. /\ TaskPhase \in {"looking", "asked", "acted"}
          /\ TaskPhase' \in {"ended", "between"}
      BY <3>1
    <3> QED BY <2>0, <3>1, <3>2 DEF Task!End, Task!Rest
  <2>4. CASE Settled
    BY <2>0, <2>4 DEF Settled
  <2>5. ASSUME NEW f \in Fingerprints, Probed(f) PROVE [Task!TaskNext]_Task!taskVars
    <3>1. at = "probing" /\ at' \in {"stopped", "top"} /\ UNCHANGED stopRequested
      BY <2>5 DEF Probed, Stop
    <3>2. TaskPhase = "between" /\ TaskPhase' \in {"ended", "between"}
      BY <3>1
    <3> QED BY <2>0, <3>1, <3>2 DEF Task!End
  <2>6. CASE PressStop
    <3>1. UNCHANGED <<at, step, executed, asks>> /\ stopRequested' = TRUE
      BY <2>0, <2>6 DEF PressStop, loopVars
    <3>2. UNCHANGED TaskPhase
      BY <3>1
    <3> QED BY <3>1, <3>2 DEF Task!AskToStop
  <2>7. CASE UNCHANGED vars
    <3>1. UNCHANGED <<at, step, executed, asks, stopRequested>>
      BY <2>0, <2>7 DEF vars, loopVars
    <3> QED BY <3>1
  <2> QED BY <1>2, <2>1, <2>2, <2>3, <2>4, <2>5, <2>6, <2>7 DEF Next, Progress
<1> QED BY <1>1, <1>2

(* A run of the agent is a run of the abstract task: it sends only what is   *)
(* safe, acts at most once per observation and only after asking, and begins *)
(* nothing after Stop.                                                       *)
THEOREM RunIsATask == Spec => TaskRefined
<1>1. Init => Task!TaskInit
  BY DEF Init, StepInit, TaskPhase, Task!TaskInit, EgressSafe
<1>2. ASSUME TypeInv, ActInv, EgressSafe, EgressSafe', [Next]_vars
      PROVE  [Task!TaskNext]_Task!taskVars
  BY <1>2, StepIsTask, LoopIsTask
<1>3. Init => TypeInv BY InitType
<1>4. TypeInv /\ [Next]_vars => TypeInv' BY StepType
<1>5. Init => ActInv BY ActInvInit
<1>6. TypeInv /\ ActInv /\ [Next]_vars => ActInv' BY ActInvStep
<1>7. Spec => []EgressSafe BY EgressIsSafe
<1> QED BY <1>1, <1>2, <1>3, <1>4, <1>5, <1>6, <1>7, PTL DEF Spec, TaskRefined, Task!TaskSpec

-----------------------------------------------------------------------------
(* What the history says of a step.                                          *)

Done(s, a) == \E j \in 1 .. Len(executed) : executed[j] = [step |-> s, action |-> a]

(* A step that waits for the page, or has returned without a miss, holds an  *)
(* action that validated; a page action has been performed in it.            *)
Landed ==
    action.type = "page" =>
        action.code = "ok" /\ (input.planOnly \/ Done(step, action))

TruthInv ==
    /\ HistoryTruthful
    /\ stage = "execute" => Landed
    /\ stage = "returned" /\ result.ok /\ ~result.missed => Landed

(* What was performed stays performed.                                       *)
LEMMA DoneStays ==
    ASSUME executed \in PageLog, NEW e,
           executed' = executed \/ executed' = Append(executed, e)
    PROVE  \A s, a : Done(s, a) => Done(s, a)'
<1>1. CASE executed' = executed
  BY <1>1 DEF Done
<1>2. CASE executed' = Append(executed, e)
  <2>1. /\ Len(executed') = Len(executed) + 1 /\ Len(executed) \in Nat
        /\ \A i \in 1 .. Len(executed) : executed'[i] = executed[i]
    BY <1>2 DEF PageLog
  <2> QED BY <2>1 DEF Done
<1> QED BY <1>1, <1>2

(* Accepting a validated action leaves it performed, or nothing to perform.  *)
LEMMA AcceptLands ==
    ASSUME TypeInv, NEW a \in Actions, a.code = "ok", Accept(a), UNCHANGED callVars
    PROVE  /\ Landed'
           /\ executed' = executed \/ executed' = Append(executed, [step |-> step, action |-> a])
<1>0. executed \in PageLog
  BY DEF TypeInv, TypeOK, ObservedOK, PageLog
<1>1. action' = a /\ UNCHANGED <<input, step>>
  BY DEF Accept, callVars
<1>2. CASE input.planOnly
  BY <1>1, <1>2 DEF Accept, Landed
<1>3. CASE ~input.planOnly /\ a.type # "page"
  BY <1>1, <1>3 DEF Accept, Landed
<1>4. CASE ~input.planOnly /\ a.type = "page"
  <2>1. executed' = Append(executed, [step |-> step, action |-> a])
    BY <1>4 DEF Accept
  <2>2. /\ Len(executed') = Len(executed) + 1 /\ Len(executed) \in Nat
        /\ executed'[Len(executed) + 1] = [step |-> step, action |-> a]
    BY <1>0, <2>1 DEF PageLog
  <2>3. Len(executed) + 1 \in 1 .. Len(executed')
    BY <2>2
  <2>4. Done(step, a)'
    BY <1>1, <2>2, <2>3 DEF Done
  <2> QED BY <1>1, <2>1, <2>4 DEF Landed, Done
<1> QED BY <1>2, <1>3, <1>4

(* However a step goes on, it owes the history the truth.                    *)
LEMMA TruthOfStep ==
    ASSUME TypeInv, TruthInv, StepNext
    PROVE  /\ stage' = "execute" => Landed'
           /\ stage' = "returned" /\ result'.ok /\ ~result'.missed => Landed'
           /\ \/ executed' = executed
              \/ \E a \in Actions : executed' = Append(executed, [step |-> step, action |-> a])
<1> DEFINE Owes == /\ stage' = "execute" => Landed'
                   /\ stage' = "returned" /\ result'.ok /\ ~result'.missed => Landed'
           Logs == \/ executed' = executed
                   \/ \E a \in Actions : executed' = Append(executed, [step |-> step, action |-> a])
<1>0. UNCHANGED callVars
  BY DEF StepNext
<1>1. CASE Perceive
  BY <1>1 DEF Perceive, SnapshotSucceeds, CaptureSucceeds, DetectSettles, RetainSettles,
      RedactSucceeds, BakeSettles, SanitizeSucceeds
<1>2. CASE FirstAsk \/ PlanUnparsed
  BY <1>2 DEF FirstAsk, PlanUnparsed
<1>3. CASE Fails
  <2>1. executed' = executed /\ stage' = "returned" /\ ~result'.ok
    BY <1>3 DEF Fails, Fail, Return
  <2> QED BY <2>1
<1>4. CASE AskLocally
  <2>1. executed' = executed /\ action'.type # "page" /\ stage' = "returned"
    BY <1>4 DEF AskLocally, LocalAsk, Return
  <2> QED BY <2>1 DEF Landed
<1>5. CASE CorrectionFails
  <2>1. executed' = executed /\ stage' = "returned" /\ (~result'.ok \/ result'.missed)
    BY <1>5 DEF CorrectionFails, KeepRefusal, Fail, Return
  <2> QED BY <2>1
<1>6. CASE ExecuteSettles
  <2>1. stage = "execute" /\ UNCHANGED <<executed, action, input, step>> /\ stage' = "returned"
    BY <1>0, <1>6 DEF ExecuteSettles, Return, replyVars, callVars
  <2> QED BY <2>1 DEF TruthInv, Landed, Done
<1>7. ASSUME NEW a \in Actions, a.code = "ok", Accept(a) PROVE Owes /\ Logs
  BY <1>0, <1>7, AcceptLands
<1>8. ASSUME NEW a \in Actions, Judged(a) PROVE Owes /\ Logs
  <2>1. CASE Verdict(a) = "ok"
    <3>1. a.code = "ok" /\ Accept(a)
      BY <1>8, <2>1 DEF Judged, Verdict, Unverified
    <3> QED BY <3>1, <1>7
  <2>2. ASSUME NEW k \in Keys, Accept(Recovered(k)) PROVE Owes /\ Logs
    <3>1. Recovered(k).code = "ok" /\ Recovered(k) \in Actions
      BY RecoveredIsAction DEF Recovered
    <3> QED BY <1>7, <2>2, <3>1
  <2>3. CASE SendCorrection(a)
    BY <2>3 DEF SendCorrection
  <2>4. CASE Refuse(a)
    <3>1. executed' = executed /\ stage' = "returned" /\ ~result'.ok
      BY <2>4 DEF Refuse, Fail, Return
    <3> QED BY <3>1
  <2> QED BY <1>8, <2>1, <2>2, <2>3, <2>4 DEF Judged
<1>9. ASSUME NEW a \in Actions, CorrectionReplied(a) PROVE Owes /\ Logs
  <2>1. CASE Verdict(a) = "ok"
    <3>1. a.code = "ok" /\ Accept(a)
      BY <1>9, <2>1 DEF CorrectionReplied, Verdict, Unverified
    <3> QED BY <3>1, <1>7
  <2>2. CASE Verdict(a) # "ok"
    <3>1. executed' = executed /\ stage' = "returned" /\ (~result'.ok \/ result'.missed)
      BY <1>9, <2>2 DEF CorrectionReplied, KeepRefusal, Fail, Return
    <3> QED BY <3>1
  <2> QED BY <2>1, <2>2
<1> QED BY <1>1, <1>2, <1>3, <1>4, <1>5, <1>6, <1>8, <1>9
        DEF StepNext, Plan, GateBlocks, AwaitFails

(* Outside a step the history grows only by the entry of one that returned.  *)
LEMMA HistoryGrows ==
    ASSUME [Next]_vars
    PROVE  \/ history' = history
           \/ StepReturned
BY DEF Next, Progress, LoopStarts, BeginStep, CancelAtTop, Exhausted, StepRuns, StepNext,
       StepFailed, Settled, Probed, ProbeFails, PressStop, callVars, vars, loopVars

(* HistoryTruthful: what the history tells the planner of a page action that *)
(* landed is so, for every planner and any length of the run.                *)
THEOREM HistoryIsTruthful == Spec => []HistoryTruthful
<1>1. Init => TruthInv
  BY DEF Init, StepInit, TruthInv, HistoryTruthful, Earlier, NoAction
<1>2. ASSUME TypeInv, TruthInv, [Next]_vars PROVE TruthInv'
  <2>0. executed \in PageLog /\ history \in Seq(EntryType)
    BY <1>2 DEF TypeInv, TypeOK, ObservedOK, PageLog, LoopOK
  <2>1. CASE StepRuns
    <3>1. StepNext /\ UNCHANGED <<input, history>>
      BY <2>1 DEF StepRuns, StepNext, callVars
    <3>2. \A s, a : Done(s, a) => Done(s, a)'
      BY <1>2, <2>0, <3>1, TruthOfStep, DoneStays
    <3>3. HistoryTruthful'
      BY <1>2, <3>1, <3>2 DEF TruthInv, HistoryTruthful, Done
    <3> QED BY <1>2, <3>1, <3>3, TruthOfStep DEF TruthInv
  <2>2. CASE BeginStep
    <3>1. UNCHANGED <<input, history, executed>> /\ stage' = "snapshot"
      BY <2>2 DEF BeginStep, StepCalled
    <3> QED BY <1>2, <3>1 DEF TruthInv, HistoryTruthful
  <2>3. CASE StepReturned
    <3> DEFINE n == Len(history)
               e == Entry(result.missed)
    <3>1. /\ stage = "returned" /\ result.ok /\ stage' = "idle"
          /\ history' = Append(history, e) /\ UNCHANGED <<input, executed>>
      BY <2>3 DEF StepReturned
    <3>2. e.action.type = "page" /\ e.ok =>
              e.action.code = "ok" /\ (input.planOnly \/ Done(e.step, e.action))
      BY <1>2, <3>1 DEF TruthInv, Landed, Entry
    <3>3. /\ Len(history') = n + 1 /\ n \in Nat
          /\ \A i \in 1 .. n : history'[i] = history[i]
          /\ history'[n + 1] = e
      BY <2>0, <3>1
    <3> HIDE DEF e, n
    <3>4. HistoryTruthful'
      BY <1>2, <3>1, <3>2, <3>3 DEF TruthInv, HistoryTruthful, Done
    <3> QED BY <3>1, <3>4 DEF TruthInv
  <2>4. CASE ~StepRuns /\ ~BeginStep /\ ~StepReturned
    <3>1. /\ UNCHANGED <<input, step, executed, history>>
          /\ stage' # stage => stage' = "idle"
      BY <1>2, <2>4, OutsideStep, HistoryGrows
    <3>2. UNCHANGED <<action, result>>
      BY <1>2, <2>4 DEF Next, Progress, LoopStarts, CancelAtTop, Exhausted, StepFailed,
         Settled, Probed, ProbeFails, PressStop, stepVars, replyVars, outVars, vars
    <3> QED BY <1>2, <3>1, <3>2 DEF TruthInv, HistoryTruthful, Landed, Done
  <2> QED BY <2>1, <2>2, <2>3, <2>4
<1>3. Init => TypeInv BY InitType
<1>4. TypeInv /\ [Next]_vars => TypeInv' BY StepType
<1>5. TruthInv => HistoryTruthful BY DEF TruthInv
<1> QED BY <1>1, <1>2, <1>3, <1>4, <1>5, PTL DEF Spec

-----------------------------------------------------------------------------
(* Going in circles.                                                         *)

(* A run of n equal entries that ends with e, is one of n - 1 before it.     *)
LEMMA SteadyBefore ==
    ASSUME NEW S, NEW s \in Seq(S), NEW e \in S, NEW n \in Nat \ {0},
           Steady(Append(s, e), n + 1)
    PROVE  s # <<>> /\ s[Len(s)] = e /\ Steady(s, n)
<1> DEFINE t == Append(s, e)
           l == Len(s)
<1>1. /\ Len(t) = l + 1 /\ l \in Nat /\ t[l + 1] = e
      /\ \A i \in 1 .. l : t[i] = s[i]
  OBVIOUS
<1>2. l >= n /\ \A i \in (l + 1) - (n + 1) + 1 .. l + 1 : t[i] = e
  BY <1>1 DEF Steady
<1> HIDE DEF t
<1>3. \A i \in l - n + 1 .. l : s[i] = e
  BY <1>1, <1>2
<1>4. l \in l - n + 1 .. l /\ s # <<>>
  BY <1>1, <1>2
<1> QED BY <1>1, <1>2, <1>3, <1>4 DEF Steady

(* No page action has been planned more often in a row than was counted, and *)
(* the page has not looked the same longer than was counted.                 *)
Counted ==
    at # "stopped" =>
        /\ \A n \in Nat \ {0} :
               Steady(Planned(history), n) /\ history[Len(history)].action.type = "page" =>
                   n <= repeats + 1 /\ lastKey = history[Len(history)].action.key
        /\ \A n \in Nat \ {0} : Steady(probes, n) => n <= stalls + 1

LEMMA CountedInit == Init => Counted
<1> SUFFICES ASSUME Init PROVE Counted
  OBVIOUS
<1>1. CASE history = <<>>
  BY <1>1 DEF Init, StepInit, Counted, Steady, Planned
<1>2. CASE history = <<Earlier>>
  BY <1>2 DEF Init, StepInit, Counted, Steady, Planned, Earlier, NoAction
<1> QED BY <1>1, <1>2 DEF Init

(* A step that has returned is counted with those that planned the same.     *)
LEMMA CountedReturn ==
    ASSUME TypeInv, Counted, StepReturned
    PROVE  Counted'
<1> DEFINE e == Entry(result.missed)
           l == Len(history)
           P == Planned(history)
<1>0. /\ history \in Seq(EntryType) /\ action \in Actions \cup {NoAction}
      /\ repeats \in Nat /\ at = "stepping"
      /\ UNCHANGED <<probes, stalls>>
  BY LoopAssumption DEF TypeInv, TypeOK, LoopOK, LocalsOK, StepReturned
<1>1. history' = Append(history, e)
  BY DEF StepReturned
<1>2. \A x \in Actions \cup {NoAction} :
          /\ x.key \in Keys \cup {NoKey}
          /\ x.type = "page" <=> x.key \in Keys
  BY NoKeyAssumption DEF Actions, PageActions, Endings, Questions, NoAction
<1>3. \A i \in 1 .. l : history[i] \in EntryType
  BY <1>0, ElementOfSeq
<1>4. /\ P \in Seq(Keys \cup {NoKey}) /\ Len(P) = l /\ l \in Nat
      /\ \A i \in 1 .. l : P[i] = history[i].action.key
  <2>1. l \in Nat
    BY <1>0
  <2>2. \A i \in 1 .. l : history[i].action.key \in Keys \cup {NoKey}
    BY <1>2, <1>3 DEF EntryType
  <2> QED BY <2>1, <2>2 DEF Planned
<1>5. e.action = action
  BY DEF Entry
<1>6. Len(history') = l + 1 /\ history'[l + 1] = e /\ \A i \in 1 .. l : history'[i] = history[i]
  BY <1>0, <1>1
<1>7. Planned(history') = Append(P, action.key)
  <2>1. \A i \in 1 .. l + 1 :
            history'[i].action.key = IF i <= l THEN P[i] ELSE action.key
    BY <1>4, <1>5, <1>6
  <2> QED BY <1>4, <1>6, <2>1 DEF Planned
<1> HIDE DEF P, e
<1>8. ASSUME at' # "stopped", NEW n \in Nat \ {0}, Steady(Planned(history'), n),
             history'[Len(history')].action.type = "page"
      PROVE  n <= repeats' + 1 /\ lastKey' = history'[Len(history')].action.key
  <2>1. /\ history'[Len(history')].action = action /\ action.type = "page"
        /\ action.key \in Keys
    BY <1>0, <1>2, <1>4, <1>5, <1>6, <1>8
  <2>2. repeats' = Repeats /\ lastKey' = action.key
    BY <1>8, <2>1 DEF StepReturned, Stop, Terminal
  <2>3. CASE n = 1
    BY <1>0, <2>1, <2>2, <2>3 DEF Repeats
  <2>4. CASE n # 1
    <3>1. n - 1 \in Nat \ {0} /\ (n - 1) + 1 = n
      BY <2>4
    <3>2. P # <<>> /\ P[Len(P)] = action.key /\ Steady(P, n - 1)
      BY <1>4, <1>7, <1>8, <2>1, <3>1, SteadyBefore
    <3>3. l >= 1
      BY <1>4, <3>2
    <3>4. history[l].action.key = action.key /\ history[l].action.type = "page"
      <4>1. history[l].action.key = action.key
        BY <1>4, <3>2, <3>3
      <4>2. history[l].action \in Actions \cup {NoAction}
        BY <1>3, <1>4, <3>3 DEF EntryType
      <4> QED BY <1>2, <2>1, <4>1, <4>2
    <3>5. n - 1 <= repeats + 1 /\ lastKey = action.key
      BY <1>0, <3>1, <3>2, <3>4 DEF Counted, P
    <3> QED BY <1>0, <2>1, <2>2, <3>5 DEF Repeats
  <2> QED BY <2>3, <2>4
<1>9. \A n \in Nat \ {0} : Steady(probes', n) => n <= stalls' + 1
  BY <1>0 DEF Counted
<1> QED BY <1>8, <1>9 DEF Counted

(* A fingerprint is counted with those before it that were the same.         *)
LEMMA CountedProbe ==
    ASSUME TypeInv, Counted, NEW f \in Fingerprints, Probed(f)
    PROVE  Counted'
<1>0. /\ probes \in Seq(Fingerprints) /\ stalls \in Nat /\ at = "probing"
      /\ probes' = Append(probes, f)
      /\ stalls' = IF Unchanged(f) THEN stalls + 1 ELSE 0
      /\ UNCHANGED <<history, repeats, lastKey>>
  BY LoopAssumption DEF TypeInv, TypeOK, LoopOK, ObservedOK, Probed, callVars
<1>1. ASSUME NEW n \in Nat \ {0}, Steady(probes', n)
      PROVE  n <= stalls' + 1
  <2>1. CASE n = 1
    BY <1>0, <2>1
  <2>2. CASE n # 1
    <3> DEFINE m == n - 1
    <3>1. m \in Nat \ {0} /\ m + 1 = n
      BY <2>2
    <3> HIDE DEF m
    <3>2. f \in Fingerprints /\ probes \in Seq(Fingerprints) /\ Steady(Append(probes, f), m + 1)
      BY <1>0, <1>1, <3>1
    <3>3. probes # <<>> /\ probes[Len(probes)] = f /\ Steady(probes, m)
      BY ONLY <3>1, <3>2, SteadyBefore
    <3>4. m <= stalls + 1
      BY <1>0, <3>1, <3>3 DEF Counted
    <3> QED BY <1>0, <3>1, <3>3, <3>4 DEF Unchanged
  <2> QED BY <2>1, <2>2
<1> QED BY <1>0, <1>1 DEF Counted

LEMMA CountedStep == TypeInv /\ Counted /\ [Next]_vars => Counted'
<1> SUFFICES ASSUME TypeInv, Counted, [Next]_vars PROVE Counted'
  OBVIOUS
<1>1. CASE StepReturned
  BY <1>1, CountedReturn
<1>2. ASSUME NEW f \in Fingerprints, Probed(f) PROVE Counted'
  BY <1>2, CountedProbe
<1>3. CASE UNCHANGED <<history, repeats, lastKey, probes, stalls>> /\ at # "stopped"
  BY <1>3 DEF Counted
<1>4. CASE UNCHANGED vars
  BY <1>4 DEF vars, callVars, loopVars, Counted
<1> QED BY <1>1, <1>2, <1>3, <1>4 DEF Next, Progress, LoopStarts, BeginStep, CancelAtTop,
        Exhausted, StepRuns, StepNext, StepFailed, Settled, ProbeFails, PressStop,
        callVars, loopVars

(* CirclesEndRun: an action planned too often in a row and a page that does  *)
(* not move end the run, for any bounds on them and any length of it.        *)
THEOREM CirclesAreEnded == Spec => []CirclesEndRun
<1>1. TypeInv /\ Counted => CirclesEndRun
  BY LoopAssumption DEF TypeInv, TypeOK, LoopOK, Control, Counted, CirclesEndRun
<1>2. Init => TypeInv BY InitType
<1>3. TypeInv /\ [Next]_vars => TypeInv' BY StepType
<1> QED BY <1>1, <1>2, <1>3, CountedInit, CountedStep, PTL DEF Spec

-----------------------------------------------------------------------------
(* Vision.                                                                   *)

(* Once the run has begun, the failures counted are those of this run.       *)
BreakerInv ==
    /\ at = "ready" => detects = <<>>
    /\ at # "ready" /\ detects = <<>> => visionFailures = 0
    /\ \A n \in Nat \ {0} :
           Steady(detects, n) /\ ~detects[Len(detects)] => visionFailures >= n
    /\ stage \in {"retain", "redact"} /\ input.vision => detects # <<>>

LEMMA BreakerOfStep ==
    ASSUME TypeInv, BreakerInv, StepRuns
    PROVE  BreakerInv'
<1>0. /\ detects \in Seq(BOOLEAN) /\ visionFailures \in Nat /\ StepNext
      /\ at = "stepping" /\ at' = at /\ input' = input
  BY LimitAssumption
  DEF TypeInv, TypeOK, FlagsOK, LocalsOK, StepRuns, StepNext, callVars
<1>1. CASE stage = "detect"
  <2> DEFINE b == visionFailures' = 0
  <2>1. detects' = Append(detects, b) /\ b \in BOOLEAN
    BY <1>1 DEF StepRuns
  <2>2. visionFailures' \in {0, visionFailures + 1}
    BY <1>0, <1>1 DEF StepNext, Perceive, Plan, SnapshotSucceeds, CaptureSucceeds,
       DetectSettles, RetainSettles, RedactSucceeds, BakeSettles, SanitizeSucceeds,
       GateBlocks, AskLocally, FirstAsk, PlanUnparsed, CorrectionFails, Judged,
       CorrectionReplied, ExecuteSettles, AwaitFails
  <2>3. detects' # <<>> /\ detects'[Len(detects')] = b
    BY <1>0, <2>1
  <2>4. ASSUME NEW n \in Nat \ {0}, Steady(detects', n), ~b
        PROVE  visionFailures' >= n
    <3>1. visionFailures' = visionFailures + 1
      BY <2>2, <2>4
    <3>2. CASE n = 1
      BY <1>0, <3>1, <3>2
    <3>3. CASE n # 1
      <4>1. n - 1 \in Nat \ {0} /\ (n - 1) + 1 = n
        BY <3>3
      <4> HIDE DEF b
      <4>2. detects # <<>> /\ detects[Len(detects)] = b /\ Steady(detects, n - 1)
        BY <1>0, <2>1, <2>4, <4>1, SteadyBefore
      <4>3. visionFailures >= n - 1
        BY <2>4, <4>1, <4>2 DEF BreakerInv
      <4> QED BY <1>0, <3>1, <4>3
    <3> QED BY <3>2, <3>3
  <2> HIDE DEF b
  <2> QED BY <1>0, <2>3, <2>4 DEF BreakerInv
<1>2. CASE stage # "detect"
  <2>1. detects' = detects
    BY <1>2 DEF StepRuns
  <2>2. visionFailures' = visionFailures
    BY <1>0, <1>2 DEF StepNext, Perceive, Plan, SnapshotSucceeds, CaptureSucceeds,
       DetectSettles, RetainSettles, RedactSucceeds, BakeSettles, SanitizeSucceeds,
       GateBlocks, AskLocally, FirstAsk, PlanUnparsed, CorrectionFails, Judged,
       CorrectionReplied, ExecuteSettles, AwaitFails, Fails
  <2>3. stage' \in {"retain", "redact"} => CaptureSucceeds \/ RetainSettles
    BY <1>0, <1>2, AcceptStage, RecoveredIsAction
    DEF StepNext, Perceive, Plan, SnapshotSucceeds,
       DetectSettles, RedactSucceeds, BakeSettles, SanitizeSucceeds,
       GateBlocks, AskLocally, FirstAsk, PlanUnparsed, CorrectionFails, Judged,
       CorrectionReplied, ExecuteSettles, AwaitFails, Fails, Fail, Return, KeepRefusal,
       SendCorrection, Refuse
  <2>4. CASE CaptureSucceeds
    <3>1. input.vision /\ stage' \in {"retain", "redact"} => visionFailures >= VisionFailureLimit
      BY <2>4 DEF CaptureSucceeds, SkipVision
    <3>2. input.vision /\ stage' \in {"retain", "redact"} => detects # <<>>
      BY <1>0, <3>1, LimitAssumption DEF BreakerInv
    <3> QED BY <1>0, <2>1, <2>2, <3>2 DEF BreakerInv
  <2>5. CASE RetainSettles
    <3>1. stage = "retain"
      BY <2>5 DEF RetainSettles
    <3> QED BY <1>0, <2>1, <2>2, <3>1 DEF BreakerInv
  <2>6. CASE stage' \notin {"retain", "redact"}
    BY <1>0, <2>1, <2>2, <2>6 DEF BreakerInv
  <2> QED BY <2>3, <2>4, <2>5, <2>6
<1> QED BY <1>1, <1>2

(* VisionBreaker: vision that failed too often in a row is not asked again   *)
(* in the run, and every run that wants it asks it once before its first     *)
(* redaction, for any limit and whatever count the run before it left.       *)
THEOREM VisionBreaks == Spec => []VisionBreaker
<1>1. Init => BreakerInv
  BY DEF Init, StepInit, BreakerInv, Steady
<1>2. ASSUME TypeInv, BreakerInv, [Next]_vars PROVE BreakerInv'
  <2>1. CASE StepRuns
    BY <1>2, <2>1, BreakerOfStep
  <2>2. CASE LoopStarts
    <3>1. /\ at = "ready" /\ at' = "top" /\ visionFailures' = 0
          /\ detects = <<>> /\ UNCHANGED <<detects, stage, input>>
      BY <1>2, <2>2 DEF LoopStarts, BreakerInv, callVars
    <3> QED BY <1>2, <3>1 DEF BreakerInv, Steady
  <2>3. CASE BeginStep
    BY <1>2, <2>3 DEF BeginStep, StepCalled, BreakerInv
  <2>4. CASE ~StepRuns /\ ~BeginStep /\ ~LoopStarts
    <3>1. /\ UNCHANGED input
          /\ stage' # stage => stage' = "idle"
      BY <1>2, <2>4, OutsideStep
    <3>2. UNCHANGED <<detects, visionFailures>> /\ (at' = "ready" <=> at = "ready")
      BY <1>2, <2>4 DEF Next, Progress, CancelAtTop, Exhausted, StepFailed, StepReturned,
         Settled, Probed, ProbeFails, PressStop, Stop, stepVars, loopVars, vars
    <3> QED BY <1>2, <3>1, <3>2 DEF BreakerInv
  <2> QED BY <2>1, <2>2, <2>3, <2>4
<1>3. TypeInv /\ BreakerInv => VisionBreaker
  BY LimitAssumption DEF TypeInv, TypeOK, LocalsOK, Control, BreakerInv, VisionBreaker
<1>4. Init => TypeInv BY InitType
<1>5. TypeInv /\ [Next]_vars => TypeInv' BY StepType
<1> QED BY <1>1, <1>2, <1>3, <1>4, <1>5, PTL DEF Spec
===============================================================================
