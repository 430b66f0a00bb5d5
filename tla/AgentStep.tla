------------------------------ MODULE AgentStep ------------------------------
(***************************************************************************)
(* One agent step: runAgentStep of src/src/orchestrator/step.ts.           *)
(*                                                                         *)
(* The step is a single async function; every await is a point at which    *)
(* the rest of the extension runs, so the code between two awaits is one   *)
(* action and `stage` says which await the function is suspended in (the   *)
(* code's own `stage` variable, refined where one stage awaits twice).     *)
(* A settled promise is one action per way it can settle.                  *)
(*                                                                         *)
(* Text, pixels and DOM are reduced to what the control flow looks at:     *)
(*   - the redaction result to whether some applied entry owed a pixel op  *)
(*     has none (`uncovered`) and how many pixel ops there are;            *)
(*   - the image to whether it still shows something the text redaction    *)
(*     removed ("exposed"), which the bake's own counters reveal;          *)
(*   - the outbound context to whether it passes the verification gate     *)
(*     (`clean`) and which image it carries;                               *)
(*   - an action to its type, the identity JSON.stringify gives it (`key`) *)
(*     and the verdict validateAction returns for it (`code`).             *)
(* Latency, panel events and the privacy lens are left out: nothing reads  *)
(* them back and their failures are swallowed.                             *)
(***************************************************************************)
EXTENDS Naturals, Sequences

CONSTANTS
    Keys,               \* identities of the page actions a planner can reply
    NoKey,              \* the key of an action that is not a page action
    Refusals,           \* codes validateAction refuses with
    Correctable,        \* CORRECTABLE_REFUSALS, as far as validateAction goes
    VisionFailureLimit, \* VISION_FAILURE_LIMIT
    MaxOps,             \* bound: pixel ops of one frame
    StepInputs          \* the StepInput settings a run can be started with

Unverified == "unverified-completion"
RedFlags   == Refusals \ Correctable

InputType ==
    [vision     : BOOLEAN,  \* input.vision
     screenshot : BOOLEAN,  \* input.screenshot
     planOnly   : BOOLEAN,  \* input.planOnly
     selfAsks   : BOOLEAN,  \* input.backend is 'cloud' or 'private'
     answered   : BOOLEAN,  \* input.clarifications is not empty
     needsAct   : BOOLEAN,  \* needsAction(input.goal)
     prior      : BOOLEAN]  \* input.history was not empty when the run began

ASSUME NoKeyAssumption == NoKey \notin Keys
ASSUME RefusalAssumption ==
    /\ Correctable \subseteq Refusals
    /\ "ok" \notin Refusals
    /\ Unverified \notin Refusals
ASSUME LimitAssumption == VisionFailureLimit \in Nat \ {0} /\ MaxOps \in Nat
ASSUME InputAssumption == StepInputs \subseteq InputType

(* A parsed action with the verdict this step's validation gives it. `done`  *)
(* and `abort` are never refused by validateAction; `ask_user` only with a   *)
(* code outside CORRECTABLE_REFUSALS.                                        *)
PageActions == [type : {"page"}, key : Keys, code : {"ok"} \cup Refusals]
Endings     == [type : {"done", "abort"}, key : {NoKey}, code : {"ok"}]
Questions   == [type : {"ask_user"}, key : {NoKey}, code : {"ok"} \cup RedFlags]
Actions     == PageActions \cup Endings \cup Questions
NoAction    == [type |-> "none", key |-> NoKey, code |-> "ok"]
LocalAsk    == [type |-> "ask_user", key |-> NoKey, code |-> "ok"]

Images   == {"none", "covered", "exposed"}
Contexts == [clean : BOOLEAN, image : Images]
Verdicts == {"ok", Unverified} \cup Refusals

Stages == {"idle", "snapshot", "capture", "detect", "retain", "redact", "bake",
           "sanitize", "verify", "plan", "replan", "correct", "execute",
           "returned"}

VARIABLES
    \* parameters of the call
    input,           \* the run's StepInput settings
    step,            \* input.step
    history,         \* input.history: what earlier steps did
    \* module state
    visionFailures,  \* consecutive vision failures (a module-level let)
    \* locals of runAgentStep
    stage,           \* the await it is suspended in
    retained,        \* the worker was asked to hold the frame's bitmap
    uncovered,       \* an applied redaction owed a pixel op has none
    ops,             \* redaction.pixelOps.length
    context,         \* the outbound context, with its screenshot
    recoverable,     \* recoverTextAction finds a field its action validates on
    action,          \* the action of the outcome
    verdict,         \* the validation verdict on it
    result,          \* what the step returned
    \* observations
    asks,            \* calls of client.plan in this step
    wire,            \* contexts handed to client.plan so far
    executed,        \* page actions handed to deps.execute so far
    captured,        \* steps whose capture produced a frame
    released         \* steps that asked the worker to drop their frame

callVars  == <<input, step, history>>
viewVars  == <<retained, uncovered, ops, context, recoverable>>
replyVars == <<action, verdict>>
sendVars  == <<asks, wire>>
outVars   == <<result, released>>
stepVars  == <<visionFailures, stage, viewVars, replyVars, sendVars, outVars,
               executed, captured>>

NoContext == [clean |-> FALSE, image |-> "none"]
NoResult  == [ok |-> TRUE, missed |-> FALSE]

StepInit ==
    /\ stage = "idle"
    /\ retained = FALSE
    /\ uncovered = FALSE
    /\ ops = 0
    /\ context = NoContext
    /\ recoverable = FALSE
    /\ action = NoAction
    /\ verdict = "ok"
    /\ result = NoResult
    /\ asks = 0
    /\ wire = {}
    /\ executed = <<>>
    /\ captured = {}
    /\ released = {}

-----------------------------------------------------------------------------
(* Pieces the actions share.                                                 *)

(* Mutant: the frame is released on the success path only.                   *)
ReturnKeepsFrame(ok, missed) ==
    /\ stage' = "returned"
    /\ result' = [ok |-> ok, missed |-> missed]
    /\ released' = IF ok /\ step \in captured THEN released \cup {step} ELSE released

(* Every return and every throw leaves through `finally`, which asks the     *)
(* worker to drop the frame if capture produced one.                         *)
Return(ok, missed) ==
    /\ stage' = "returned"
    /\ result' = [ok |-> ok, missed |-> missed]
    /\ released' = IF step \in captured THEN released \cup {step} ELSE released

Fail == Return(FALSE, FALSE)

(* Nothing but the outcome changes when the step fails.                      *)
Fails ==
    /\ Fail
    /\ UNCHANGED <<visionFailures, viewVars, replyVars, sendVars, executed, captured>>

(* askServer: client.plan with this step's context, whatever the attempt.    *)
Ask ==
    /\ asks' = asks + 1
    /\ wire' = wire \cup {context}

(* Mutant: steps counted from zero.                                          *)
UnprovenFromZero(a) ==
    /\ a.type = "done"
    /\ step < 1
    /\ history = <<>>
    /\ input.needsAct

(* completionVerdict: `done` on step 1 of an action goal with no history.    *)
Unproven(a) ==
    /\ a.type = "done"
    /\ step <= 1
    /\ history = <<>>
    /\ input.needsAct

(* Mutant: only the completion check is run on a reply.                      *)
VerdictOfCompletion(a) == IF Unproven(a) THEN Unverified ELSE "ok"

(* The verdict a reply gets: validateAction's, unless completionVerdict       *)
(* refuses a `done` that validateAction let through.                         *)
Verdict(a) == IF Unproven(a) THEN Unverified ELSE a.code

CanCorrect(v) == v \in Correctable \cup {Unverified}

(* Mutant: one failure too many is allowed.                                  *)
SkipVisionLate == ~input.vision \/ visionFailures > VisionFailureLimit

(* Vision is not asked when it is off or has failed too often in a row.      *)
SkipVision == ~input.vision \/ visionFailures >= VisionFailureLimit

(* Mutant: an uncovered entry does not withhold the image.                   *)
MayBakeAnyway(bare) == input.screenshot /\ retained

(* A bake is worth asking for: an image is wanted, every applied entry that  *)
(* can paint has its op, and the worker was given the frame.                 *)
MayBake(bare) == input.screenshot /\ ~bare /\ retained

(* A baked image is kept only if every op that meets the frame landed.       *)
Keeps(outside, applied) == ops - outside <= applied

(* What a kept image shows: anything owed an op and not painted is legible.  *)
ImageOf(outside, applied) ==
    IF uncovered \/ applied + outside < ops THEN "exposed" ELSE "covered"

-----------------------------------------------------------------------------
(* Perception: snapshot, capture, detect or retain, redact, bake, sanitize.  *)

(* runAgentStep is called; the loop sets `step` and `history`.               *)
StepCalled ==
    /\ stage' = "snapshot"
    /\ retained' = FALSE
    /\ uncovered' = FALSE
    /\ ops' = 0
    /\ context' = NoContext
    /\ recoverable' = FALSE
    /\ action' = NoAction
    /\ verdict' = "ok"
    /\ result' = NoResult
    /\ asks' = 0
    /\ UNCHANGED <<visionFailures, wire, executed, captured, released>>

SnapshotSucceeds ==
    /\ stage = "snapshot"
    /\ stage' = "capture"
    /\ UNCHANGED <<visionFailures, viewVars, replyVars, sendVars, outVars, executed,
                   captured>>

(* The frame is captured; `retained` is set before detect is awaited, because *)
(* detect holds the frame before it infers. With vision skipped the frame is  *)
(* handed over only when a screenshot is wanted.                              *)
CaptureSucceeds ==
    /\ stage = "capture"
    /\ captured' = captured \cup {step}
    /\ retained' = ~SkipVision
    /\ stage' = IF ~SkipVision THEN "detect"
                ELSE IF input.screenshot THEN "retain" ELSE "redact"
    /\ UNCHANGED <<visionFailures, uncovered, ops, context, recoverable, replyVars,
                   sendVars, outVars, executed>>

(* A vision failure degrades the step to the DOM scan; it does not end it.   *)
DetectSettles ==
    /\ stage = "detect"
    /\ visionFailures' \in {0, visionFailures + 1}
    /\ stage' = "redact"
    /\ UNCHANGED <<viewVars, replyVars, sendVars, outVars, executed, captured>>

RetainSettles ==
    /\ stage = "retain"
    /\ retained' \in BOOLEAN
    /\ stage' = "redact"
    /\ UNCHANGED <<visionFailures, uncovered, ops, context, recoverable, replyVars,
                   sendVars, outVars, executed, captured>>

(* dom.redact returns the pixel ops and the log; the screenshot is withheld  *)
(* unless every applied entry that can paint has an op and the worker was    *)
(* given the frame.                                                          *)
RedactSucceeds ==
    /\ stage = "redact"
    /\ \E bare \in BOOLEAN :
          /\ uncovered' = bare
          /\ stage' = IF MayBake(bare) THEN "bake" ELSE "sanitize"
    /\ ops' \in 0 .. MaxOps
    /\ UNCHANGED <<visionFailures, retained, context, recoverable, replyVars,
                   sendVars, outVars, executed, captured>>

(* The worker painted `applied` of the ops and found `outside` of them to    *)
(* lie entirely off the frame; a bake that rejects costs only the image.     *)
BakeSettles ==
    /\ stage = "bake"
    /\ \/ \E outside \in 0 .. ops : \E applied \in 0 .. ops - outside :
             context' = [context EXCEPT !.image =
                IF Keeps(outside, applied) THEN ImageOf(outside, applied) ELSE "none"]
       \/ context' = [context EXCEPT !.image = "none"]
    /\ stage' = "sanitize"
    /\ UNCHANGED <<visionFailures, retained, uncovered, ops, recoverable, replyVars,
                   sendVars, outVars, executed, captured>>

(* dom.sanitize builds the outbound context around the screenshot.           *)
SanitizeSucceeds ==
    /\ stage = "sanitize"
    /\ \E clean \in BOOLEAN : context' = [context EXCEPT !.clean = clean]
    /\ recoverable' \in BOOLEAN
    /\ stage' = "verify"
    /\ UNCHANGED <<visionFailures, retained, uncovered, ops, replyVars, sendVars,
                   outVars, executed, captured>>

(* A call the step awaits rejects, or the planner cannot be reached, or its  *)
(* second reply in a row is no action either: the step fails. (detect,       *)
(* retain and bake are caught and cost only their own result.)               *)
AwaitFails ==
    /\ stage \in {"snapshot", "capture", "redact", "sanitize", "plan", "replan",
                  "correct", "execute"}
    /\ Fails

-----------------------------------------------------------------------------
(* The gate, the local question and the planner.                             *)

(* assertOutboundContext and assertNoLeak throw on a context that leaks.     *)
PassesGate == context.clean

GateBlocks ==
    /\ stage = "verify"
    /\ ~PassesGate
    /\ Fails

(* With a planner that cannot ask, and nothing answered yet, an ambiguous    *)
(* goal is put to the user and nothing is sent.                              *)
MayAskLocally == ~input.selfAsks /\ ~input.answered

AskLocally ==
    /\ stage = "verify"
    /\ PassesGate
    /\ MayAskLocally
    /\ action' = LocalAsk
    /\ Return(TRUE, FALSE)
    /\ UNCHANGED <<visionFailures, viewVars, verdict, sendVars, executed,
                   captured>>

FirstAsk ==
    /\ stage = "verify"
    /\ PassesGate
    /\ Ask
    /\ stage' = "plan"
    /\ UNCHANGED <<visionFailures, viewVars, replyVars, outVars, executed, captured>>

(* A reply that parses to no action is asked for again, once.                *)
PlanUnparsed ==
    /\ stage = "plan"
    /\ Ask
    /\ stage' = "replan"
    /\ UNCHANGED <<visionFailures, viewVars, replyVars, outVars, executed, captured>>

(* An action that validated: handed to the page, or withheld in plan-only.   *)
Accept(a) ==
    /\ action' = a
    /\ verdict' = "ok"
    /\ IF input.planOnly
       THEN /\ Return(TRUE, FALSE)
            /\ UNCHANGED executed
       ELSE /\ stage' = "execute"
            /\ executed' = IF a.type = "page"
                           THEN Append(executed, [step |-> step, action |-> a])
                           ELSE executed
            /\ UNCHANGED outVars

(* recoverTextAction: a text-entry action of the client's own, validated.    *)
Recovered(k) == [type |-> "page", key |-> k, code |-> "ok"]

(* A refusal the model can fix is sent back once with the reason.            *)
SendCorrection(a) ==
    /\ Ask
    /\ action' = a
    /\ verdict' = Verdict(a)
    /\ stage' = "correct"
    /\ UNCHANGED <<outVars, executed>>

Refuse(a) ==
    /\ Fail
    /\ action' = a
    /\ verdict' = Verdict(a)
    /\ UNCHANGED <<sendVars, executed>>

(* The first usable reply of the step is judged.                             *)
Judged(a) ==
    /\ stage \in {"plan", "replan"}
    /\ IF Verdict(a) = "ok" THEN Accept(a) /\ UNCHANGED sendVars
       ELSE IF Verdict(a) = Unverified /\ recoverable
       THEN (\E k \in Keys : Accept(Recovered(k))) /\ UNCHANGED sendVars
       ELSE IF CanCorrect(Verdict(a)) THEN SendCorrection(a)
       ELSE Refuse(a)
    /\ UNCHANGED <<visionFailures, viewVars, captured>>

(* Mutant: a kept refusal is returned as a step that went well.              *)
KeepRefusalSilently == IF verdict = Unverified THEN Fail ELSE Return(TRUE, FALSE)

(* The correction is not taken: no reply, no action, or refused again. The   *)
(* step keeps the FIRST refusal. (The code tries recoverTextAction a second  *)
(* time here; with the same context and goal it returns what it returned     *)
(* before the correction was sent.)                                          *)
KeepRefusal == IF verdict = Unverified THEN Fail ELSE Return(TRUE, TRUE)

CorrectionFails ==
    /\ stage = "correct"
    /\ KeepRefusal
    /\ UNCHANGED <<visionFailures, viewVars, replyVars, sendVars, executed, captured>>

(* validateAction is a function of the action and the context, so the same   *)
(* action draws the same verdict twice in one step.                          *)
SameVerdict(a) == a.type = action.type /\ a.key = action.key => a.code = action.code

CorrectionReplied(a) ==
    /\ stage = "correct"
    /\ SameVerdict(a)
    /\ IF Verdict(a) = "ok"
       THEN Accept(a)
       ELSE KeepRefusal /\ UNCHANGED <<action, verdict, executed>>
    /\ UNCHANGED <<visionFailures, viewVars, sendVars, captured>>

(* deps.execute resolves: the action landed, or missed with a note.          *)
ExecuteSettles ==
    /\ stage = "execute"
    /\ \E missed \in BOOLEAN : Return(TRUE, missed)
    /\ UNCHANGED <<visionFailures, viewVars, replyVars, sendVars, executed, captured>>

Perceive ==
    \/ SnapshotSucceeds \/ CaptureSucceeds \/ DetectSettles \/ RetainSettles
    \/ RedactSucceeds \/ BakeSettles \/ SanitizeSucceeds

Plan ==
    \/ GateBlocks \/ AskLocally \/ FirstAsk \/ PlanUnparsed
    \/ CorrectionFails
    \/ \E a \in Actions : Judged(a) \/ CorrectionReplied(a)

StepNext == (Perceive \/ Plan \/ ExecuteSettles \/ AwaitFails) /\ UNCHANGED callVars
=============================================================================
