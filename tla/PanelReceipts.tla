----------------------------- MODULE PanelReceipts ------------------------------
(***************************************************************************)
(* The receipts of a session: tasks and single steps of the background,    *)
(* the events they broadcast, and the side panel that hears them while it  *)
(* is open, with the one setting that decides whether the page is touched, *)
(* "Plan only".  background.ts (agent/run, agent/step, plan-only,          *)
(* deployment/select, server/origin, host/status), loop.ts, step.ts and    *)
(* panel/state.ts of src/src, and the controls of sidepanel/main.tsx and   *)
(* App.tsx.                                                                *)
(*                                                                         *)
(* The background allows one task at a time, and no more: single steps run *)
(* beside it and beside each other.  The panel only withholds the button.  *)
(***************************************************************************)
EXTENDS PanelState

CONSTANTS
    Steps,       \* the steps of a session, 1..n in the order they begin
    MaxRun,      \* maxSteps of a task
    Configured,  \* the backends that can be selected: on-device, and those
                 \* with a server that may be reached
    MaxUpsets    \* bound: the panel closed, the backend or plan-only changed,
                 \* the worker evicted, a step begun beside another, a step
                 \* gone wrong

ASSUME SessionAssumption ==
    /\ Steps \subseteq Nat /\ Nobody \notin Steps
    /\ MaxRun \in Nat \ {0} /\ MaxUpsets \in Nat

(* "private" is as "cloud"; the selected backend has an endpoint.            *)
Kinds == {"on-device", "local", "cloud"}
OffDevice(kind) == kind # "on-device"

VARIABLES
    backend,     \* deployment.backend
    task,        \* loopRunning and the loop's locals: [at, no, baseline, ...]
    stepCounter, \* single steps begun
    steps,       \* what each step does and what becomes of it, whether or not
                 \* anyone is told: [at, task, no, built, left, ...]
    panel,       \* the panel's state
    open,        \* the panel is open
    planOnly,    \* in the worker's memory, in storage, and the panel's box
    ready,       \* attachedReady: "before", what it has read, "done"
    upsets,
    crossed,     \* a step began beside another or inside a task, or one was
                 \* cut short
    early        \* plan-only was last asked for or set before it was restored,
                 \* or asked for where a restore had undone a later setting

settings == <<planOnly, ready, early>>
vars == <<backend, task, stepCounter, steps, panel, open, settings, upsets, crossed>>

(* built: what the gate made of the context; left: a request with it went    *)
(* out to a server; answered: a planner replied; verdict: of the validation; *)
(* act: what the page was asked, "asked" for as long as no reply said how it *)
(* went. toggled: plan-only was set since it was read; box: what the panel's *)
(* checkbox showed when the page was, or was not, asked; "unseen" if the     *)
(* panel was closed, or the box set before plan-only was restored.           *)
NoTask == [at |-> "off", no |-> 0, baseline |-> FALSE, kind |-> "on-device",
           withheld |-> FALSE, toggled |-> FALSE]
NoStep == [at |-> "off", task |-> FALSE, no |-> 0, kind |-> "on-device", moved |-> FALSE, image |-> FALSE,
           built |-> "none", left |-> FALSE, answered |-> FALSE, verdict |-> NotReached, act |-> NotReached,
           withheld |-> FALSE, toggled |-> FALSE, box |-> "unseen"]

(* A panel that opens knows nothing, and host/status tells it the backend.   *)
Opened(kind) == BackendSelected(InitialPanel, kind)

(* The worker has been up for long, or was started by the panel's opening,   *)
(* whose plan-only/get it answers before it has restored what is stored.     *)
Init ==
    /\ \E stored, up \in BOOLEAN :
         /\ up \/ stored
         /\ planOnly = [memory |-> up /\ stored, stored |-> stored, box |-> up /\ stored]
         /\ ready = IF up THEN "done" ELSE "before"
         /\ early = ~up
    /\ backend \in Kinds \cap Configured /\ task = NoTask /\ stepCounter = 0
    /\ steps = [k \in Steps |-> NoStep]
    /\ panel = Opened(backend) /\ open = TRUE
    /\ upsets = 0 /\ crossed = FALSE

Upset == upsets < MaxUpsets /\ upsets' = upsets + 1

UnderWay(k) == steps[k].at \notin {"off", "done"}

-----------------------------------------------------------------------------
(* broadcastPanel: nobody hears what is said to a panel that is closed.      *)
Shows(next) == panel' = IF open THEN next ELSE panel

(* The box shows what plan-only/get is answered, restored or not.            *)
PanelOpens ==
    /\ ~open /\ open' = TRUE /\ panel' = Opened(backend)
    /\ planOnly' = [planOnly EXCEPT !.box = planOnly.memory]
    /\ early' = (ready # "done" \/ planOnly.memory # planOnly.stored)
    /\ UNCHANGED <<backend, task, stepCounter, steps, ready, upsets, crossed>>

PanelCloses ==
    /\ open /\ Upset /\ open' = FALSE /\ panel' = InitialPanel
    /\ planOnly' = [planOnly EXCEPT !.box = FALSE]
    /\ UNCHANGED <<backend, task, stepCounter, steps, ready, early, crossed>>

-----------------------------------------------------------------------------
(* plan-only: taken and stored at once; what runs keeps what it read.        *)
PlanOnlySet(on) ==
    /\ open /\ on # planOnly.box /\ Upset
    /\ planOnly' = [memory |-> on, stored |-> on, box |-> on]
    /\ early' = (ready # "done")
    /\ task' = IF task.at \in {"off", "entering"} THEN task ELSE [task EXCEPT !.toggled = TRUE]
    /\ steps' = [k \in Steps |-> IF UnderWay(k) THEN [steps[k] EXCEPT !.toggled = TRUE] ELSE steps[k]]
    /\ UNCHANGED <<backend, stepCounter, panel, open, ready, crossed>>

RestoreReads ==
    /\ ready = "before" /\ ready' = IF planOnly.stored THEN "on" ELSE "off"
    /\ UNCHANGED <<backend, task, stepCounter, steps, panel, open, planOnly, early, upsets, crossed>>

(* Mutant: plan-only is not among what is restored.                          *)
RestoreLandsWithout ==
    /\ ready \in {"on", "off"} /\ ready' = "done"
    /\ UNCHANGED <<backend, task, stepCounter, steps, panel, open, planOnly, early, upsets, crossed>>

RestoreLands ==
    /\ ready \in {"on", "off"} /\ ready' = "done"
    /\ planOnly' = [planOnly EXCEPT !.memory = ready = "on"]
    /\ UNCHANGED <<backend, task, stepCounter, steps, panel, open, early, upsets, crossed>>

(* deployment/select and deployment/configure are refused while a task runs; *)
(* server/origin is not, and none of them while a single step runs.          *)
Switches(kind, locked) ==
    /\ open /\ ~RunLocked(panel) /\ Upset /\ kind \in Configured \ {backend}
    /\ locked => task.at = "off"
    /\ backend' = kind
    /\ Shows(BackendSelected(panel, kind))
    /\ steps' = [k \in Steps |-> IF UnderWay(k) THEN [steps[k] EXCEPT !.moved = TRUE] ELSE steps[k]]
    /\ UNCHANGED <<task, stepCounter, open, settings, crossed>>

-----------------------------------------------------------------------------
IsNext(k) == steps[k].at = "off" /\ \A j \in Steps : j < k => steps[j].at # "off"

(* Mutant: a single step does not take the setting over.                     *)
WithheldOfTask(by) == by.withheld

(* What a task read before its first step, or a single step reads.           *)
Withheld(by) == IF by = NoTask THEN planOnly.memory ELSE by.withheld

Begins(k, by, no, kind) ==
    LET byTask == by # NoTask
        alone == \A j \in Steps : ~UnderWay(j)
        first == alone /\ (byTask \/ task.at \in {"off", "entering"})
    IN /\ steps' = [steps EXCEPT ![k] = [NoStep EXCEPT !.at = "snapshot", !.task = byTask, !.no = no, !.kind = kind,
                                                   !.moved = kind # backend,
                                                   !.withheld = Withheld(by), !.toggled = by.toggled]]
       /\ crossed' = (crossed \/ ~first)
       /\ IF first THEN UNCHANGED upsets ELSE Upset

(* agent/run: one task at a time.                                            *)
TaskAsked ==
    /\ open /\ task.at = "off"
    /\ task' = [NoTask EXCEPT !.at = "entering"]
    /\ Shows(BackendSelected(panel, backend))
    /\ UNCHANGED <<backend, stepCounter, steps, open, settings, upsets, crossed>>

(* Refused, or something it awaits before its first step failed.             *)
TaskRefused ==
    /\ task.at = "entering" /\ task' = NoTask
    /\ UNCHANGED <<backend, stepCounter, steps, panel, open, settings, upsets, crossed>>

(* A step of the task: the first reads the backend and plan-only, the others *)
(* reuse both.                                                               *)
TaskSteps(k) ==
    /\ IsNext(k) /\ task.at \in {"entering", "between"} /\ task.no < MaxRun
    /\ task.at = "entering" => ready = "done"
    /\ LET now == IF task.at = "entering"
                  THEN [task EXCEPT !.kind = backend, !.withheld = planOnly.memory] ELSE task
       IN /\ task' = [now EXCEPT !.at = "stepping", !.no = @ + 1]
          /\ Begins(k, now, now.no + 1, now.kind)
    /\ Shows(LoopStep(panel))
    /\ UNCHANGED <<backend, stepCounter, open, settings>>

(* agent/step: nothing but the panel's button keeps it from running beside   *)
(* what runs already.                                                        *)
StepAsked(k) ==
    /\ open /\ ~RunLocked(panel) /\ IsNext(k) /\ ready = "done"
    /\ stepCounter' = stepCounter + 1
    /\ Begins(k, NoTask, stepCounter + 1, backend)
    /\ Shows(BackendSelected(panel, backend))
    /\ UNCHANGED <<backend, task, open, settings>>

-----------------------------------------------------------------------------
(* A step ends: with the task whose step it was where it failed.             *)
Ends(k, next, step, ok) ==
    LET done == StepDone(next, k, step.no)
    IN /\ steps' = [steps EXCEPT ![k] = [step EXCEPT !.at = "done"]]
       /\ IF ~step.task THEN Shows(done) /\ UNCHANGED task
          ELSE IF ok THEN Shows(done) /\ task' = [task EXCEPT !.at = "settling"]
          ELSE Shows(LoopStopped(done)) /\ task' = NoTask

Others == UNCHANGED <<backend, stepCounter, open, settings, crossed>>
Plain == Others /\ UNCHANGED upsets
Wrong == Others /\ Upset

Goes(k, at) == steps' = [steps EXCEPT ![k].at = at] /\ UNCHANGED task

(* Whatever stage it is in, a step may throw, also where its request went    *)
(* out and no planner answered, or the page was asked to act and no reply    *)
(* came; only a refused reply is a failure that is told as such.             *)
StepFails(k, scope) ==
    /\ UnderWay(k)
    /\ scope = "validate" => steps[k].at = "judge"
    /\ LET step == IF scope = "validate" THEN [steps[k] EXCEPT !.verdict = "fail"] ELSE steps[k]
       IN Ends(k, ErrorOf(panel, k, scope), step, FALSE)
    /\ Wrong

Captures(k) ==
    /\ steps[k].at = "snapshot" /\ Goes(k, "redact")
    /\ Shows(FrameCaptured(panel, k))
    /\ Plain

Redacts(k) ==
    /\ steps[k].at = "redact" /\ Goes(k, IF OffDevice(steps[k].kind) THEN "bake" ELSE "sanitize")
    /\ Shows(RedactionDone(panel, k))
    /\ Plain

(* A picture is for a server, and only if it is asked for.  One whose masks  *)
(* did not all land is not used.                                             *)
Bakes(k, bake) ==
    /\ steps[k].at = "bake"
    /\ steps' = [steps EXCEPT ![k].at = "sanitize", ![k].image = bake = "landed"]
    /\ Shows(IF bake = "none" THEN panel ELSE BakeDone(panel, k, bake))
    /\ UNCHANGED task /\ IF bake = "short" THEN Wrong ELSE Plain

(* The context is built and checked in one go.                               *)
Sanitizes(k, blocked) ==
    /\ steps[k].at = "sanitize"
    /\ LET image == steps[k].image
           next == PrivacyVerified(ContextSent(panel, k, image), k, blocked)
       IN IF blocked
          THEN Ends(k, ErrorOf(next, k, "verify"), [steps[k] EXCEPT !.built = "blocked"], FALSE)
          ELSE /\ steps' = [steps EXCEPT ![k].at = "plan", ![k].built = "passed"]
               /\ Shows(next) /\ UNCHANGED task
    /\ IF blocked THEN Wrong ELSE Plain

(* Only for planners that do not ask by themselves is the user asked.        *)
AsksUser(k) ==
    /\ steps[k].at = "plan" /\ steps[k].kind # "cloud"
    /\ Ends(k, panel, steps[k], TRUE)
    /\ Wrong

(* askServer: the context is on its way, which the panel is not told.        *)
Requests(k) ==
    /\ steps[k].at = "plan"
    /\ steps' = [steps EXCEPT ![k].at = "asking", ![k].left = OffDevice(steps[k].kind)]
    /\ UNCHANGED <<task, panel>> /\ Plain

(* A planner answers.                                                        *)
Plans(k) ==
    /\ steps[k].at = "asking"
    /\ steps' = [steps EXCEPT ![k].at = "judge", ![k].answered = TRUE]
    /\ Shows(ContextTransmitted(panel, k, OffDevice(steps[k].kind)))
    /\ UNCHANGED task /\ Plain

(* A refusal that could have been corrected ends the step, not the task.     *)
Refuses(k) ==
    /\ steps[k].at = "judge"
    /\ Ends(k, ErrorOf(panel, k, "validate"), [steps[k] EXCEPT !.verdict = "fail"], TRUE)
    /\ Wrong

(* The reply will do, or the one that was asked for a second time. With the  *)
(* plan only, the page is left alone; otherwise it is asked to act, and how  *)
(* that went is known when it replies.                                       *)
BoxSeen == IF ~open \/ early THEN "unseen" ELSE IF planOnly.box THEN "on" ELSE "off"

Withholds(k) ==
    /\ steps[k].at = "judge" /\ steps[k].withheld
    /\ Ends(k, ActionExecuted(panel, k, "withheld"),
            [steps[k] EXCEPT !.verdict = "pass", !.act = "withheld", !.box = BoxSeen], TRUE)
    /\ Plain

CallsExecute(k) ==
    /\ steps[k].at = "judge" /\ ~steps[k].withheld
    /\ steps' = [steps EXCEPT ![k].at = "execute", ![k].verdict = "pass", ![k].act = "asked", ![k].box = BoxSeen]
    /\ UNCHANGED <<task, panel>> /\ Plain

Executes(k, how) ==
    /\ steps[k].at = "execute"
    /\ Ends(k, ActionExecuted(panel, k, how), [steps[k] EXCEPT !.act = how], TRUE)
    /\ IF how = "fail" THEN Wrong ELSE Plain

-----------------------------------------------------------------------------
(* After a step of a task: the page settles and is compared, unless the task *)
(* is over; a task that stops says so.                                       *)
LastStep == CHOOSE k \in Steps : steps[k].task /\ \A j \in Steps : steps[j].task => j <= k

TaskVerifies(changed) ==
    /\ task.at = "settling"
    /\ task' = [task EXCEPT !.at = "between", !.baseline = TRUE]
    /\ IF task.baseline
       THEN Shows(PageVerified(panel, LastStep, task.no, changed))
       ELSE UNCHANGED panel
    /\ UNCHANGED steps /\ Plain

TaskStops ==
    /\ task.at \in {"settling", "between"} /\ task' = NoTask
    /\ Shows(LoopStopped(panel))
    /\ UNCHANGED steps /\ Plain

(* Settling or comparing the page throws: the task ends, and its loop does   *)
(* not say so.                                                               *)
TaskThrows ==
    /\ task.at = "settling" /\ task' = NoTask
    /\ UNCHANGED <<steps, panel>> /\ Wrong

(* The worker is evicted with all that runs in it; the panel stays.          *)
Evicted ==
    /\ Upset
    /\ crossed' = (crossed \/ \E k \in Steps : UnderWay(k))
    /\ steps' = [k \in Steps |-> IF UnderWay(k) THEN [steps[k] EXCEPT !.at = "done"] ELSE steps[k]]
    /\ task' = NoTask /\ stepCounter' = 0
    /\ planOnly' = [planOnly EXCEPT !.memory = FALSE] /\ ready' = "before"
    /\ UNCHANGED <<backend, panel, open, early>>

Next ==
    \/ PanelOpens \/ PanelCloses
    \/ TaskAsked \/ TaskRefused \/ TaskStops \/ TaskThrows \/ Evicted
    \/ RestoreReads \/ RestoreLands \/ \E on \in BOOLEAN : PlanOnlySet(on)
    \/ \E kind \in Kinds, locked \in BOOLEAN : Switches(kind, locked)
    \/ \E changed \in BOOLEAN : TaskVerifies(changed)
    \/ \E k \in Steps :
         \/ TaskSteps(k) \/ StepAsked(k)
         \/ \E scope \in {"error", "validate"} : StepFails(k, scope)
         \/ Captures(k) \/ Redacts(k) \/ AsksUser(k) \/ Requests(k) \/ Plans(k) \/ Refuses(k)
         \/ Withholds(k) \/ CallsExecute(k)
         \/ \E bake \in {"none", "landed", "short"} : Bakes(k, bake)
         \/ \E blocked \in BOOLEAN : Sanitizes(k, blocked)
         \/ \E how \in {"pass", "fail"} : Executes(k, how)

Spec == Init /\ [][Next]_vars

-----------------------------------------------------------------------------
Receipts == ToSet(panel.receipts)

(* The variables and their values.                                           *)
Stages == {"off", "snapshot", "redact", "bake", "sanitize", "plan", "asking", "judge", "execute", "done"}
Claims == {NotChecked, "verified-absent", "blocked", "sent", "stayed-on-device"}
Validations == {NotReached, "pass", "fail"}
Executions == {NotReached, "pass", "fail", "withheld"}

Tasks ==
    [at : {"off", "entering", "stepping", "settling", "between"}, no : Nat, baseline : BOOLEAN,
     kind : Kinds, withheld : BOOLEAN, toggled : BOOLEAN]
StepStates ==
    [at : Stages, task : BOOLEAN, no : Nat, kind : Kinds, moved : BOOLEAN, image : BOOLEAN,
     built : {"none", "passed", "blocked"}, left : BOOLEAN, answered : BOOLEAN,
     verdict : Validations, act : Executions \cup {"asked"},
     withheld : BOOLEAN, toggled : BOOLEAN, box : {"unseen", "on", "off"}]
ReceiptStates ==
    [step : Nat, captured : BOOLEAN, redacted : BOOLEAN, bake : {"none", "landed", "short"},
     raw : Claims, context : Claims, picture : Claims, backend : Kinds \cup {"none"},
     validation : Validations, execution : Executions, verification : {NotChecked, "changed", "unchanged"},
     sealed : BOOLEAN, by : SUBSET Steps, of : Steps \cup {Nobody}, checked : Steps \cup {Nobody}]
Gates ==
    [captured : BOOLEAN, redacted : BOOLEAN, bake : {"none", "landed", "short"},
     prepared : {"none", "text", "image"}, transmitted : {"none", "on-device", "cloud"}]
Panels ==
    [running : BOOLEAN, deployment : Kinds \cup {"none"}, gate : Gates,
     receipt : ReceiptStates, receipts : Seq(ReceiptStates)]
PanelOK == panel \in Panels /\ Len(panel.receipts) <= MaxReceipts
SettingsOK ==
    /\ planOnly \in [memory : BOOLEAN, stored : BOOLEAN, box : BOOLEAN]
    /\ ready \in {"before", "on", "off", "done"} /\ early \in BOOLEAN
TypeOK ==
    /\ backend \in Kinds /\ stepCounter \in Nat /\ open \in BOOLEAN
    /\ upsets \in 0..MaxUpsets /\ crossed \in BOOLEAN
    /\ task \in Tasks /\ steps \in [Steps -> StepStates] /\ PanelOK /\ SettingsOK

(* A receipt is of one step: unless two steps were under way at once or the  *)
(* worker was evicted in the middle of one, no sealed receipt holds what     *)
(* another step did, also where the step it is for failed before it saw the  *)
(* page, and its page check is of that step though another run had a step    *)
(* of the same number.                                                       *)
ReceiptOfOneStep ==
    ~crossed => \A r \in Receipts : r.by \subseteq {r.of} /\ r.checked \in {Nobody, r.of}

(* A sealed receipt of a step the panel heard from its capture on, and that  *)
(* had the panel to itself, says what became of the step, which the panel    *)
(* infers from the events: the context is shown as sent just where it went   *)
(* out to a server and a plan came back, as kept on the device just where it *)
(* was planned on without going out, as blocked where the gate found something; a picture is sent    *)
(* only with it, and absent where there was none; the action was refused,    *)
(* done, missed or withheld as shown; and the backend is the one it was      *)
(* planned on unless that was changed since its task, or step, began.        *)
(* Excused, for the panel is told nothing: a request that went out and no    *)
(* plan came back for, shown as not checked, and a page that was asked to    *)
(* act and did not reply, shown as not reached.                              *)
SaysWhatHappened ==
    \A r \in Receipts : r.by = {r.of} /\ r.captured =>
        LET step == steps[r.of]
        IN /\ r.context = "sent" <=> step.left /\ step.answered
           /\ r.context = "stayed-on-device" <=> step.answered /\ ~step.left
           /\ r.context = "blocked" <=> step.built = "blocked"
           /\ r.picture = "sent" <=> r.context = "sent" /\ step.image
           /\ r.picture = "verified-absent" <=> step.built = "passed" /\ ~step.image
           /\ IF step.act = "asked" THEN r.execution = NotReached /\ r.validation = NotReached
              ELSE r.execution = step.act /\ r.validation = step.verdict
           /\ r.backend = step.kind \/ r.backend = "none" \/ step.moved

(* The card and the proof above it never disagree on a step that saw the     *)
(* page: the shield shows a context as sent when the receipt does, and an    *)
(* image whose masks fell short is nowhere said to have been sent.           *)
ShieldAgreesWithReceipt ==
    ~crossed /\ panel.receipt.captured =>
        LET shield == ShieldStages(panel.gate)
        IN /\ shield.send = "sent" <=> panel.receipt.context = "sent"
           /\ shield.mask = "bad" => panel.receipt.picture # "sent"
           /\ shield.redact = "ok" <=> panel.receipt.redacted

(* "Plan only - decide, but never click" (App.tsx) holds both ways: while    *)
(* the panel shows it checked no page is asked to act, whichever task or     *)
(* step it is for and however often the worker was evicted, and while it     *)
(* does not none is held back. Excused: a task or step that had read the     *)
(* setting before it was changed, and a setting asked for or changed before  *)
(* it was restored, until it is set again.                                   *)
PlanOnlyHolds ==
    \A k \in Steps : steps[k].box # "unseen" /\ ~steps[k].toggled =>
        (steps[k].box = "on" <=> steps[k].act = "withheld")

(* What App.tsx tells the user: where a task is shown to run, and Stop and   *)
(* the locked backend with it, one runs.                                     *)
ShownWhileRunning == panel.running => task.at # "off"
=============================================================================
