------------------------------- MODULE PanelState -------------------------------
(***************************************************************************)
(* What the side panel makes of the events it hears: the reducer of        *)
(* src/src/panel/state.ts and the views of selectors.ts.  A panel is       *)
(* [running, deployment, gate, receipt, receipts]; the timeline, the       *)
(* metrics, the banners and the attached tab are left out.                 *)
(*                                                                         *)
(* A receipt is what the panel says one step did.  Its `by` and `of` are   *)
(* observations: the steps whose events it holds, the step it was sealed   *)
(* for; `checked` is the step whose page check it shows.                   *)
(***************************************************************************)
EXTENDS Naturals, Sequences, FiniteSets, SequencesExt

CONSTANT MaxReceipts   \* MAX_RECEIPTS

ASSUME PanelAssumption == MaxReceipts \in Nat \ {0}

NotChecked == "not-checked"
NotReached == "not-reached"
Nobody == 0

EmptyReceipt(no) ==
    [step |-> no, captured |-> FALSE, redacted |-> FALSE, bake |-> "none",
     raw |-> NotChecked, context |-> NotChecked, picture |-> NotChecked,
     backend |-> "none", validation |-> NotReached, execution |-> NotReached,
     verification |-> NotChecked, sealed |-> FALSE, by |-> {}, of |-> Nobody, checked |-> Nobody]

EmptyGate == [captured |-> FALSE, redacted |-> FALSE, bake |-> "none",
              prepared |-> "none", transmitted |-> "none"]

InitialPanel ==
    [running |-> FALSE, deployment |-> "none", gate |-> EmptyGate, receipt |-> EmptyReceipt(0), receipts |-> <<>>]

PushReceipt(receipts, receipt) ==
    LET next == Append(receipts, receipt)
    IN IF Len(next) > MaxReceipts THEN Tail(next) ELSE next

-----------------------------------------------------------------------------
(* Mutant: a new step overwrites only the capture of the proof.              *)
OverwritesCapture(p, k) ==
    [p EXCEPT !.receipt = [EmptyReceipt(@.step + 1) EXCEPT !.captured = TRUE, !.backend = p.deployment, !.by = {k}],
              !.gate.captured = TRUE]

(* A new step starts here: the receipt and the proof are reset.              *)
FrameCaptured(p, k) ==
    [p EXCEPT !.receipt = [EmptyReceipt(@.step + 1) EXCEPT !.captured = TRUE, !.backend = p.deployment, !.by = {k}],
              !.gate = [EmptyGate EXCEPT !.captured = TRUE]]

RedactionDone(p, k) ==
    [p EXCEPT !.receipt.redacted = TRUE, !.receipt.by = @ \cup {k}, !.gate.redacted = TRUE]

BakeDone(p, k, bake) ==
    [p EXCEPT !.receipt.bake = bake, !.receipt.by = @ \cup {k}, !.gate.bake = bake]

(* context/sent: prepared, which claims nothing yet.                         *)
ContextSent(p, k, image) ==
    [p EXCEPT !.receipt.context = NotChecked, !.receipt.by = @ \cup {k},
              !.receipt.picture = IF image THEN NotChecked ELSE "verified-absent",
              !.gate.prepared = IF image THEN "image" ELSE "text"]

PrivacyVerified(p, k, blocked) ==
    LET q == [p EXCEPT !.receipt.by = @ \cup {k},
                       !.receipt.raw = IF blocked THEN "blocked" ELSE "verified-absent"]
    IN IF blocked THEN [q EXCEPT !.receipt.context = "blocked", !.receipt.picture = "blocked"] ELSE q

(* Mutant: what was answered was sent.                                       *)
SentWherever(p, k, offDevice) ==
    [p EXCEPT !.receipt.by = @ \cup {k},
              !.receipt.context = IF p.gate.prepared = "none" THEN NotChecked ELSE "sent",
              !.gate.transmitted = IF offDevice THEN "cloud" ELSE "on-device"]

(* A planner accepted the context: only now it was sent, if its size was     *)
(* seen, or never left.                                                      *)
ContextTransmitted(p, k, offDevice) ==
    LET claim == IF offDevice THEN "sent" ELSE "stayed-on-device"
    IN [p EXCEPT !.receipt.by = @ \cup {k},
                 !.receipt.context = IF p.gate.prepared = "none" THEN NotChecked ELSE claim,
                 !.receipt.picture = CASE p.gate.prepared = "none" -> NotChecked
                                       [] p.gate.prepared = "text" -> "verified-absent"
                                       [] OTHER -> claim,
                 !.gate.transmitted = IF offDevice THEN "cloud" ELSE "on-device"]

ActionExecuted(p, k, execution) ==
    [p EXCEPT !.receipt.by = @ \cup {k}, !.receipt.execution = execution,
              !.receipt.validation = IF @ = "fail" THEN "fail" ELSE "pass"]

ErrorOf(p, k, scope) ==
    IF scope = "validate" THEN [p EXCEPT !.receipt.validation = "fail", !.receipt.by = @ \cup {k}] ELSE p

(* Mutant: whatever was gathered is the receipt of the step that ends.       *)
SealsWhatIsThere(p, k, no) ==
    LET sealed == [p.receipt EXCEPT !.step = no, !.sealed = TRUE, !.of = k]
    IN [p EXCEPT !.receipt = sealed, !.receipts = PushReceipt(@, sealed)]

(* step/done: a receipt that was begun and not sealed yet is this step's.    *)
StepDone(p, k, no) ==
    LET owned == ~p.receipt.sealed /\ p.receipt.captured
        begun == IF owned THEN p.receipt ELSE [EmptyReceipt(no) EXCEPT !.backend = p.deployment]
        sealed == [begun EXCEPT !.step = no, !.sealed = TRUE, !.of = k]
    IN [p EXCEPT !.receipt = sealed, !.receipts = PushReceipt(@, sealed)]

(* Mutant: every receipt of that number.                                     *)
EveryMatch(p, k, no, changed) ==
    LET Seen(r) == IF r.step = no
                   THEN [r EXCEPT !.verification = IF changed THEN "changed" ELSE "unchanged", !.checked = k]
                   ELSE r
    IN [p EXCEPT !.receipt = Seen(@), !.receipts = [i \in DOMAIN @ |-> Seen(@[i])]]

(* page/verified: of the receipts with that number, the last.  No event      *)
(* names a session, so every receipt is of the task null.                    *)
PageVerified(p, k, no, changed) ==
    LET Seen(r) == IF r.step = no
                   THEN [r EXCEPT !.verification = IF changed THEN "changed" ELSE "unchanged", !.checked = k]
                   ELSE r
        IsLast(i) == \A j \in DOMAIN p.receipts : p.receipts[j].step = no => j <= i
    IN [p EXCEPT !.receipt = Seen(@),
                 !.receipts = [i \in DOMAIN @ |-> IF IsLast(i) THEN Seen(@[i]) ELSE @[i]]]

BackendSelected(p, kind) ==
    [p EXCEPT !.deployment = kind, !.receipt.backend = kind]

LoopStep(p) == [p EXCEPT !.running = TRUE]

LoopStopped(p) == [p EXCEPT !.running = FALSE]

-----------------------------------------------------------------------------
(* shieldSummary: the tones of the four stages.                              *)
ShieldStages(gate) ==
    [capture |-> IF gate.captured THEN "ok" ELSE "idle",
     redact  |-> IF gate.redacted THEN "ok" ELSE "idle",
     mask    |-> CASE gate.bake = "none" -> "idle" [] gate.bake = "landed" -> "ok" [] OTHER -> "bad",
     send    |-> IF gate.transmitted = "cloud" THEN "sent" ELSE IF gate.transmitted = "on-device" THEN "ok"
                 ELSE IF gate.prepared # "none" THEN "running" ELSE "idle"]

(* The App locks the backend and the single step while a task is shown.      *)
RunLocked(p) == p.running
=============================================================================
