------------------------------ MODULE PanelProofs ------------------------------
(***************************************************************************)
(* What of the panel's receipts and of plan-only holds for any number of   *)
(* steps, tasks, receipts kept and upsets.                                 *)
(***************************************************************************)
EXTENDS PanelReceipts, TLAPS, SequenceTheorems

-----------------------------------------------------------------------------
(* Steps begin in their order, and those of a task one after the other: k is *)
(* the last one a task began.                                                *)
IsLast(k) == steps[k].task /\ \A j \in Steps : steps[j].task => j <= k

Order ==
    /\ \A i, j \in Steps : i < j /\ steps[j].at # "off" => steps[i].at # "off"
    /\ \A k \in Steps : steps[k].task => steps[k].at # "off"
    /\ \A k \in Steps : UnderWay(k) /\ steps[k].task =>
           task.at = "stepping" /\ IsLast(k) /\ steps[k].no = task.no
    /\ task.at = "stepping" => \E k \in Steps : UnderWay(k) /\ steps[k].task
    /\ task.at = "settling" => \E k \in Steps : steps[k].at = "done" /\ IsLast(k) /\ steps[k].no = task.no
    /\ task.at \in {"stepping", "settling"} => task.no > 0

(* Plan-only: what runs goes by what is in memory, and a box that was set or *)
(* asked for after the restore shows what memory has or will have.           *)
Setting ==
    /\ \A k \in Steps : UnderWay(k) =>
           /\ ready = "done"
           /\ steps[k].toggled \/ steps[k].withheld = planOnly.memory
    /\ task.at \notin {"off", "entering"} =>
           /\ ready = "done"
           /\ task.toggled \/ task.withheld = planOnly.memory
    /\ open /\ ~early =>
           /\ planOnly.box = planOnly.stored
           /\ ready = "done" => planOnly.memory = planOnly.stored
           /\ ready \in {"on", "off"} => (ready = "on" <=> planOnly.stored)
    /\ \A k \in Steps : UnderWay(k) => steps[k].act # "withheld"

PlanInv == Setting /\ PlanOnlyHolds

(* What a step s that is under way has done so far, by where it is.          *)
Course(s) ==
    /\ s.kind = backend \/ s.moved
    /\ s.at \in {"snapshot", "redact", "bake"} => ~s.image
    /\ s.built = IF s.at \in {"snapshot", "redact", "bake", "sanitize"} THEN "none" ELSE "passed"
    /\ s.left <=> s.at \in {"asking", "judge", "execute"} /\ OffDevice(s.kind)
    /\ s.answered <=> s.at \in {"judge", "execute"}
    /\ s.verdict = IF s.at = "execute" THEN "pass" ELSE NotReached
    /\ s.act = IF s.at = "execute" THEN "asked" ELSE NotReached

(* What there is to say of a step s.                                         *)
ContextOf(s) ==
    IF s.built = "blocked" THEN "blocked" ELSE IF ~s.answered THEN NotChecked
    ELSE IF s.left THEN "sent" ELSE "stayed-on-device"
PictureOf(s) ==
    IF s.built = "none" THEN NotChecked ELSE IF s.built = "blocked" THEN "blocked"
    ELSE IF s.image THEN ContextOf(s) ELSE "verified-absent"
ValidationOf(s) == IF s.act = "asked" THEN NotReached ELSE s.verdict
ExecutionOf(s) == IF s.act = "asked" THEN NotReached ELSE s.act

(* Nothing leaves before the gate has passed it.                             *)
Lawful(s) == s.left \/ s.answered => s.built = "passed"

(* A panel that is open knows the backend; one that is closed knows nothing. *)
(* It has heard of a step when that was past its capture.                    *)
Listening ==
    /\ IF open THEN panel.deployment = backend ELSE panel = InitialPanel
    /\ panel.receipt.captured => panel.receipt.by # {}
    /\ \A k \in panel.receipt.by : steps[k].at \notin {"off", "snapshot"}

(* Receipt r says of step s what it did.                                     *)
Tells(r, s) ==
    /\ Lawful(s)
    /\ r.context = ContextOf(s) /\ r.picture = PictureOf(s)
    /\ r.validation = ValidationOf(s) /\ r.execution = ExecutionOf(s)
    /\ r.backend = s.kind \/ r.backend = "none" \/ s.moved

(* The receipt of p keeps up with step s, and the proof has the picture that *)
(* s is going to send.                                                       *)
KeepsUp(p, s) ==
    /\ Tells(p.receipt, s)
    /\ s.at \in {"plan", "asking"} => p.gate.prepared = IF s.image THEN "image" ELSE "text"

(* The receipt that p is at is of k alone, heard from its capture on.        *)
IsOf(p, k) == p.receipt.captured /\ ~p.receipt.sealed /\ p.receipt.by = {k}

Written ==
    /\ Listening
    /\ \A k \in Steps : UnderWay(k) => Course(steps[k])
    /\ \A k \in Steps : UnderWay(k) /\ IsOf(panel, k) => KeepsUp(panel, steps[k])

(* The receipts that were sealed are of steps that are done, and of one that *)
(* is of its step alone says what that did.                                  *)
Sealed ==
    \A i \in 1 .. Len(panel.receipts) :
        LET r == panel.receipts[i] IN
        /\ r.of \in Steps /\ steps[r.of].at = "done"
        /\ r.by = {r.of} /\ r.captured => Tells(r, steps[r.of])

(* As long as no step met another: one at a time, none beside a task's.      *)
Single ==
    /\ \A i, j \in Steps : UnderWay(i) /\ UnderWay(j) => i = j
    /\ \A k \in Steps : UnderWay(k) /\ ~steps[k].task => task.at \in {"off", "entering"}

(* ... the receipt begun is of the step that is past its capture, and        *)
Owned ==
    LET r == panel.receipt IN
    /\ r.captured /\ ~r.sealed =>
           /\ r.checked = Nobody
           /\ \E k \in Steps : UnderWay(k) /\ steps[k].at # "snapshot" /\ r.by = {k}
    /\ \A k \in Steps : UnderWay(k) /\ steps[k].at # "snapshot" /\ r.captured => ~r.sealed

(* ... the receipts are each of one step, the last one of the step whose     *)
(* page is going to be compared.                                             *)
OfOne ==
    /\ \A i \in 1..Len(panel.receipts) :
           LET r == panel.receipts[i] IN r.by \subseteq {r.of} /\ r.checked \in {Nobody, r.of}
    /\ task.at = "settling" /\ panel.receipts # <<>> =>
           LET r == panel.receipts[Len(panel.receipts)]
           IN \E k \in Steps : IsLast(k) /\ r.of = k /\ r.step = task.no

(* ... the proof of p agrees with its receipt, and                           *)
Agrees(p) ==
    /\ p.gate.redacted = p.receipt.redacted
    /\ p.gate.transmitted = "cloud" <=> p.receipt.context = "sent"
    /\ p.gate.bake = "short" => p.receipt.picture # "sent"

(* ... a picture is claimed by no step whose masks fell short.               *)
Proof ==
    panel.receipt.captured =>
        /\ Agrees(panel)
        /\ \A k \in Steps : UnderWay(k) /\ steps[k].at \in {"sanitize", "plan", "asking"} =>
               ~(panel.gate.bake = "short" /\ steps[k].image)
        /\ \A k \in Steps : UnderWay(k) /\ steps[k].at \in {"redact", "bake", "sanitize", "plan", "asking"} =>
               panel.gate.transmitted = "none"

Unmet == Single /\ Owned /\ OfOne /\ Proof
Met == ~crossed => Unmet

IInv == Order /\ Written /\ Sealed /\ Met

-----------------------------------------------------------------------------
(* What the events make of a panel.                                          *)

LEMMA Emptied ==
    ASSUME NEW no \in Nat
    PROVE  EmptyReceipt(no) \in ReceiptStates
<1> USE DEF EmptyReceipt, ReceiptStates, Nobody, NotChecked, NotReached, Claims, Validations, Executions
<1>1. {NotChecked} \subseteq Claims /\ NotReached \in Validations \cap Executions /\ {} \in SUBSET Steps
  OBVIOUS
<1> QED BY <1>1

LEMMA Opening == InitialPanel \in Panels /\ Len(InitialPanel.receipts) = 0
<1>1. EmptyGate \in Gates
  BY DEF EmptyGate, Gates
<1>2. EmptyReceipt(0) \in ReceiptStates
  BY Emptied
<1> QED BY <1>1, <1>2 DEF InitialPanel, Panels

LEMMA Began ==
    ASSUME NEW p \in Panels, NEW k \in Steps
    PROVE  LET q == FrameCaptured(p, k) IN
           /\ q \in Panels
           /\ q.receipts = p.receipts /\ q.deployment = p.deployment
           /\ q.receipt.captured /\ ~q.receipt.sealed /\ q.receipt.by = {k} /\ q.receipt.checked = Nobody
           /\ ~q.receipt.redacted /\ q.receipt.context = NotChecked /\ q.receipt.picture = NotChecked
           /\ q.receipt.validation = NotReached /\ q.receipt.execution = NotReached
           /\ q.receipt.backend = p.deployment
           /\ ~q.gate.redacted /\ q.gate.bake = "none" /\ q.gate.prepared = "none" /\ q.gate.transmitted = "none"
<1> DEFINE e == EmptyReceipt(p.receipt.step + 1)
           r == [e EXCEPT !.captured = TRUE, !.backend = p.deployment, !.by = {k}]
           g == [EmptyGate EXCEPT !.captured = TRUE]
<1>1. p.receipt.step + 1 \in Nat /\ p.deployment \in Kinds \cup {"none"}
  BY DEF Panels, ReceiptStates
<1>2. e \in ReceiptStates
  BY <1>1, Emptied
<1>3. r \in ReceiptStates
  BY <1>1, <1>2 DEF ReceiptStates
<1>4. /\ r.captured = TRUE /\ r.backend = p.deployment /\ r.by = {k} /\ r.sealed = FALSE /\ r.checked = Nobody
      /\ r.redacted = FALSE /\ r.context = NotChecked /\ r.picture = NotChecked
      /\ r.validation = NotReached /\ r.execution = NotReached
  BY DEF EmptyReceipt
<1>5. /\ g \in Gates
      /\ g.redacted = FALSE /\ g.bake = "none" /\ g.prepared = "none" /\ g.transmitted = "none"
  BY DEF EmptyGate, Gates
<1>6. FrameCaptured(p, k) = [p EXCEPT !.receipt = r, !.gate = g]
  BY DEF FrameCaptured, Panels
<1> HIDE DEF e, r, g
<1> DEFINE q == [p EXCEPT !.receipt = r, !.gate = g]
<1>7. q \in Panels /\ q.receipts = p.receipts /\ q.deployment = p.deployment /\ q.receipt = r /\ q.gate = g
  BY <1>3, <1>5 DEF Panels
<1> QED BY <1>4, <1>5, <1>6, <1>7

(* q is p after an event of step k, which neither begins nor seals a receipt.*)
Heard(q, p, k) ==
    /\ q \in Panels /\ q.receipts = p.receipts /\ q.deployment = p.deployment
    /\ q.receipt.by = p.receipt.by \cup {k}
    /\ q.receipt.captured = p.receipt.captured /\ q.receipt.sealed = p.receipt.sealed
    /\ q.receipt.checked = p.receipt.checked /\ q.receipt.backend = p.receipt.backend

LEMMA Redaction ==
    ASSUME NEW p \in Panels, NEW k \in Steps
    PROVE  LET q == RedactionDone(p, k) IN
           /\ Heard(q, p, k)
           /\ q.receipt.redacted /\ q.gate.redacted
           /\ q.receipt.context = p.receipt.context /\ q.receipt.picture = p.receipt.picture
           /\ q.receipt.validation = p.receipt.validation /\ q.receipt.execution = p.receipt.execution
           /\ q.gate.bake = p.gate.bake /\ q.gate.prepared = p.gate.prepared
           /\ q.gate.transmitted = p.gate.transmitted
<1> DEFINE r == [p.receipt EXCEPT !.redacted = TRUE, !.by = @ \cup {k}]
           g == [p.gate EXCEPT !.redacted = TRUE]
<1>1. p.receipt \in ReceiptStates /\ p.gate \in Gates
  BY DEF Panels
<1>2. /\ r \in ReceiptStates /\ r.by = p.receipt.by \cup {k} /\ r.redacted = TRUE
      /\ r.captured = p.receipt.captured /\ r.sealed = p.receipt.sealed
      /\ r.checked = p.receipt.checked /\ r.backend = p.receipt.backend
      /\ r.context = p.receipt.context /\ r.picture = p.receipt.picture
      /\ r.validation = p.receipt.validation /\ r.execution = p.receipt.execution
  BY <1>1 DEF ReceiptStates
<1>3. /\ g \in Gates /\ g.redacted = TRUE /\ g.bake = p.gate.bake /\ g.prepared = p.gate.prepared
      /\ g.transmitted = p.gate.transmitted
  BY <1>1 DEF Gates
<1>4. RedactionDone(p, k) = [p EXCEPT !.receipt = r, !.gate = g]
  BY DEF RedactionDone, Panels
<1> HIDE DEF r, g
<1> DEFINE q == [p EXCEPT !.receipt = r, !.gate = g]
<1>5. q \in Panels /\ q.receipt = r /\ q.gate = g /\ q.receipts = p.receipts /\ q.deployment = p.deployment
  BY <1>2, <1>3 DEF Panels
<1> HIDE DEF q
<1>6. Heard(q, p, k)
  BY <1>2, <1>5 DEF Heard
<1>7. RedactionDone(p, k) = q
  BY <1>4 DEF q
<1> QED BY <1>2, <1>3, <1>5, <1>6, <1>7

LEMMA Baking ==
    ASSUME NEW p \in Panels, NEW k \in Steps, NEW bake \in {"none", "landed", "short"}
    PROVE  LET q == BakeDone(p, k, bake) IN
           /\ Heard(q, p, k)
           /\ q.receipt.redacted = p.receipt.redacted /\ q.gate.redacted = p.gate.redacted
           /\ q.receipt.context = p.receipt.context /\ q.receipt.picture = p.receipt.picture
           /\ q.receipt.validation = p.receipt.validation /\ q.receipt.execution = p.receipt.execution
           /\ q.gate.bake = bake /\ q.gate.prepared = p.gate.prepared
           /\ q.gate.transmitted = p.gate.transmitted
<1> DEFINE r == [p.receipt EXCEPT !.bake = bake, !.by = @ \cup {k}]
           g == [p.gate EXCEPT !.bake = bake]
<1>1. p.receipt \in ReceiptStates /\ p.gate \in Gates
  BY DEF Panels
<1>2. /\ r \in ReceiptStates /\ r.by = p.receipt.by \cup {k} /\ r.redacted = p.receipt.redacted
      /\ r.captured = p.receipt.captured /\ r.sealed = p.receipt.sealed
      /\ r.checked = p.receipt.checked /\ r.backend = p.receipt.backend
      /\ r.context = p.receipt.context /\ r.picture = p.receipt.picture
      /\ r.validation = p.receipt.validation /\ r.execution = p.receipt.execution
  BY <1>1 DEF ReceiptStates
<1>3. /\ g \in Gates /\ g.redacted = p.gate.redacted /\ g.bake = bake /\ g.prepared = p.gate.prepared
      /\ g.transmitted = p.gate.transmitted
  BY <1>1 DEF Gates
<1>4. BakeDone(p, k, bake) = [p EXCEPT !.receipt = r, !.gate = g]
  BY DEF BakeDone, Panels
<1> HIDE DEF r, g
<1> DEFINE q == [p EXCEPT !.receipt = r, !.gate = g]
<1>5. q \in Panels /\ q.receipt = r /\ q.gate = g /\ q.receipts = p.receipts /\ q.deployment = p.deployment
  BY <1>2, <1>3 DEF Panels
<1> HIDE DEF q
<1>6. Heard(q, p, k)
  BY <1>2, <1>5 DEF Heard
<1>7. BakeDone(p, k, bake) = q
  BY <1>4 DEF q
<1> QED BY <1>2, <1>3, <1>5, <1>6, <1>7

(* A context is prepared and checked.                                        *)
LEMMA Preparing ==
    ASSUME NEW p \in Panels, NEW k \in Steps, NEW image \in BOOLEAN, NEW blocked \in BOOLEAN
    PROVE  LET q == PrivacyVerified(ContextSent(p, k, image), k, blocked) IN
           /\ Heard(q, p, k)
           /\ q.receipt.redacted = p.receipt.redacted /\ q.gate.redacted = p.gate.redacted
           /\ q.receipt.context = (IF blocked THEN "blocked" ELSE NotChecked)
           /\ q.receipt.picture = (IF blocked THEN "blocked" ELSE IF image THEN NotChecked ELSE "verified-absent")
           /\ q.receipt.validation = p.receipt.validation /\ q.receipt.execution = p.receipt.execution
           /\ q.gate.bake = p.gate.bake /\ q.gate.prepared = (IF image THEN "image" ELSE "text")
           /\ q.gate.transmitted = p.gate.transmitted
<1> DEFINE sent == [p.receipt EXCEPT !.context = NotChecked, !.by = @ \cup {k},
                                     !.picture = IF image THEN NotChecked ELSE "verified-absent"]
           raw == IF blocked THEN "blocked" ELSE "verified-absent"
           seen == [sent EXCEPT !.by = @ \cup {k}, !.raw = raw]
           r == IF blocked THEN [seen EXCEPT !.context = "blocked", !.picture = "blocked"] ELSE seen
           g == [p.gate EXCEPT !.prepared = IF image THEN "image" ELSE "text"]
           q1 == [p EXCEPT !.receipt = sent, !.gate = g]
           q2 == [q1 EXCEPT !.receipt = seen, !.gate = g]
           q3 == [q2 EXCEPT !.receipt = r, !.gate = g]
<1>1. p.receipt \in ReceiptStates /\ p.gate \in Gates
  BY DEF Panels
<1>2. /\ sent \in ReceiptStates /\ sent.by = p.receipt.by \cup {k} /\ sent.redacted = p.receipt.redacted
      /\ sent.captured = p.receipt.captured /\ sent.sealed = p.receipt.sealed
      /\ sent.checked = p.receipt.checked /\ sent.backend = p.receipt.backend
      /\ sent.context = NotChecked /\ sent.picture = IF image THEN NotChecked ELSE "verified-absent"
      /\ sent.validation = p.receipt.validation /\ sent.execution = p.receipt.execution
  BY <1>1 DEF ReceiptStates, Claims
<1>3. /\ g \in Gates /\ g.redacted = p.gate.redacted /\ g.bake = p.gate.bake
      /\ g.prepared = (IF image THEN "image" ELSE "text")
      /\ g.transmitted = p.gate.transmitted
  BY <1>1 DEF Gates
<1>4. ContextSent(p, k, image) = q1
  BY DEF ContextSent, Panels
<1> raw \in Claims
  BY DEF Claims
<1> HIDE DEF sent, g, raw
<1>5. /\ seen \in ReceiptStates /\ seen.by = p.receipt.by \cup {k} /\ seen.redacted = p.receipt.redacted
      /\ seen.captured = p.receipt.captured /\ seen.sealed = p.receipt.sealed
      /\ seen.checked = p.receipt.checked /\ seen.backend = p.receipt.backend
      /\ seen.context = sent.context /\ seen.picture = sent.picture
      /\ seen.validation = p.receipt.validation /\ seen.execution = p.receipt.execution
  BY <1>2 DEF ReceiptStates
<1>6. q1 \in Panels /\ q1.receipt = sent /\ q1.gate = g /\ q1.receipts = p.receipts /\ q1.deployment = p.deployment
  BY <1>2, <1>3 DEF q1, Panels
<1> HIDE DEF q1
<1>7. PrivacyVerified(q1, k, blocked) =
          IF blocked THEN [q2 EXCEPT !.receipt.context = "blocked", !.receipt.picture = "blocked"] ELSE q2
  BY <1>6 DEF PrivacyVerified, Panels, raw
<1> HIDE DEF seen
<1>8. q2 \in Panels /\ q2.receipt = seen /\ q2.gate = g /\ q2.receipts = p.receipts /\ q2.deployment = p.deployment
  BY <1>3, <1>5, <1>6 DEF q2, Panels
<1> HIDE DEF q2
<1>9. /\ r \in ReceiptStates /\ r.by = p.receipt.by \cup {k} /\ r.redacted = p.receipt.redacted
      /\ r.captured = p.receipt.captured /\ r.sealed = p.receipt.sealed
      /\ r.checked = p.receipt.checked /\ r.backend = p.receipt.backend
      /\ r.context = (IF blocked THEN "blocked" ELSE sent.context)
      /\ r.picture = (IF blocked THEN "blocked" ELSE sent.picture)
      /\ r.validation = p.receipt.validation /\ r.execution = p.receipt.execution
  <2>1. CASE blocked
    BY <1>5, <2>1 DEF ReceiptStates, Claims
  <2>2. CASE ~blocked
    BY <1>5, <2>2
  <2> QED BY <2>1, <2>2
<1>10. PrivacyVerified(q1, k, blocked) = q3
  <2>1. CASE blocked
    BY <1>7, <1>8, <2>1 DEF Panels
  <2>2. CASE ~blocked
    <3>1. q3 = q2
      BY <1>8, <2>2 DEF Panels
    <3> QED BY <1>7, <2>2, <3>1
  <2> QED BY <2>1, <2>2
<1> HIDE DEF r
<1>11. q3 \in Panels /\ q3.receipt = r /\ q3.gate = g /\ q3.receipts = p.receipts /\ q3.deployment = p.deployment
  BY <1>3, <1>8, <1>9 DEF q3, Panels
<1> HIDE DEF q3
<1>12. Heard(q3, p, k)
  BY <1>9, <1>11 DEF Heard
<1> QED BY <1>2, <1>3, <1>4, <1>9, <1>10, <1>11, <1>12

(* A planner accepts a context that was prepared, or not as far as is known. *)
LEMMA Transmission ==
    ASSUME NEW p \in Panels, NEW k \in Steps, NEW off \in BOOLEAN
    PROVE  LET q == ContextTransmitted(p, k, off)
               claim == IF off THEN "sent" ELSE "stayed-on-device"
           IN
           /\ Heard(q, p, k)
           /\ q.receipt.redacted = p.receipt.redacted /\ q.gate.redacted = p.gate.redacted
           /\ q.receipt.context = (IF p.gate.prepared = "none" THEN NotChecked ELSE claim)
           /\ q.receipt.picture = (IF p.gate.prepared = "none" THEN NotChecked
                                   ELSE IF p.gate.prepared = "text" THEN "verified-absent" ELSE claim)
           /\ q.receipt.validation = p.receipt.validation /\ q.receipt.execution = p.receipt.execution
           /\ q.gate.bake = p.gate.bake /\ q.gate.prepared = p.gate.prepared
           /\ q.gate.transmitted = (IF off THEN "cloud" ELSE "on-device")
<1> DEFINE claim == IF off THEN "sent" ELSE "stayed-on-device"
           con == IF p.gate.prepared = "none" THEN NotChecked ELSE claim
           pic == CASE p.gate.prepared = "none" -> NotChecked
                    [] p.gate.prepared = "text" -> "verified-absent"
                    [] OTHER -> claim
           where == IF off THEN "cloud" ELSE "on-device"
           r == [p.receipt EXCEPT !.by = @ \cup {k}, !.context = con, !.picture = pic]
           g == [p.gate EXCEPT !.transmitted = where]
<1>1. p.receipt \in ReceiptStates /\ p.gate \in Gates
  BY DEF Panels
<1>2. con \in Claims /\ pic \in Claims /\ where \in {"on-device", "cloud"}
  BY DEF Claims
<1>3. pic = IF p.gate.prepared = "none" THEN NotChecked
            ELSE IF p.gate.prepared = "text" THEN "verified-absent" ELSE claim
  BY <1>1 DEF Gates
<1>4. ContextTransmitted(p, k, off) = [p EXCEPT !.receipt = r, !.gate = g]
  <2>1. ContextTransmitted(p, k, off) =
            [p EXCEPT !.receipt.by = @ \cup {k}, !.receipt.context = con, !.receipt.picture = pic,
                      !.gate.transmitted = where]
    BY DEF ContextTransmitted
  <2> HIDE DEF con, pic, where
  <2> QED BY <2>1 DEF Panels
<1> HIDE DEF con, pic, where
<1>5. /\ r \in ReceiptStates /\ r.by = p.receipt.by \cup {k} /\ r.redacted = p.receipt.redacted
      /\ r.captured = p.receipt.captured /\ r.sealed = p.receipt.sealed
      /\ r.checked = p.receipt.checked /\ r.backend = p.receipt.backend
      /\ r.context = con /\ r.picture = pic
      /\ r.validation = p.receipt.validation /\ r.execution = p.receipt.execution
  BY <1>1, <1>2 DEF ReceiptStates
<1>6. /\ g \in Gates /\ g.redacted = p.gate.redacted /\ g.bake = p.gate.bake /\ g.prepared = p.gate.prepared
      /\ g.transmitted = where
  BY <1>1, <1>2 DEF Gates
<1> HIDE DEF r, g
<1> DEFINE q == [p EXCEPT !.receipt = r, !.gate = g]
<1>7. q \in Panels /\ q.receipt = r /\ q.gate = g /\ q.receipts = p.receipts /\ q.deployment = p.deployment
  BY <1>5, <1>6 DEF Panels
<1> HIDE DEF q
<1>8. Heard(q, p, k)
  BY <1>5, <1>7 DEF Heard
<1>9. ContextTransmitted(p, k, off) = q
  BY <1>4 DEF q
<1> QED BY <1>3, <1>5, <1>6, <1>7, <1>8, <1>9 DEF con, where

(* What becomes of the action: performed or not, or refused.                 *)
LEMMA Acting ==
    ASSUME NEW p \in Panels, NEW k \in Steps, NEW how \in Executions
    PROVE  LET q == ActionExecuted(p, k, how) IN
           /\ Heard(q, p, k) /\ q.gate = p.gate
           /\ q.receipt.redacted = p.receipt.redacted
           /\ q.receipt.context = p.receipt.context /\ q.receipt.picture = p.receipt.picture
           /\ q.receipt.execution = how
           /\ q.receipt.validation = (IF p.receipt.validation = "fail" THEN "fail" ELSE "pass")
<1> DEFINE v == IF p.receipt.validation = "fail" THEN "fail" ELSE "pass"
           r == [p.receipt EXCEPT !.by = @ \cup {k}, !.execution = how, !.validation = v]
<1>1. p.receipt \in ReceiptStates /\ v \in Validations
  BY DEF Panels, Validations
<1>2. ActionExecuted(p, k, how) = [p EXCEPT !.receipt = r]
  BY DEF ActionExecuted, Panels
<1> HIDE DEF v
<1>3. /\ r \in ReceiptStates /\ r.by = p.receipt.by \cup {k} /\ r.redacted = p.receipt.redacted
      /\ r.captured = p.receipt.captured /\ r.sealed = p.receipt.sealed
      /\ r.checked = p.receipt.checked /\ r.backend = p.receipt.backend
      /\ r.context = p.receipt.context /\ r.picture = p.receipt.picture
      /\ r.validation = v /\ r.execution = how
  BY <1>1 DEF ReceiptStates
<1> HIDE DEF r
<1> DEFINE q == [p EXCEPT !.receipt = r]
<1>4. q \in Panels /\ q.receipt = r /\ q.gate = p.gate /\ q.receipts = p.receipts /\ q.deployment = p.deployment
  BY <1>3 DEF Panels
<1> HIDE DEF q
<1>5. Heard(q, p, k)
  BY <1>3, <1>4 DEF Heard
<1>6. ActionExecuted(p, k, how) = q
  BY <1>2 DEF q
<1> QED BY <1>3, <1>4, <1>5, <1>6 DEF v

LEMMA Refusing ==
    ASSUME NEW p \in Panels, NEW k \in Steps
    PROVE  LET q == ErrorOf(p, k, "validate") IN
           /\ Heard(q, p, k) /\ q.gate = p.gate
           /\ q.receipt.redacted = p.receipt.redacted
           /\ q.receipt.context = p.receipt.context /\ q.receipt.picture = p.receipt.picture
           /\ q.receipt.execution = p.receipt.execution /\ q.receipt.validation = "fail"
<1> DEFINE r == [p.receipt EXCEPT !.by = @ \cup {k}, !.validation = "fail"]
<1>1. p.receipt \in ReceiptStates
  BY DEF Panels
<1>2. ErrorOf(p, k, "validate") = [p EXCEPT !.receipt = r]
  BY DEF ErrorOf, Panels
<1>3. /\ r \in ReceiptStates /\ r.by = p.receipt.by \cup {k} /\ r.redacted = p.receipt.redacted
      /\ r.captured = p.receipt.captured /\ r.sealed = p.receipt.sealed
      /\ r.checked = p.receipt.checked /\ r.backend = p.receipt.backend
      /\ r.context = p.receipt.context /\ r.picture = p.receipt.picture
      /\ r.validation = "fail" /\ r.execution = p.receipt.execution
  BY <1>1 DEF ReceiptStates, Validations
<1> HIDE DEF r
<1> DEFINE q == [p EXCEPT !.receipt = r]
<1>4. q \in Panels /\ q.receipt = r /\ q.gate = p.gate /\ q.receipts = p.receipts /\ q.deployment = p.deployment
  BY <1>3 DEF Panels
<1> HIDE DEF q
<1>5. Heard(q, p, k)
  BY <1>3, <1>4 DEF Heard
<1>6. ErrorOf(p, k, "validate") = q
  BY <1>2 DEF q
<1> QED BY <1>3, <1>4, <1>5, <1>6

LEMMA OtherErrors ==
    ASSUME NEW p, NEW k, NEW scope, scope # "validate"
    PROVE  ErrorOf(p, k, scope) = p
BY DEF ErrorOf

(* A receipt is put behind the others, the first one falls out.              *)
LEMMA Pushed ==
    ASSUME NEW rs \in Seq(ReceiptStates), Len(rs) <= MaxReceipts, NEW r \in ReceiptStates
    PROVE  LET next == PushReceipt(rs, r) IN
           /\ next \in Seq(ReceiptStates) /\ Len(next) <= MaxReceipts /\ Len(next) > 0 /\ next[Len(next)] = r
           /\ \A i \in 1 .. Len(next) : next[i] = r \/ \E j \in 1 .. Len(rs) : next[i] = rs[j]
<1> DEFINE all == Append(rs, r)
           n   == Len(rs)
<1>1. n \in Nat /\ MaxReceipts \in Nat \ {0}
  BY LenProperties, PanelAssumption
<1>2. /\ all \in Seq(ReceiptStates) /\ Len(all) = n + 1 /\ all[n + 1] = r
      /\ \A i \in 1 .. n : all[i] = rs[i]
  BY AppendProperties
<1>3. PushReceipt(rs, r) = IF Len(all) > MaxReceipts THEN Tail(all) ELSE all
  BY DEF PushReceipt
<1> HIDE DEF all
<1>4. CASE Len(all) <= MaxReceipts
  <2>1. PushReceipt(rs, r) = all
    BY <1>1, <1>2, <1>3, <1>4
  <2>2. \A i \in 1 .. n + 1 : i = n + 1 \/ i \in 1 .. n
    BY <1>1
  <2> QED BY <1>1, <1>2, <1>4, <2>1, <2>2
<1>5. CASE Len(all) > MaxReceipts
  <2>1. PushReceipt(rs, r) = Tail(all) /\ all # <<>> /\ n = MaxReceipts
    BY <1>1, <1>2, <1>3, <1>5
  <2>2. /\ Tail(all) \in Seq(ReceiptStates) /\ Len(Tail(all)) = Len(all) - 1
        /\ \A i \in 1 .. Len(Tail(all)) : Tail(all)[i] = all[i + 1]
    BY <1>2, <2>1, HeadTailProperties
  <2>3. Len(Tail(all)) = n /\ n > 0 /\ n <= MaxReceipts /\ n \in 1 .. n
    BY <1>1, <1>2, <2>1, <2>2
  <2>4. \A i \in 1 .. n : Tail(all)[i] = all[i + 1] /\ (i = n \/ i + 1 \in 1 .. n)
    <3>1. \A i \in 1 .. n : Tail(all)[i] = all[i + 1]
      BY <2>2, <2>3
    <3>2. \A i \in 1 .. n : i = n \/ i + 1 \in 1 .. n
      BY <1>1
    <3> QED BY <3>1, <3>2
  <2>5. \A i \in 1 .. n : Tail(all)[i] = r \/ \E j \in 1 .. n : Tail(all)[i] = rs[j]
    BY <1>2, <2>4
  <2> QED BY <1>2, <2>1, <2>2, <2>3, <2>4, <2>5
<1> QED BY <1>1, <1>2, <1>4, <1>5

(* The receipt with which a step ends.                                       *)
SealedAs(r, p, k, no) ==
    /\ r.sealed /\ r.of = k /\ r.step = no
    /\ IF ~p.receipt.sealed /\ p.receipt.captured
       THEN /\ r.captured /\ r.by = p.receipt.by /\ r.checked = p.receipt.checked
            /\ r.redacted = p.receipt.redacted /\ r.context = p.receipt.context
            /\ r.picture = p.receipt.picture /\ r.validation = p.receipt.validation
            /\ r.execution = p.receipt.execution /\ r.backend = p.receipt.backend
       ELSE ~r.captured /\ r.by = {} /\ r.checked = Nobody

LEMMA Sealing ==
    ASSUME NEW p \in Panels, NEW k \in Steps, NEW no \in Nat, Len(p.receipts) <= MaxReceipts
    PROVE  LET q == StepDone(p, k, no) IN
           /\ q \in Panels /\ q.deployment = p.deployment /\ q.gate = p.gate
           /\ SealedAs(q.receipt, p, k, no)
           /\ Len(q.receipts) <= MaxReceipts /\ q.receipts # <<>>
           /\ q.receipts[Len(q.receipts)] = q.receipt
           /\ \A i \in 1 .. Len(q.receipts) :
                  q.receipts[i] = q.receipt \/ \E j \in 1 .. Len(p.receipts) : q.receipts[i] = p.receipts[j]
<1> DEFINE owned == ~p.receipt.sealed /\ p.receipt.captured
           fresh == [EmptyReceipt(no) EXCEPT !.backend = p.deployment]
           begun == IF owned THEN p.receipt ELSE fresh
           r     == [begun EXCEPT !.step = no, !.sealed = TRUE, !.of = k]
           next  == PushReceipt(p.receipts, r)
           q     == [p EXCEPT !.receipt = r, !.receipts = next]
<1>1. p.receipt \in ReceiptStates /\ p.receipts \in Seq(ReceiptStates) /\ p.deployment \in Kinds \cup {"none"}
  BY DEF Panels
<1>2. EmptyReceipt(no) \in ReceiptStates
  BY Emptied
<1>3. fresh \in ReceiptStates
  BY <1>1, <1>2 DEF ReceiptStates
<1>4. ~fresh.captured /\ fresh.by = {} /\ fresh.checked = Nobody
  BY DEF EmptyReceipt
<1>5. StepDone(p, k, no) = q
  <2>1. StepDone(p, k, no) = [p EXCEPT !.receipt = r, !.receipts = PushReceipt(@, r)]
    BY DEF StepDone
  <2> HIDE DEF r
  <2> QED BY <2>1 DEF Panels
<1> HIDE DEF fresh
<1>6. begun \in ReceiptStates
  BY <1>1, <1>3
<1> HIDE DEF begun
<1>7. /\ r \in ReceiptStates /\ r.sealed /\ r.of = k /\ r.step = no
      /\ r.captured = begun.captured /\ r.by = begun.by /\ r.checked = begun.checked
      /\ r.redacted = begun.redacted /\ r.context = begun.context
      /\ r.picture = begun.picture /\ r.validation = begun.validation
      /\ r.execution = begun.execution /\ r.backend = begun.backend
  BY <1>6 DEF ReceiptStates
<1> HIDE DEF r
<1>8. /\ next \in Seq(ReceiptStates) /\ Len(next) <= MaxReceipts /\ Len(next) > 0 /\ next[Len(next)] = r
      /\ \A i \in 1 .. Len(next) : next[i] = r \/ \E j \in 1 .. Len(p.receipts) : next[i] = p.receipts[j]
  <2>1. p.receipts \in Seq(ReceiptStates) /\ Len(p.receipts) <= MaxReceipts /\ r \in ReceiptStates
    BY <1>1, <1>7
  <2> QED BY <2>1, Pushed
<1> HIDE DEF next
<1>9. /\ q \in Panels /\ q.deployment = p.deployment /\ q.gate = p.gate /\ q.receipt = r /\ q.receipts = next
  BY <1>7, <1>8 DEF Panels
<1> HIDE DEF q
<1>10. SealedAs(r, p, k, no)
  <2>1. CASE owned
    <3>1. begun = p.receipt
      BY <2>1 DEF begun
    <3> QED BY <1>7, <2>1, <3>1 DEF SealedAs
  <2>2. CASE ~owned
    <3>1. begun = fresh
      BY <2>2 DEF begun
    <3>2. ~r.captured /\ r.by = {} /\ r.checked = Nobody
      BY <1>4, <1>7, <3>1
    <3>3. ~(~p.receipt.sealed /\ p.receipt.captured)
      BY <2>2
    <3> QED BY <1>7, <3>2, <3>3 DEF SealedAs
  <2> QED BY <2>1, <2>2
<1>11. next # <<>>
  BY <1>8
<1> QED BY <1>5, <1>8, <1>9, <1>10, <1>11

(* A receipt as it was, but for whose page check it shows.                   *)
Checked(r, s, k) ==
    /\ r \in ReceiptStates
    /\ r.step = s.step /\ r.captured = s.captured /\ r.sealed = s.sealed /\ r.by = s.by /\ r.of = s.of
    /\ r.redacted = s.redacted /\ r.context = s.context /\ r.picture = s.picture
    /\ r.validation = s.validation /\ r.execution = s.execution /\ r.backend = s.backend
    /\ r.checked \in {k, s.checked}

(* The page check changes one receipt, the last one of its number.           *)
LEMMA Checking ==
    ASSUME NEW p \in Panels, NEW k \in Steps, NEW no \in Nat, NEW changed \in BOOLEAN
    PROVE  LET q == PageVerified(p, k, no, changed) IN
           /\ q \in Panels /\ q.deployment = p.deployment /\ q.gate = p.gate
           /\ Checked(q.receipt, p.receipt, k)
           /\ p.receipt.step # no => q.receipt = p.receipt
           /\ Len(q.receipts) = Len(p.receipts)
           /\ \A i \in 1 .. Len(p.receipts) :
                  /\ Checked(q.receipts[i], p.receipts[i], k)
                  /\ \/ q.receipts[i] = p.receipts[i]
                     \/ \A j \in 1 .. Len(p.receipts) : p.receipts[j].step = no => j <= i
<1> DEFINE v == IF changed THEN "changed" ELSE "unchanged"
           Seen(r) == IF r.step = no THEN [r EXCEPT !.verification = v, !.checked = k] ELSE r
           IsLatest(i) == \A j \in DOMAIN p.receipts : p.receipts[j].step = no => j <= i
           rs == [i \in DOMAIN p.receipts |-> IF IsLatest(i) THEN Seen(p.receipts[i]) ELSE p.receipts[i]]
           q == [p EXCEPT !.receipt = Seen(p.receipt), !.receipts = rs]
           n == Len(p.receipts)
<1>1. p.receipt \in ReceiptStates /\ p.receipts \in Seq(ReceiptStates)
  BY DEF Panels
<1>2. /\ n \in Nat /\ DOMAIN p.receipts = 1 .. n
      /\ \A i \in 1 .. n : p.receipts[i] \in ReceiptStates
  BY <1>1, LenProperties
<1>3. v \in {NotChecked, "changed", "unchanged"}
  OBVIOUS
<1> HIDE DEF v
<1>4. ASSUME NEW r \in ReceiptStates
      PROVE  Seen(r) \in ReceiptStates /\ Checked(Seen(r), r, k) /\ (r.step # no => Seen(r) = r)
  <2>1. CASE r.step = no
    <3> DEFINE s == [r EXCEPT !.verification = v, !.checked = k]
    <3>1. s \in ReceiptStates
      BY <1>3 DEF ReceiptStates
    <3>2. Checked(s, r, k)
      BY <3>1 DEF ReceiptStates, Checked
    <3> QED BY <2>1, <3>1, <3>2
  <2>2. CASE r.step # no
    BY <2>2 DEF Checked
  <2> QED BY <2>1, <2>2
<1>5. PageVerified(p, k, no, changed) = q
  <2>1. PageVerified(p, k, no, changed) =
            [p EXCEPT !.receipt = Seen(@),
                      !.receipts = [i \in DOMAIN @ |-> IF IsLatest(i) THEN Seen(@[i]) ELSE @[i]]]
    BY DEF PageVerified, v
  <2> HIDE DEF Seen, IsLatest
  <2> QED BY <2>1 DEF Panels
<1> HIDE DEF Seen, IsLatest
<1>6. \A i \in 1 .. n : rs[i] = IF IsLatest(i) THEN Seen(p.receipts[i]) ELSE p.receipts[i]
  BY <1>2
<1>7. rs \in Seq(ReceiptStates) /\ Len(rs) = n
  <2>1. rs \in [1 .. n -> ReceiptStates]
    BY <1>2, <1>4
  <2> HIDE DEF rs
  <2>2. rs \in Seq(ReceiptStates)
    BY <1>2, <2>1, SeqDef
  <2>3. DOMAIN rs = 1 .. n /\ DOMAIN rs = 1 .. Len(rs) /\ Len(rs) \in Nat
    BY <2>1, <2>2, LenProperties
  <2> QED BY <1>2, <2>2, <2>3
<1> HIDE DEF rs
<1>8. q \in Panels /\ q.deployment = p.deployment /\ q.gate = p.gate /\ q.receipt = Seen(p.receipt) /\ q.receipts = rs
  BY <1>1, <1>4, <1>7 DEF Panels
<1> HIDE DEF q
<1>9. ASSUME NEW i \in 1 .. n
      PROVE  /\ Checked(rs[i], p.receipts[i], k)
             /\ \/ rs[i] = p.receipts[i]
                \/ \A j \in 1 .. n : p.receipts[j].step = no => j <= i
  <2>1. CASE IsLatest(i)
    <3>1. \A j \in 1 .. n : p.receipts[j].step = no => j <= i
      BY <1>2, <2>1 DEF IsLatest
    <3>2. rs[i] = Seen(p.receipts[i]) /\ p.receipts[i] \in ReceiptStates
      BY <1>2, <1>6, <2>1
    <3> QED BY <1>4, <3>1, <3>2
  <2>2. CASE ~IsLatest(i)
    <3>1. rs[i] = p.receipts[i] /\ p.receipts[i] \in ReceiptStates
      BY <1>2, <1>6, <2>2
    <3> QED BY <3>1 DEF Checked
  <2> QED BY <2>1, <2>2
<1>10. Checked(Seen(p.receipt), p.receipt, k) /\ (p.receipt.step # no => Seen(p.receipt) = p.receipt)
  BY <1>1, <1>4
<1> QED BY <1>5, <1>7, <1>8, <1>9, <1>10

LEMMA Selecting ==
    ASSUME NEW p \in Panels, NEW kind \in Kinds
    PROVE  LET q == BackendSelected(p, kind) IN
           /\ q \in Panels /\ q.deployment = kind /\ q.gate = p.gate /\ q.receipts = p.receipts
           /\ q.receipt = [p.receipt EXCEPT !.backend = kind]
<1> DEFINE r == [p.receipt EXCEPT !.backend = kind]
           q == [p EXCEPT !.deployment = kind, !.receipt = r]
<1>1. r \in ReceiptStates
  BY DEF Panels, ReceiptStates
<1>2. BackendSelected(p, kind) = q
  BY DEF BackendSelected, Panels
<1> HIDE DEF r
<1>3. q \in Panels /\ q.deployment = kind /\ q.gate = p.gate /\ q.receipts = p.receipts /\ q.receipt = r
  BY <1>1 DEF Panels
<1> QED BY <1>2, <1>3 DEF r

LEMMA Looping ==
    ASSUME NEW p \in Panels, NEW q \in {LoopStep(p), LoopStopped(p)}
    PROVE  /\ q \in Panels /\ q.deployment = p.deployment /\ q.gate = p.gate
           /\ q.receipts = p.receipts /\ q.receipt = p.receipt
BY DEF LoopStep, LoopStopped, Panels

-----------------------------------------------------------------------------
(* What the actions make of a step.                                          *)

SameStep(s, t) ==
    /\ s.task = t.task /\ s.no = t.no /\ s.kind = t.kind /\ s.moved = t.moved
    /\ s.withheld = t.withheld /\ s.toggled = t.toggled

(* Step k, which is under way, becomes s.                                    *)
Turns(k, s) ==
    /\ UnderWay(k) /\ s \in StepStates /\ SameStep(s, steps[k])
    /\ steps' = [steps EXCEPT ![k] = s]

(* ... and nothing is done but that.                                         *)
Aside == UNCHANGED <<backend, stepCounter, open, planOnly, ready, early, crossed>> /\ upsets' \in 0 .. MaxUpsets

LEMMA Counted ==
    ASSUME TypeOK, Upset
    PROVE  upsets' \in 0 .. MaxUpsets
<1>1. upsets \in 0 .. MaxUpsets /\ upsets < MaxUpsets /\ upsets' = upsets + 1 /\ MaxUpsets \in Nat
  BY SessionAssumption DEF TypeOK, Upset
<1> QED BY <1>1

LEMMA Plainly ==
    ASSUME TypeOK, Plain \/ Wrong
    PROVE  Aside
<1>1. upsets' \in 0 .. MaxUpsets
  BY Counted DEF Plain, Wrong, TypeOK
<1> QED BY <1>1 DEF Plain, Wrong, Others, Aside, settings

(* Two steps that have done the same are told of in the same words.          *)
Same(s, t) ==
    /\ s.built = t.built /\ s.left = t.left /\ s.answered = t.answered
    /\ s.verdict = t.verdict /\ s.act = t.act
Told(s, t) ==
    /\ Lawful(s) <=> Lawful(t)
    /\ ContextOf(s) = ContextOf(t) /\ PictureOf(s) = PictureOf(t)
    /\ ValidationOf(s) = ValidationOf(t) /\ ExecutionOf(s) = ExecutionOf(t)

LEMMA SameTold ==
    ASSUME NEW s, NEW t, Same(s, t), s.image = t.image
    PROVE  Told(s, t)
<1>1. ContextOf(s) = ContextOf(t)
  BY DEF Same, ContextOf
<1>2. PictureOf(s) = PictureOf(t)
  BY <1>1 DEF Same, PictureOf
<1>3. Lawful(s) <=> Lawful(t)
  BY DEF Same, Lawful
<1>4. ValidationOf(s) = ValidationOf(t) /\ ExecutionOf(s) = ExecutionOf(t)
  BY DEF Same, ValidationOf, ExecutionOf
<1> QED BY <1>1, <1>2, <1>3, <1>4 DEF Told

(* What there is to say of a step that is under way.                         *)
LEMMA Underway ==
    ASSUME NEW s, Course(s)
    PROVE  /\ Lawful(s) /\ ValidationOf(s) = NotReached /\ ExecutionOf(s) = NotReached
           /\ ContextOf(s) = IF s.at \notin {"judge", "execute"} THEN NotChecked
                             ELSE IF OffDevice(s.kind) THEN "sent" ELSE "stayed-on-device"
           /\ PictureOf(s) = IF s.at \in {"snapshot", "redact", "bake", "sanitize"} THEN NotChecked
                             ELSE IF s.image THEN ContextOf(s) ELSE "verified-absent"
<1>1. Lawful(s)
  BY DEF Course, Lawful
<1>2. ContextOf(s) = IF s.at \notin {"judge", "execute"} THEN NotChecked
                     ELSE IF OffDevice(s.kind) THEN "sent" ELSE "stayed-on-device"
  BY DEF Course, ContextOf
<1>3. PictureOf(s) = IF s.at \in {"snapshot", "redact", "bake", "sanitize"} THEN NotChecked
                     ELSE IF s.image THEN ContextOf(s) ELSE "verified-absent"
  BY DEF Course, PictureOf
<1>4. ValidationOf(s) = NotReached /\ ExecutionOf(s) = NotReached
  BY DEF Course, ValidationOf, ExecutionOf
<1> QED BY <1>1, <1>2, <1>3, <1>4

(* The page is asked to act, or left alone, as the step was told to, which   *)
(* sees the box; or nothing of the kind is done.                             *)
ActsAs(k, s) ==
    \/ (s.act = "withheld" => steps[k].act = "withheld") /\ s.box = steps[k].box
    \/ (s.act = "withheld" <=> steps[k].withheld) /\ s.box = BoxSeen

(* The effect of an action with which step k goes on.                        *)
GoesOn(k, s, next) ==
    /\ Turns(k, s) /\ Aside /\ task' = task
    /\ ActsAs(k, s) /\ (s.act = "withheld" => steps[k].act = "withheld")
    /\ panel' = IF open THEN next ELSE panel

LEMMA CapturesGoes ==
    ASSUME TypeOK, NEW k \in Steps, Captures(k)
    PROVE  \E s : /\ GoesOn(k, s, FrameCaptured(panel, k))
                  /\ steps[k].at = "snapshot" /\ s.at = "redact"
                  /\ Same(s, steps[k]) /\ s.image = steps[k].image
<1> DEFINE s == [steps[k] EXCEPT !.at = "redact"]
<1>1. steps[k] \in StepStates /\ steps[k].at = "snapshot" /\ UnderWay(k) /\ Aside
  BY Plainly DEF TypeOK, Captures, UnderWay
<1>2. /\ s \in StepStates /\ SameStep(s, steps[k]) /\ s.at = "redact"
      /\ Same(s, steps[k]) /\ s.image = steps[k].image /\ s.box = steps[k].box /\ s.act = steps[k].act
  BY <1>1 DEF StepStates, SameStep, Same, Stages
<1>3. steps' = [steps EXCEPT ![k] = s] /\ task' = task
  BY DEF Captures, Goes, TypeOK
<1>4. panel' = IF open THEN FrameCaptured(panel, k) ELSE panel
  BY DEF Captures, Shows
<1> HIDE DEF s
<1> QED BY <1>1, <1>2, <1>3, <1>4 DEF GoesOn, Turns, ActsAs

LEMMA RedactsGoes ==
    ASSUME TypeOK, NEW k \in Steps, Redacts(k)
    PROVE  \E s : /\ GoesOn(k, s, RedactionDone(panel, k))
                  /\ steps[k].at = "redact" /\ s.at \in {"bake", "sanitize"}
                  /\ Same(s, steps[k]) /\ s.image = steps[k].image
<1> DEFINE at == IF OffDevice(steps[k].kind) THEN "bake" ELSE "sanitize"
           s == [steps[k] EXCEPT !.at = at]
<1>1. steps[k] \in StepStates /\ steps[k].at = "redact" /\ UnderWay(k) /\ Aside
  BY Plainly DEF TypeOK, Redacts, UnderWay
<1>2. steps' = [steps EXCEPT ![k] = s] /\ task' = task
  BY DEF Redacts, Goes, TypeOK
<1>3. at \in {"bake", "sanitize"}
  OBVIOUS
<1> HIDE DEF at
<1>4. /\ s \in StepStates /\ SameStep(s, steps[k]) /\ s.at = at
      /\ Same(s, steps[k]) /\ s.image = steps[k].image /\ s.box = steps[k].box /\ s.act = steps[k].act
  BY <1>1, <1>3 DEF StepStates, SameStep, Same, Stages
<1>5. panel' = IF open THEN RedactionDone(panel, k) ELSE panel
  BY DEF Redacts, Shows
<1> HIDE DEF s
<1> QED BY <1>1, <1>2, <1>3, <1>4, <1>5 DEF GoesOn, Turns, ActsAs

LEMMA BakesGoes ==
    ASSUME TypeOK, NEW k \in Steps, NEW bake \in {"none", "landed", "short"}, Bakes(k, bake)
    PROVE  \E s : /\ GoesOn(k, s, IF bake = "none" THEN panel ELSE BakeDone(panel, k, bake))
                  /\ steps[k].at = "bake" /\ s.at = "sanitize"
                  /\ Same(s, steps[k]) /\ s.image = (bake = "landed")
<1> DEFINE image == bake = "landed"
           s == [steps[k] EXCEPT !.at = "sanitize", !.image = image]
<1>1. steps[k] \in StepStates /\ steps[k].at = "bake" /\ UnderWay(k) /\ Aside
  BY Plainly DEF TypeOK, Bakes, UnderWay
<1>2. steps' = [steps EXCEPT ![k] = s] /\ task' = task
  BY DEF Bakes, TypeOK
<1>3. image \in BOOLEAN
  OBVIOUS
<1> HIDE DEF image
<1>4. /\ s \in StepStates /\ SameStep(s, steps[k]) /\ s.at = "sanitize"
      /\ Same(s, steps[k]) /\ s.image = image /\ s.box = steps[k].box /\ s.act = steps[k].act
  BY <1>1, <1>3 DEF StepStates, SameStep, Same, Stages
<1>5. panel' = IF open THEN (IF bake = "none" THEN panel ELSE BakeDone(panel, k, bake)) ELSE panel
  BY DEF Bakes, Shows
<1> HIDE DEF s
<1>6. GoesOn(k, s, IF bake = "none" THEN panel ELSE BakeDone(panel, k, bake))
  BY <1>1, <1>2, <1>4, <1>5 DEF GoesOn, Turns, ActsAs
<1> QED BY <1>1, <1>4, <1>6 DEF image

LEMMA SanitizesGoes ==
    ASSUME TypeOK, NEW k \in Steps, NEW blocked \in BOOLEAN, ~blocked, Sanitizes(k, blocked)
    PROVE  \E s : /\ GoesOn(k, s, PrivacyVerified(ContextSent(panel, k, steps[k].image), k, blocked))
                  /\ steps[k].at = "sanitize" /\ s.at = "plan"
                  /\ s.image = steps[k].image /\ s.built = "passed"
                  /\ s.left = steps[k].left /\ s.answered = steps[k].answered
                  /\ s.verdict = steps[k].verdict /\ s.act = steps[k].act
<1> DEFINE s == [steps[k] EXCEPT !.at = "plan", !.built = "passed"]
<1>1. steps[k] \in StepStates /\ steps[k].at = "sanitize" /\ UnderWay(k) /\ Aside
  BY Plainly DEF TypeOK, Sanitizes, UnderWay
<1>2. steps' = [steps EXCEPT ![k] = s] /\ task' = task
  BY DEF Sanitizes, TypeOK
<1>3. /\ s \in StepStates /\ SameStep(s, steps[k]) /\ s.at = "plan" /\ s.box = steps[k].box
      /\ s.image = steps[k].image /\ s.built = "passed"
      /\ s.left = steps[k].left /\ s.answered = steps[k].answered
      /\ s.verdict = steps[k].verdict /\ s.act = steps[k].act
  BY <1>1 DEF StepStates, SameStep, Stages
<1>4. panel' = IF open THEN PrivacyVerified(ContextSent(panel, k, steps[k].image), k, blocked) ELSE panel
  BY DEF Sanitizes, Shows
<1> HIDE DEF s
<1>5. GoesOn(k, s, PrivacyVerified(ContextSent(panel, k, steps[k].image), k, blocked))
  BY <1>1, <1>2, <1>3, <1>4 DEF GoesOn, Turns, ActsAs
<1> QED BY <1>1, <1>3, <1>5

LEMMA RequestsGoes ==
    ASSUME TypeOK, NEW k \in Steps, Requests(k)
    PROVE  \E s : /\ GoesOn(k, s, panel)
                  /\ steps[k].at = "plan" /\ s.at = "asking"
                  /\ s.image = steps[k].image /\ s.left = OffDevice(s.kind)
                  /\ s.built = steps[k].built /\ s.answered = steps[k].answered
                  /\ s.verdict = steps[k].verdict /\ s.act = steps[k].act
<1> DEFINE off == OffDevice(steps[k].kind)
           s == [steps[k] EXCEPT !.at = "asking", !.left = off]
<1>1. steps[k] \in StepStates /\ steps[k].at = "plan" /\ UnderWay(k) /\ Aside
  BY Plainly DEF TypeOK, Requests, UnderWay
<1>2. steps' = [steps EXCEPT ![k] = s] /\ task' = task /\ panel' = panel
  BY DEF Requests, TypeOK
<1>3. off \in BOOLEAN
  BY DEF OffDevice
<1> HIDE DEF off
<1>4. /\ s \in StepStates /\ SameStep(s, steps[k]) /\ s.at = "asking" /\ s.box = steps[k].box
      /\ s.image = steps[k].image /\ s.left = off /\ s.kind = steps[k].kind
      /\ s.built = steps[k].built /\ s.answered = steps[k].answered
      /\ s.verdict = steps[k].verdict /\ s.act = steps[k].act
  BY <1>1, <1>3 DEF StepStates, SameStep, Stages
<1> HIDE DEF s
<1>5. GoesOn(k, s, panel)
  BY <1>1, <1>2, <1>4 DEF GoesOn, Turns, ActsAs
<1> QED BY <1>1, <1>4, <1>5 DEF off

LEMMA PlansGoes ==
    ASSUME TypeOK, NEW k \in Steps, Plans(k)
    PROVE  \E s : /\ GoesOn(k, s, ContextTransmitted(panel, k, OffDevice(steps[k].kind)))
                  /\ steps[k].at = "asking" /\ s.at = "judge"
                  /\ s.image = steps[k].image /\ s.answered = TRUE
                  /\ s.built = steps[k].built /\ s.left = steps[k].left
                  /\ s.verdict = steps[k].verdict /\ s.act = steps[k].act
<1> DEFINE s == [steps[k] EXCEPT !.at = "judge", !.answered = TRUE]
<1>1. steps[k] \in StepStates /\ steps[k].at = "asking" /\ UnderWay(k) /\ Aside
  BY Plainly DEF TypeOK, Plans, UnderWay
<1>2. steps' = [steps EXCEPT ![k] = s] /\ task' = task
  BY DEF Plans, TypeOK
<1>3. /\ s \in StepStates /\ SameStep(s, steps[k]) /\ s.at = "judge" /\ s.box = steps[k].box
      /\ s.image = steps[k].image /\ s.answered = TRUE
      /\ s.built = steps[k].built /\ s.left = steps[k].left
      /\ s.verdict = steps[k].verdict /\ s.act = steps[k].act
  BY <1>1 DEF StepStates, SameStep, Stages
<1>4. panel' = IF open THEN ContextTransmitted(panel, k, OffDevice(steps[k].kind)) ELSE panel
  BY DEF Plans, Shows
<1> HIDE DEF s
<1>5. GoesOn(k, s, ContextTransmitted(panel, k, OffDevice(steps[k].kind)))
  BY <1>1, <1>2, <1>3, <1>4 DEF GoesOn, Turns, ActsAs
<1> QED BY <1>1, <1>3, <1>5

LEMMA CallsGoes ==
    ASSUME TypeOK, NEW k \in Steps, CallsExecute(k)
    PROVE  \E s : /\ GoesOn(k, s, panel)
                  /\ steps[k].at = "judge" /\ s.at = "execute"
                  /\ s.image = steps[k].image /\ s.verdict = "pass" /\ s.act = "asked"
                  /\ s.built = steps[k].built /\ s.left = steps[k].left /\ s.answered = steps[k].answered
<1> DEFINE seen == BoxSeen
           s == [steps[k] EXCEPT !.at = "execute", !.verdict = "pass", !.act = "asked", !.box = seen]
<1>1. steps[k] \in StepStates /\ steps[k].at = "judge" /\ ~steps[k].withheld /\ UnderWay(k) /\ Aside
  BY Plainly DEF TypeOK, CallsExecute, UnderWay
<1>2. steps' = [steps EXCEPT ![k] = s] /\ task' = task /\ panel' = panel
  BY DEF CallsExecute, TypeOK
<1>3. seen \in {"unseen", "on", "off"}
  BY DEF BoxSeen
<1> HIDE DEF seen
<1>4. /\ s \in StepStates /\ SameStep(s, steps[k]) /\ s.at = "execute" /\ s.box = seen
      /\ s.image = steps[k].image /\ s.verdict = "pass" /\ s.act = "asked"
      /\ s.built = steps[k].built /\ s.left = steps[k].left /\ s.answered = steps[k].answered
  BY <1>1, <1>3 DEF StepStates, SameStep, Stages, Validations
<1> HIDE DEF s
<1>5. ActsAs(k, s)
  BY <1>1, <1>4 DEF ActsAs, seen
<1>6. GoesOn(k, s, panel)
  BY <1>1, <1>2, <1>4, <1>5 DEF GoesOn, Turns
<1> QED BY <1>1, <1>4, <1>6

(* Step k ends as s, with a receipt made of what next has.                   *)
EndsAs(k, s, next) ==
    /\ Turns(k, s) /\ s.at = "done" /\ Aside
    /\ IF s.task THEN task' \in {NoTask, [task EXCEPT !.at = "settling"]} ELSE task' = task
    /\ LET done == StepDone(next, k, s.no)
       IN panel' \in IF open THEN {done, LoopStopped(done)} ELSE {panel}

(* ... having done what step has.                                            *)
EndsWith(k, step, next) ==
    \E s : EndsAs(k, s, next) /\ Same(s, step) /\ s.image = step.image /\ s.box = step.box

LEMMA Ending ==
    ASSUME TypeOK, NEW k \in Steps, UnderWay(k), Aside, NEW next, NEW ok \in BOOLEAN,
           NEW step \in StepStates, SameStep(step, steps[k]), Ends(k, next, step, ok)
    PROVE  EndsWith(k, step, next)
<1> DEFINE s == [step EXCEPT !.at = "done"]
           done == StepDone(next, k, step.no)
<1>1. /\ s \in StepStates /\ SameStep(s, steps[k]) /\ s.at = "done" /\ s.no = step.no /\ s.task = step.task
      /\ Same(s, step) /\ s.image = step.image /\ s.box = step.box
  BY DEF StepStates, SameStep, Same, Stages
<1>2. steps' = [steps EXCEPT ![k] = s]
  BY DEF Ends
<1>3. /\ IF step.task THEN task' \in {NoTask, [task EXCEPT !.at = "settling"]} ELSE task' = task
      /\ panel' \in IF open THEN {done, LoopStopped(done)} ELSE {panel}
  <2>1. CASE ~step.task
    BY <2>1 DEF Ends, Shows
  <2>2. CASE step.task
    BY <2>2 DEF Ends, Shows
  <2> QED BY <2>1, <2>2
<1> HIDE DEF s
<1> QED BY <1>1, <1>2, <1>3 DEF EndsAs, Turns, EndsWith

(* Panel next is panel, or hears what became of k, and still agrees with it. *)
Fits(k, s, next) ==
    /\ next \in Panels
    /\ next = panel \/ Heard(next, panel, k)
    /\ Course(steps[k]) /\ Tells(panel.receipt, steps[k]) => Tells(next.receipt, s)
    /\ Agrees(panel) /\ (steps[k].at = "sanitize" => panel.gate.transmitted = "none") => Agrees(next)

EndsFor(k) == \E s, next : EndsAs(k, s, next) /\ ActsAs(k, s) /\ Fits(k, s, next)

(* A step that ends with no more to say of it.                               *)
LEMMA SilentEnds ==
    ASSUME TypeOK, NEW k \in Steps, UnderWay(k), Aside, NEW ok \in BOOLEAN, Ends(k, panel, steps[k], ok)
    PROVE  EndsFor(k)
<1>1. steps[k] \in StepStates /\ panel \in Panels /\ SameStep(steps[k], steps[k])
  BY DEF TypeOK, PanelOK, SameStep
<1>2a. EndsWith(k, steps[k], panel)
  BY <1>1, Ending
<1>2. PICK s : EndsAs(k, s, panel) /\ Same(s, steps[k]) /\ s.image = steps[k].image /\ s.box = steps[k].box
  BY <1>2a DEF EndsWith
<1>3. Told(s, steps[k]) /\ SameStep(s, steps[k])
  BY <1>2, SameTold DEF EndsAs, Turns
<1>4. Tells(panel.receipt, steps[k]) => Tells(panel.receipt, s)
  BY <1>3 DEF Tells, Told, SameStep
<1>5. ActsAs(k, s)
  BY <1>2 DEF ActsAs, Same
<1> QED BY <1>1, <1>2, <1>4, <1>5 DEF EndsFor, Fits

(* A step whose reply was refused.                                           *)
LEMMA RefusedEnds ==
    ASSUME TypeOK, NEW k \in Steps, UnderWay(k), Aside, steps[k].at = "judge", NEW ok \in BOOLEAN,
           Ends(k, ErrorOf(panel, k, "validate"), [steps[k] EXCEPT !.verdict = "fail"], ok)
    PROVE  EndsFor(k)
<1> DEFINE next == ErrorOf(panel, k, "validate")
           step == [steps[k] EXCEPT !.verdict = "fail"]
<1>1. steps[k] \in StepStates /\ panel \in Panels
  BY DEF TypeOK, PanelOK
<1>2. /\ step \in StepStates /\ SameStep(step, steps[k]) /\ step.verdict = "fail"
      /\ step.built = steps[k].built /\ step.left = steps[k].left /\ step.answered = steps[k].answered
      /\ step.act = steps[k].act /\ step.image = steps[k].image /\ step.box = steps[k].box
  BY <1>1 DEF StepStates, SameStep, Validations
<1> HIDE DEF step
<1>3a. EndsWith(k, step, next)
  BY <1>2, Ending DEF step
<1>3. PICK s : EndsAs(k, s, next) /\ Same(s, step) /\ s.image = step.image /\ s.box = step.box
  BY <1>3a DEF EndsWith
<1>4. /\ Heard(next, panel, k) /\ next.gate = panel.gate
      /\ next.receipt.redacted = panel.receipt.redacted
      /\ next.receipt.context = panel.receipt.context /\ next.receipt.picture = panel.receipt.picture
      /\ next.receipt.execution = panel.receipt.execution /\ next.receipt.validation = "fail"
  BY <1>1, Refusing
<1> HIDE DEF next
<1>5. next \in Panels /\ next.receipt.backend = panel.receipt.backend
  BY <1>4 DEF Heard
<1>6. SameStep(s, steps[k])
  BY <1>3 DEF EndsAs, Turns
<1>7. Course(steps[k]) /\ Tells(panel.receipt, steps[k]) => Tells(next.receipt, s)
  <2> SUFFICES ASSUME Course(steps[k]), Tells(panel.receipt, steps[k]) PROVE Tells(next.receipt, s)
    OBVIOUS
  <2>1. steps[k].act = NotReached
    BY DEF Course
  <2>2. ValidationOf(s) = "fail" /\ ExecutionOf(s) = ExecutionOf(steps[k])
    BY <1>2, <1>3, <2>1 DEF Same, ValidationOf, ExecutionOf, NotReached
  <2>3. ContextOf(s) = ContextOf(steps[k])
    BY <1>2, <1>3 DEF Same, ContextOf
  <2>4. PictureOf(s) = PictureOf(steps[k]) /\ (Lawful(s) <=> Lawful(steps[k]))
    BY <1>2, <1>3, <2>3 DEF Same, PictureOf, Lawful
  <2> QED BY <1>4, <1>5, <1>6, <2>2, <2>3, <2>4 DEF Tells, SameStep
<1>8. Agrees(panel) => Agrees(next)
  BY <1>4 DEF Agrees
<1>9. Fits(k, s, next)
  BY <1>4, <1>5, <1>7, <1>8 DEF Fits
<1>10. ActsAs(k, s)
  BY <1>2, <1>3 DEF ActsAs, Same
<1> QED BY <1>3, <1>9, <1>10 DEF EndsFor

LEMMA FailsEnds ==
    ASSUME TypeOK, NEW k \in Steps, NEW scope \in {"error", "validate"}, StepFails(k, scope)
    PROVE  EndsFor(k)
<1>1. UnderWay(k) /\ Aside
  BY Plainly DEF StepFails
<1>2. CASE scope = "validate"
  <2>1. steps[k].at = "judge" /\ Ends(k, ErrorOf(panel, k, "validate"), [steps[k] EXCEPT !.verdict = "fail"], FALSE)
    BY <1>2 DEF StepFails
  <2> QED BY <1>1, <2>1, RefusedEnds
<1>3. CASE scope # "validate"
  <2>1. ErrorOf(panel, k, scope) = panel
    BY <1>3, OtherErrors
  <2>2. Ends(k, ErrorOf(panel, k, scope), steps[k], FALSE)
    BY <1>3 DEF StepFails
  <2>3. Ends(k, panel, steps[k], FALSE)
    BY <2>1, <2>2
  <2> QED BY <1>1, <2>3, SilentEnds
<1> QED BY <1>2, <1>3

LEMMA BlockedEnds ==
    ASSUME TypeOK, NEW k \in Steps, NEW blocked \in BOOLEAN, blocked, Sanitizes(k, blocked)
    PROVE  EndsFor(k)
<1> DEFINE next == PrivacyVerified(ContextSent(panel, k, steps[k].image), k, blocked)
           step == [steps[k] EXCEPT !.built = "blocked"]
<1>1. /\ steps[k] \in StepStates /\ steps[k].image \in BOOLEAN /\ steps[k].at = "sanitize"
      /\ UnderWay(k) /\ Aside /\ panel \in Panels
  BY Plainly DEF TypeOK, PanelOK, Sanitizes, UnderWay, StepStates
<1>2. /\ step \in StepStates /\ SameStep(step, steps[k])
      /\ step.built = "blocked" /\ step.left = steps[k].left /\ step.answered = steps[k].answered
      /\ step.verdict = steps[k].verdict /\ step.act = steps[k].act
      /\ step.image = steps[k].image /\ step.box = steps[k].box
  BY <1>1 DEF StepStates, SameStep
<1>3. Ends(k, next, step, FALSE)
  <2>1. Ends(k, ErrorOf(next, k, "verify"), step, FALSE)
    BY DEF Sanitizes
  <2>2. ErrorOf(next, k, "verify") = next
    BY OtherErrors
  <2> QED BY <2>1, <2>2
<1> HIDE DEF step
<1>4a. EndsWith(k, step, next)
  BY <1>1, <1>2, <1>3, Ending
<1>4. PICK s : EndsAs(k, s, next) /\ Same(s, step) /\ s.image = step.image /\ s.box = step.box
  BY <1>4a DEF EndsWith
<1>5. SameStep(s, steps[k])
  BY <1>4 DEF EndsAs, Turns
<1>6. /\ Heard(next, panel, k)
      /\ next.receipt.redacted = panel.receipt.redacted /\ next.gate.redacted = panel.gate.redacted
      /\ next.receipt.context = "blocked" /\ next.receipt.picture = "blocked"
      /\ next.receipt.validation = panel.receipt.validation /\ next.receipt.execution = panel.receipt.execution
      /\ next.gate.bake = panel.gate.bake /\ next.gate.transmitted = panel.gate.transmitted
  <2> DEFINE image == steps[k].image
             q == PrivacyVerified(ContextSent(panel, k, image), k, blocked)
  <2>1. image \in BOOLEAN /\ panel \in Panels
    BY <1>1
  <2> HIDE DEF image
  <2>2. /\ Heard(q, panel, k)
        /\ q.receipt.redacted = panel.receipt.redacted /\ q.gate.redacted = panel.gate.redacted
        /\ q.receipt.context = (IF blocked THEN "blocked" ELSE NotChecked)
        /\ q.receipt.picture = (IF blocked THEN "blocked" ELSE IF image THEN NotChecked ELSE "verified-absent")
        /\ q.receipt.validation = panel.receipt.validation /\ q.receipt.execution = panel.receipt.execution
        /\ q.gate.bake = panel.gate.bake /\ q.gate.transmitted = panel.gate.transmitted
    BY ONLY <2>1, k \in Steps, blocked \in BOOLEAN, Preparing
  <2>3. q = next
    BY DEF image
  <2> HIDE DEF q, next
  <2> QED BY <2>2, <2>3
<1> HIDE DEF next
<1>7. next \in Panels /\ next.receipt.backend = panel.receipt.backend
  BY <1>6 DEF Heard
<1>8. Course(steps[k]) /\ Tells(panel.receipt, steps[k]) => Tells(next.receipt, s)
  <2> SUFFICES ASSUME Course(steps[k]), Tells(panel.receipt, steps[k]) PROVE Tells(next.receipt, s)
    OBVIOUS
  <2>1. ~steps[k].left /\ ~steps[k].answered
    BY <1>1 DEF Course
  <2>2. Lawful(s) /\ ContextOf(s) = "blocked" /\ PictureOf(s) = "blocked"
    BY <1>2, <1>4, <2>1 DEF Same, Lawful, ContextOf, PictureOf
  <2>3. ValidationOf(s) = ValidationOf(steps[k]) /\ ExecutionOf(s) = ExecutionOf(steps[k])
    BY <1>2, <1>4 DEF Same, ValidationOf, ExecutionOf
  <2> QED BY <1>5, <1>6, <1>7, <2>2, <2>3 DEF Tells, SameStep
<1>9. Agrees(panel) /\ panel.gate.transmitted = "none" => Agrees(next)
  BY <1>6 DEF Agrees
<1>10. Fits(k, s, next)
  BY <1>1, <1>6, <1>7, <1>8, <1>9 DEF Fits
<1>11. ActsAs(k, s)
  BY <1>2, <1>4 DEF ActsAs, Same
<1> QED BY <1>4, <1>10, <1>11 DEF EndsFor

LEMMA AsksEnds ==
    ASSUME TypeOK, NEW k \in Steps, AsksUser(k)
    PROVE  EndsFor(k)
<1>1. UnderWay(k) /\ Aside /\ Ends(k, panel, steps[k], TRUE)
  BY Plainly DEF AsksUser, UnderWay
<1> QED BY <1>1, SilentEnds

LEMMA RefusesEnds ==
    ASSUME TypeOK, NEW k \in Steps, Refuses(k)
    PROVE  EndsFor(k)
<1>1. UnderWay(k) /\ Aside /\ steps[k].at = "judge"
  BY Plainly DEF Refuses, UnderWay
<1>2. Ends(k, ErrorOf(panel, k, "validate"), [steps[k] EXCEPT !.verdict = "fail"], TRUE)
  BY DEF Refuses
<1> QED BY <1>1, <1>2, RefusedEnds

(* What the panel makes of an action that was not refused, if the step did   *)
(* with it what it says.                                                     *)
LEMMA Acted ==
    ASSUME TypeOK, NEW k \in Steps, NEW how \in Executions, how # NotReached, NEW s, SameStep(s, steps[k]),
           s.built = steps[k].built, s.left = steps[k].left, s.answered = steps[k].answered,
           s.image = steps[k].image, s.verdict = "pass", s.act = how
    PROVE  Fits(k, s, ActionExecuted(panel, k, how))
<1> DEFINE next == ActionExecuted(panel, k, how)
<1>1. panel \in Panels /\ how # "asked"
  BY DEF TypeOK, PanelOK, Executions, NotReached
<1>2. /\ Heard(next, panel, k) /\ next.gate = panel.gate
      /\ next.receipt.redacted = panel.receipt.redacted
      /\ next.receipt.context = panel.receipt.context /\ next.receipt.picture = panel.receipt.picture
      /\ next.receipt.execution = how
      /\ next.receipt.validation = (IF panel.receipt.validation = "fail" THEN "fail" ELSE "pass")
  BY <1>1, Acting
<1> HIDE DEF next
<1>3. next \in Panels /\ next.receipt.backend = panel.receipt.backend
  BY <1>2 DEF Heard
<1>4. Course(steps[k]) /\ Tells(panel.receipt, steps[k]) => Tells(next.receipt, s)
  <2> SUFFICES ASSUME Course(steps[k]), Tells(panel.receipt, steps[k]) PROVE Tells(next.receipt, s)
    OBVIOUS
  <2>1. ValidationOf(steps[k]) = NotReached
    BY Underway
  <2>2. panel.receipt.validation # "fail"
    BY <2>1 DEF Tells, NotReached
  <2>3. ValidationOf(s) = "pass" /\ ExecutionOf(s) = how
    BY <1>1 DEF ValidationOf, ExecutionOf
  <2>4. ContextOf(s) = ContextOf(steps[k])
    BY DEF ContextOf
  <2>5. PictureOf(s) = PictureOf(steps[k]) /\ (Lawful(s) <=> Lawful(steps[k]))
    BY <2>4 DEF PictureOf, Lawful
  <2> QED BY <1>2, <1>3, <2>2, <2>3, <2>4, <2>5 DEF Tells, SameStep
<1>5. Agrees(panel) => Agrees(next)
  BY <1>2 DEF Agrees
<1>6. Fits(k, s, next)
  BY <1>2, <1>3, <1>4, <1>5 DEF Fits
<1> QED BY <1>6 DEF next

LEMMA WithholdsEnds ==
    ASSUME TypeOK, NEW k \in Steps, Withholds(k)
    PROVE  EndsFor(k)
<1> DEFINE next == ActionExecuted(panel, k, "withheld")
           seen == BoxSeen
           step == [steps[k] EXCEPT !.verdict = "pass", !.act = "withheld", !.box = seen]
<1>1. steps[k] \in StepStates /\ steps[k].withheld /\ UnderWay(k) /\ Aside
  BY Plainly DEF TypeOK, Withholds, UnderWay
<1>2. Ends(k, next, step, TRUE)
  BY DEF Withholds
<1>3. seen \in {"unseen", "on", "off"} /\ "withheld" \in Executions /\ "withheld" # NotReached
  BY DEF BoxSeen, Executions, NotReached
<1> HIDE DEF seen
<1>4. /\ step \in StepStates /\ SameStep(step, steps[k])
      /\ step.built = steps[k].built /\ step.left = steps[k].left /\ step.answered = steps[k].answered
      /\ step.image = steps[k].image /\ step.verdict = "pass" /\ step.act = "withheld" /\ step.box = seen
  BY <1>1, <1>3 DEF StepStates, SameStep, Validations
<1> HIDE DEF step, next
<1>5a. EndsWith(k, step, next)
  BY <1>1, <1>2, <1>4, Ending
<1>5. PICK s : EndsAs(k, s, next) /\ Same(s, step) /\ s.image = step.image /\ s.box = step.box
  BY <1>5a DEF EndsWith
<1>6. /\ SameStep(s, steps[k]) /\ s.built = steps[k].built /\ s.left = steps[k].left
      /\ s.answered = steps[k].answered /\ s.image = steps[k].image
      /\ s.verdict = "pass" /\ s.act = "withheld" /\ s.box = seen
  BY <1>4, <1>5 DEF EndsAs, Turns, Same
<1>7. Fits(k, s, next)
  BY <1>3, <1>6, Acted DEF next
<1>8. ActsAs(k, s)
  BY <1>1, <1>6 DEF ActsAs, seen
<1> QED BY <1>5, <1>7, <1>8 DEF EndsFor

LEMMA ExecutesEnds ==
    ASSUME TypeOK, NEW k \in Steps, NEW how \in {"pass", "fail"}, Executes(k, how)
    PROVE  EndsFor(k)
<1> DEFINE next == ActionExecuted(panel, k, how)
           step == [steps[k] EXCEPT !.act = how]
<1>1. /\ steps[k] \in StepStates /\ steps[k].at = "execute" /\ UnderWay(k) /\ Aside
      /\ how \in Executions /\ how # NotReached /\ how # "withheld"
  <2>1. Aside
    BY Plainly DEF Executes
  <2> QED BY <2>1 DEF TypeOK, Executes, UnderWay, Executions, NotReached
<1>2. Ends(k, next, step, TRUE)
  BY DEF Executes
<1>3. /\ step \in StepStates /\ SameStep(step, steps[k])
      /\ step.built = steps[k].built /\ step.left = steps[k].left /\ step.answered = steps[k].answered
      /\ step.image = steps[k].image /\ step.verdict = steps[k].verdict /\ step.act = how
      /\ step.box = steps[k].box
  BY <1>1 DEF StepStates, SameStep
<1> HIDE DEF step, next
<1>4a. EndsWith(k, step, next)
  BY <1>1, <1>2, <1>3, Ending
<1>4. PICK s : EndsAs(k, s, next) /\ Same(s, step) /\ s.image = step.image /\ s.box = step.box
  BY <1>4a DEF EndsWith
<1>5. /\ SameStep(s, steps[k]) /\ s.built = steps[k].built /\ s.left = steps[k].left
      /\ s.answered = steps[k].answered /\ s.image = steps[k].image
      /\ s.verdict = steps[k].verdict /\ s.act = how /\ s.box = steps[k].box
  BY <1>3, <1>4 DEF EndsAs, Turns, Same
<1>6. Fits(k, s, next)
  <2>1. CASE Course(steps[k])
    <3>1. s.verdict = "pass"
      BY <1>1, <1>5, <2>1 DEF Course
    <3> QED BY <1>1, <1>5, <3>1, Acted DEF next
  <2>2. CASE ~Course(steps[k])
    <3>1. /\ Heard(next, panel, k) /\ next.gate = panel.gate
          /\ next.receipt.redacted = panel.receipt.redacted
          /\ next.receipt.context = panel.receipt.context /\ next.receipt.picture = panel.receipt.picture
      BY <1>1, Acting DEF TypeOK, PanelOK, next
    <3> QED BY <2>2, <3>1 DEF Fits, Heard, Agrees
  <2> QED BY <2>1, <2>2
<1>7. ActsAs(k, s)
  BY <1>1, <1>5 DEF ActsAs
<1> QED BY <1>4, <1>6, <1>7 DEF EndsFor

-----------------------------------------------------------------------------
(* Step k begins as s: the task's, or a single one.                          *)
BeginsAs(k, s) ==
    /\ IsNext(k) /\ s \in StepStates /\ steps' = [steps EXCEPT ![k] = s]
    /\ s.at = "snapshot" /\ Course(s) /\ s.box = "unseen"
    /\ UNCHANGED <<backend, open, planOnly, ready, early>>
    /\ upsets' \in 0 .. MaxUpsets /\ stepCounter' \in Nat
    /\ crossed' \in BOOLEAN
    /\ ~crossed' => /\ ~crossed /\ \A j \in Steps : ~UnderWay(j)
                    /\ s.task \/ task.at \in {"off", "entering"}

TaskBegins(k, s) ==
    /\ BeginsAs(k, s) /\ s.task
    /\ task.at \in {"entering", "between"}
    /\ task' \in Tasks /\ task'.at = "stepping" /\ task'.no > 0 /\ s.no = task'.no
    /\ s.withheld = task'.withheld /\ s.toggled = task'.toggled
    /\ IF task.at = "entering"
       THEN ready = "done" /\ task'.withheld = planOnly.memory
       ELSE task'.withheld = task.withheld /\ task'.toggled = task.toggled
    /\ panel' = IF open THEN LoopStep(panel) ELSE panel

StepBegins(k, s) ==
    /\ BeginsAs(k, s) /\ ~s.task
    /\ task' = task /\ ready = "done" /\ s.withheld = planOnly.memory
    /\ panel' = IF open THEN BackendSelected(panel, backend) ELSE panel

LEMMA New ==
    ASSUME TypeOK, NEW k \in Steps, NEW by \in Tasks, NEW no \in Nat, NEW kind \in Kinds, Begins(k, by, no, kind)
    PROVE  \E s : /\ s \in StepStates /\ steps' = [steps EXCEPT ![k] = s]
                  /\ s.at = "snapshot" /\ Course(s) /\ s.box = "unseen"
                  /\ s.task = (by # NoTask) /\ s.no = no
                  /\ s.withheld = Withheld(by) /\ s.toggled = by.toggled
                  /\ crossed' \in BOOLEAN /\ upsets' \in 0 .. MaxUpsets
                  /\ ~crossed' => /\ ~crossed /\ \A j \in Steps : ~UnderWay(j)
                                  /\ s.task \/ task.at \in {"off", "entering"}
<1> DEFINE withheld == Withheld(by)
           byTask == by # NoTask
           moved == kind # backend
           s == [NoStep EXCEPT !.at = "snapshot", !.task = byTask, !.no = no, !.kind = kind,
                               !.moved = moved, !.withheld = withheld, !.toggled = by.toggled]
<1>1. withheld \in BOOLEAN /\ by.toggled \in BOOLEAN /\ byTask \in BOOLEAN /\ moved \in BOOLEAN
  BY DEF Withheld, TypeOK, SettingsOK, Tasks
<1>2. steps' = [steps EXCEPT ![k] = s]
  BY DEF Begins
<1>3. /\ upsets' \in 0 .. MaxUpsets /\ crossed' \in BOOLEAN
      /\ ~crossed' => /\ ~crossed /\ \A j \in Steps : ~UnderWay(j)
                      /\ byTask \/ task.at \in {"off", "entering"}
  <2> DEFINE alone == \A j \in Steps : ~UnderWay(j)
             first == alone /\ (byTask \/ task.at \in {"off", "entering"})
  <2>1. crossed' = (crossed \/ ~first) /\ (IF first THEN UNCHANGED upsets ELSE Upset)
    BY DEF Begins
  <2>2. upsets' \in 0 .. MaxUpsets
    <3>1. CASE first
      BY <2>1, <3>1 DEF TypeOK
    <3>2. CASE ~first
      BY <2>1, <3>2, Counted
    <3> QED BY <3>1, <3>2
  <2>3. crossed' \in BOOLEAN
    BY <2>1
  <2> QED BY <2>1, <2>2, <2>3
<1>4. kind = backend \/ moved
  OBVIOUS
<1> HIDE DEF withheld, byTask, moved
<1>5. /\ s \in StepStates /\ s.at = "snapshot" /\ s.box = "unseen" /\ s.task = byTask /\ s.no = no
      /\ s.withheld = withheld /\ s.toggled = by.toggled /\ s.kind = kind /\ s.moved = moved
      /\ s.verdict = NotReached /\ s.act = NotReached
      /\ s.built = "none" /\ ~s.left /\ ~s.answered /\ ~s.image
  BY <1>1, ZenonT(60) DEF NoStep, StepStates, Stages, Validations, Executions
<1> HIDE DEF s
<1>6. Course(s)
  BY <1>4, <1>5 DEF Course
<1> QED BY <1>2, <1>3, <1>5, <1>6 DEF withheld, byTask

LEMMA TaskStepsBegin ==
    ASSUME TypeOK, NEW k \in Steps, TaskSteps(k)
    PROVE  \E s : TaskBegins(k, s)
<1> DEFINE now == IF task.at = "entering"
                  THEN [task EXCEPT !.kind = backend, !.withheld = planOnly.memory] ELSE task
           next == [now EXCEPT !.at = "stepping", !.no = @ + 1]
<1>1. /\ task \in Tasks /\ backend \in Kinds /\ planOnly.memory \in BOOLEAN
      /\ IsNext(k) /\ task.at \in {"entering", "between"} /\ (task.at = "entering" => ready = "done")
      /\ UNCHANGED <<backend, stepCounter, open, planOnly, ready, early>>
  BY DEF TypeOK, SettingsOK, TaskSteps, settings
<1>2. task' = next /\ Begins(k, now, now.no + 1, now.kind)
  BY DEF TaskSteps
<1>3. /\ now \in Tasks /\ now.at = task.at /\ now.no = task.no /\ now.toggled = task.toggled
      /\ now.withheld = IF task.at = "entering" THEN planOnly.memory ELSE task.withheld
  <2>1. CASE task.at = "entering"
    BY <1>1, <2>1 DEF Tasks
  <2>2. CASE task.at # "entering"
    BY <1>1, <2>2
  <2> QED BY <2>1, <2>2
<1>4. panel' = IF open THEN LoopStep(panel) ELSE panel
  BY DEF TaskSteps, Shows
<1> HIDE DEF now
<1>5. /\ next \in Tasks /\ next.at = "stepping" /\ next.no = now.no + 1 /\ next.no > 0
      /\ next.withheld = now.withheld /\ next.toggled = now.toggled
  <2> DEFINE m == now.no + 1
  <2>1. m \in Nat /\ m > 0
    BY <1>3 DEF Tasks
  <2>2. next = [now EXCEPT !.at = "stepping", !.no = m]
    BY <1>3 DEF Tasks
  <2> HIDE DEF next, m
  <2>3. /\ next \in Tasks /\ next.at = "stepping" /\ next.no = m
        /\ next.withheld = now.withheld /\ next.toggled = now.toggled
    BY <1>3, <2>1, <2>2 DEF Tasks
  <2> QED BY <2>1, <2>3 DEF m
<1>6. now # NoTask /\ Withheld(now) = now.withheld
  BY <1>1, <1>3 DEF NoTask, Withheld
<1>7. now.no + 1 \in Nat /\ now.kind \in Kinds
  BY <1>3 DEF Tasks
<1>8. PICK s : /\ s \in StepStates /\ steps' = [steps EXCEPT ![k] = s]
               /\ s.at = "snapshot" /\ Course(s) /\ s.box = "unseen"
               /\ s.task = (now # NoTask) /\ s.no = now.no + 1
               /\ s.withheld = Withheld(now) /\ s.toggled = now.toggled
               /\ crossed' \in BOOLEAN /\ upsets' \in 0 .. MaxUpsets
               /\ ~crossed' => /\ ~crossed /\ \A j \in Steps : ~UnderWay(j)
                               /\ s.task \/ task.at \in {"off", "entering"}
  BY <1>2, <1>3, <1>7, New
<1> HIDE DEF next
<1>9. BeginsAs(k, s)
  BY <1>1, <1>8 DEF BeginsAs, TypeOK
<1>10. s.task
  BY <1>6, <1>8
<1>11. /\ task' \in Tasks /\ task'.at = "stepping" /\ task'.no > 0 /\ s.no = task'.no
       /\ s.withheld = task'.withheld /\ s.toggled = task'.toggled
  BY <1>2, <1>5, <1>6, <1>8
<1>12. IF task.at = "entering"
       THEN ready = "done" /\ task'.withheld = planOnly.memory
       ELSE task'.withheld = task.withheld /\ task'.toggled = task.toggled
  BY <1>1, <1>2, <1>3, <1>5
<1> QED BY <1>1, <1>4, <1>9, <1>10, <1>11, <1>12 DEF TaskBegins

LEMMA StepAskedBegins ==
    ASSUME TypeOK, NEW k \in Steps, StepAsked(k)
    PROVE  \E s : StepBegins(k, s)
<1>1. /\ NoTask \in Tasks /\ stepCounter + 1 \in Nat /\ stepCounter' = stepCounter + 1 /\ backend \in Kinds
      /\ IsNext(k) /\ ready = "done" /\ task' = task
      /\ UNCHANGED <<backend, open, planOnly, ready, early>>
  BY DEF TypeOK, NoTask, Tasks, Kinds, StepAsked, settings
<1>2. Begins(k, NoTask, stepCounter + 1, backend)
  BY DEF StepAsked
<1>3. panel' = IF open THEN BackendSelected(panel, backend) ELSE panel
  BY DEF StepAsked, Shows
<1>4. PICK s : /\ s \in StepStates /\ steps' = [steps EXCEPT ![k] = s]
               /\ s.at = "snapshot" /\ Course(s) /\ s.box = "unseen"
               /\ s.task = (NoTask # NoTask) /\ s.no = stepCounter + 1
               /\ s.withheld = Withheld(NoTask) /\ s.toggled = NoTask.toggled
               /\ crossed' \in BOOLEAN /\ upsets' \in 0 .. MaxUpsets
               /\ ~crossed' => /\ ~crossed /\ \A j \in Steps : ~UnderWay(j)
                               /\ s.task \/ task.at \in {"off", "entering"}
  BY <1>1, <1>2, New
<1>5. ~s.task /\ s.withheld = planOnly.memory
  BY <1>4 DEF Withheld
<1>6. BeginsAs(k, s)
  BY <1>1, <1>4 DEF BeginsAs
<1> QED BY <1>1, <1>3, <1>5, <1>6 DEF StepBegins

-----------------------------------------------------------------------------
(* The cases of a step of the system.                                        *)

Advances(k) ==
    \/ Captures(k) \/ Redacts(k) \/ Requests(k) \/ Plans(k) \/ CallsExecute(k)
    \/ \E bake \in {"none", "landed", "short"} : Bakes(k, bake)
    \/ \E blocked \in BOOLEAN : ~blocked /\ Sanitizes(k, blocked)

LEMMA Cases ==
    ASSUME TypeOK, [Next]_vars
    PROVE  \/ UNCHANGED vars
           \/ PanelOpens \/ PanelCloses \/ RestoreReads \/ RestoreLands
           \/ \E on \in BOOLEAN : PlanOnlySet(on)
           \/ \E kind \in Kinds, locked \in BOOLEAN : Switches(kind, locked)
           \/ TaskAsked \/ TaskRefused \/ TaskStops \/ TaskThrows \/ Evicted
           \/ \E changed \in BOOLEAN : TaskVerifies(changed)
           \/ \E k \in Steps : \/ \E s : TaskBegins(k, s)
                               \/ \E s : StepBegins(k, s)
                               \/ Advances(k)
                               \/ EndsFor(k)
<1>1. SUFFICES ASSUME NEW k \in Steps,
                      \/ TaskSteps(k) \/ StepAsked(k)
                      \/ \E scope \in {"error", "validate"} : StepFails(k, scope)
                      \/ Captures(k) \/ Redacts(k) \/ AsksUser(k) \/ Requests(k) \/ Plans(k) \/ Refuses(k)
                      \/ Withholds(k) \/ CallsExecute(k)
                      \/ \E bake \in {"none", "landed", "short"} : Bakes(k, bake)
                      \/ \E blocked \in BOOLEAN : Sanitizes(k, blocked)
                      \/ \E how \in {"pass", "fail"} : Executes(k, how)
               PROVE  \/ \E s : TaskBegins(k, s)
                      \/ \E s : StepBegins(k, s)
                      \/ Advances(k)
                      \/ EndsFor(k)
  BY DEF Next
<1>2. CASE TaskSteps(k) \/ StepAsked(k)
  BY <1>2, TaskStepsBegin, StepAskedBegins
<1>3. CASE \E scope \in {"error", "validate"} : StepFails(k, scope)
  BY <1>3, FailsEnds
<1>4. CASE \E blocked \in BOOLEAN : Sanitizes(k, blocked)
  <2>1. PICK blocked \in BOOLEAN : Sanitizes(k, blocked)
    BY <1>4
  <2>2. CASE blocked
    BY <2>1, <2>2, BlockedEnds
  <2>3. CASE ~blocked
    BY <2>1, <2>3 DEF Advances
  <2> QED BY <2>2, <2>3
<1>5. CASE \/ Captures(k) \/ Redacts(k) \/ Requests(k) \/ Plans(k) \/ CallsExecute(k)
           \/ \E bake \in {"none", "landed", "short"} : Bakes(k, bake)
  BY <1>5 DEF Advances
<1>6. CASE AsksUser(k) \/ Refuses(k) \/ Withholds(k)
  BY <1>6, AsksEnds, RefusesEnds, WithholdsEnds
<1>7. CASE \E how \in {"pass", "fail"} : Executes(k, how)
  BY <1>7, ExecutesEnds
<1> QED BY <1>1, <1>2, <1>3, <1>4, <1>5, <1>6, <1>7

(* Whatever a step goes on with, the receipts that are sealed stay.          *)
GoesFor(k) ==
    \E s, next : /\ GoesOn(k, s, next)
                 /\ s.at \in {"redact", "bake", "sanitize", "plan", "asking", "judge", "execute"}
                 /\ next \in Panels /\ next.receipts = panel.receipts

LEMMA AdvancesGoes ==
    ASSUME TypeOK, NEW k \in Steps, Advances(k)
    PROVE  GoesFor(k)
<1>1. panel \in Panels /\ steps[k] \in StepStates /\ steps[k].image \in BOOLEAN
  BY DEF TypeOK, PanelOK, StepStates
<1>2. CASE Captures(k)
  <2>1. FrameCaptured(panel, k) \in Panels /\ FrameCaptured(panel, k).receipts = panel.receipts
    BY <1>1, Began
  <2>2. PICK s : GoesOn(k, s, FrameCaptured(panel, k)) /\ s.at = "redact"
    BY <1>2, CapturesGoes
  <2> QED BY <2>1, <2>2 DEF GoesFor
<1>3. CASE Redacts(k)
  <2>1. RedactionDone(panel, k) \in Panels /\ RedactionDone(panel, k).receipts = panel.receipts
    BY <1>1, Redaction DEF Heard
  <2>2. PICK s : GoesOn(k, s, RedactionDone(panel, k)) /\ s.at \in {"bake", "sanitize"}
    BY <1>3, RedactsGoes
  <2> QED BY <2>1, <2>2 DEF GoesFor
<1>4. CASE Plans(k)
  <2> DEFINE off == OffDevice(steps[k].kind)
  <2>1. off \in BOOLEAN
    BY DEF OffDevice
  <2>2. PICK s : GoesOn(k, s, ContextTransmitted(panel, k, off)) /\ s.at = "judge"
    BY <1>4, PlansGoes
  <2> HIDE DEF off
  <2>3. /\ ContextTransmitted(panel, k, off) \in Panels
        /\ ContextTransmitted(panel, k, off).receipts = panel.receipts
    BY <1>1, <2>1, Transmission DEF Heard
  <2> QED BY <2>2, <2>3 DEF GoesFor
<1>5. CASE \E bake \in {"none", "landed", "short"} : Bakes(k, bake)
  <2>1. PICK bake \in {"none", "landed", "short"} : Bakes(k, bake)
    BY <1>5
  <2> DEFINE next == IF bake = "none" THEN panel ELSE BakeDone(panel, k, bake)
  <2>2. BakeDone(panel, k, bake) \in Panels /\ BakeDone(panel, k, bake).receipts = panel.receipts
    BY <1>1, Baking DEF Heard
  <2>3. next \in Panels /\ next.receipts = panel.receipts
    BY <1>1, <2>2
  <2>4. PICK s : GoesOn(k, s, next) /\ s.at = "sanitize"
    BY <2>1, BakesGoes
  <2> HIDE DEF next
  <2> QED BY <2>3, <2>4 DEF GoesFor
<1>6. CASE \E blocked \in BOOLEAN : ~blocked /\ Sanitizes(k, blocked)
  <2>1. PICK blocked \in BOOLEAN : ~blocked /\ Sanitizes(k, blocked)
    BY <1>6
  <2> DEFINE next == PrivacyVerified(ContextSent(panel, k, steps[k].image), k, blocked)
  <2>2. PICK s : GoesOn(k, s, next) /\ s.at = "plan"
    BY <2>1, SanitizesGoes
  <2>3. next \in Panels /\ next.receipts = panel.receipts
    BY <1>1, Preparing DEF Heard
  <2> HIDE DEF next
  <2> QED BY <2>2, <2>3 DEF GoesFor
<1>7. CASE Requests(k) \/ CallsExecute(k)
  BY <1>1, <1>7, RequestsGoes, CallsGoes DEF GoesFor
<1> QED BY <1>2, <1>3, <1>4, <1>5, <1>6, <1>7 DEF Advances

-----------------------------------------------------------------------------
(* Types, and the order of the steps.                                        *)

(* The same step, but for what a command of the panel marks in it.           *)
Alike(s, t) ==
    /\ s \in StepStates
    /\ s.at = t.at /\ s.task = t.task /\ s.no = t.no /\ s.kind = t.kind
    /\ Same(s, t) /\ s.image = t.image
    /\ s.withheld = t.withheld /\ s.box = t.box

LEMMA AlikeTold ==
    ASSUME NEW s, NEW t, Alike(s, t)
    PROVE  Told(s, t)
BY SameTold DEF Alike

LEMMA Toggled ==
    ASSUME TypeOK, NEW on \in BOOLEAN, PlanOnlySet(on)
    PROVE  /\ steps' \in [Steps -> StepStates]
           /\ \A k \in Steps :
                  /\ Alike(steps'[k], steps[k]) /\ steps'[k].moved = steps[k].moved
                  /\ IF UnderWay(k) THEN steps'[k].toggled ELSE steps'[k] = steps[k]
<1>1. steps \in [Steps -> StepStates]
  BY DEF TypeOK
<1>2. steps' = [k \in Steps |-> IF UnderWay(k) THEN [steps[k] EXCEPT !.toggled = TRUE] ELSE steps[k]]
  BY DEF PlanOnlySet
<1>3. ASSUME NEW k \in Steps
      PROVE  /\ Alike(steps'[k], steps[k]) /\ steps'[k].moved = steps[k].moved
             /\ IF UnderWay(k) THEN steps'[k].toggled ELSE steps'[k] = steps[k]
  <2> DEFINE s == [steps[k] EXCEPT !.toggled = TRUE]
  <2>1. steps[k] \in StepStates
    BY <1>1
  <2>2. Alike(s, steps[k]) /\ s.moved = steps[k].moved /\ s.toggled = TRUE
    BY <2>1 DEF Alike, Same, StepStates
  <2>3. steps'[k] = IF UnderWay(k) THEN s ELSE steps[k]
    BY <1>2
  <2>4. Alike(steps[k], steps[k])
    BY <2>1 DEF Alike, Same
  <2> HIDE DEF s
  <2> QED BY <2>2, <2>3, <2>4
<1>4. steps' \in [Steps -> StepStates]
  <2>1. \A k \in Steps : steps'[k] \in StepStates
    BY <1>3 DEF Alike
  <2> QED BY <1>2, <2>1
<1> QED BY <1>3, <1>4

LEMMA Moved ==
    ASSUME TypeOK, NEW kind \in Kinds, NEW locked \in BOOLEAN, Switches(kind, locked)
    PROVE  /\ steps' \in [Steps -> StepStates]
           /\ \A k \in Steps :
                  /\ Alike(steps'[k], steps[k]) /\ steps'[k].toggled = steps[k].toggled
                  /\ IF UnderWay(k) THEN steps'[k].moved ELSE steps'[k] = steps[k]
<1>1. steps \in [Steps -> StepStates]
  BY DEF TypeOK
<1>2. steps' = [k \in Steps |-> IF UnderWay(k) THEN [steps[k] EXCEPT !.moved = TRUE] ELSE steps[k]]
  BY DEF Switches
<1>3. ASSUME NEW k \in Steps
      PROVE  /\ Alike(steps'[k], steps[k]) /\ steps'[k].toggled = steps[k].toggled
             /\ IF UnderWay(k) THEN steps'[k].moved ELSE steps'[k] = steps[k]
  <2> DEFINE s == [steps[k] EXCEPT !.moved = TRUE]
  <2>1. steps[k] \in StepStates
    BY <1>1
  <2>2. Alike(s, steps[k]) /\ s.toggled = steps[k].toggled /\ s.moved = TRUE
    BY <2>1 DEF Alike, Same, StepStates
  <2>3. steps'[k] = IF UnderWay(k) THEN s ELSE steps[k]
    BY <1>2
  <2>4. Alike(steps[k], steps[k])
    BY <2>1 DEF Alike, Same
  <2> HIDE DEF s
  <2> QED BY <2>2, <2>3, <2>4
<1>4. steps' \in [Steps -> StepStates]
  <2>1. \A k \in Steps : steps'[k] \in StepStates
    BY <1>3 DEF Alike
  <2> QED BY <1>2, <2>1
<1> QED BY <1>3, <1>4

(* An eviction ends what was under way.                                      *)
LEMMA Cut ==
    ASSUME TypeOK, Evicted
    PROVE  /\ steps' \in [Steps -> StepStates]
           /\ \A k \in Steps :
                  /\ steps'[k].at \in {"off", "done"} /\ (steps'[k].at = "off" <=> steps[k].at = "off")
                  /\ steps'[k].task = steps[k].task /\ steps'[k].box = steps[k].box
                  /\ steps'[k].act = steps[k].act /\ steps'[k].toggled = steps[k].toggled
                  /\ ~UnderWay(k) => steps'[k] = steps[k]
<1>1. steps \in [Steps -> StepStates]
  BY DEF TypeOK
<1>2. steps' = [k \in Steps |-> IF UnderWay(k) THEN [steps[k] EXCEPT !.at = "done"] ELSE steps[k]]
  BY DEF Evicted
<1>3. ASSUME NEW k \in Steps
      PROVE  /\ steps'[k] \in StepStates
             /\ steps'[k].at \in {"off", "done"} /\ (steps'[k].at = "off" <=> steps[k].at = "off")
             /\ steps'[k].task = steps[k].task /\ steps'[k].box = steps[k].box
             /\ steps'[k].act = steps[k].act /\ steps'[k].toggled = steps[k].toggled
             /\ ~UnderWay(k) => steps'[k] = steps[k]
  <2> DEFINE s == [steps[k] EXCEPT !.at = "done"]
  <2>1. steps[k] \in StepStates
    BY <1>1
  <2>2. /\ s \in StepStates /\ s.at = "done" /\ s.task = steps[k].task /\ s.box = steps[k].box
        /\ s.act = steps[k].act /\ s.toggled = steps[k].toggled
    BY <2>1 DEF StepStates, Stages
  <2>3. steps'[k] = IF UnderWay(k) THEN s ELSE steps[k]
    BY <1>2
  <2> HIDE DEF s
  <2>4. CASE UnderWay(k)
    BY <2>2, <2>3, <2>4 DEF UnderWay
  <2>5. CASE ~UnderWay(k)
    BY <2>1, <2>3, <2>5 DEF UnderWay
  <2> QED BY <2>4, <2>5
<1>4. steps' \in [Steps -> StepStates]
  <2>1. \A k \in Steps : steps'[k] \in StepStates
    BY <1>3
  <2> QED BY <1>2, <2>1
<1> QED BY <1>3, <1>4

(* There is one last step of tasks.                                          *)
LEMMA Latest ==
    ASSUME NEW k \in Steps, IsLast(k)
    PROVE  LastStep = k
<1>1. \A j \in Steps : IsLast(j) => j = k
  BY SessionAssumption DEF IsLast
<1>2. LastStep = CHOOSE j \in Steps : IsLast(j)
  BY DEF LastStep, IsLast
<1> QED BY <1>1, <1>2

LEMMA TypeInit == Init => TypeOK
<1> SUFFICES ASSUME Init PROVE TypeOK
  OBVIOUS
<1>1. /\ InitialPanel \in Panels /\ Len(InitialPanel.receipts) = 0
  BY Opening
<1>2. panel \in Panels /\ panel.receipts = InitialPanel.receipts /\ backend \in Kinds
  <2>1. backend \in Kinds /\ panel = BackendSelected(InitialPanel, backend)
    BY DEF Init, Opened
  <2> QED BY <1>1, <2>1, Selecting
<1>3. PanelOK
  BY <1>1, <1>2, PanelAssumption DEF PanelOK
<1>4. NoStep \in StepStates /\ NoTask \in Tasks
  BY DEF NoStep, NoTask, StepStates, Tasks, Stages, Claims, Validations, Executions, Kinds
<1>5. task \in Tasks /\ steps \in [Steps -> StepStates]
  BY <1>4 DEF Init
<1>6. SettingsOK
  BY DEF Init, SettingsOK
<1>7. stepCounter \in Nat /\ open \in BOOLEAN /\ upsets \in 0 .. MaxUpsets /\ crossed \in BOOLEAN
  <2>1. stepCounter = 0 /\ upsets = 0 /\ open = TRUE /\ crossed = FALSE
    BY DEF Init
  <2>2. 0 \in 0 .. MaxUpsets
    BY SessionAssumption
  <2> QED BY <2>1, <2>2
<1> QED BY <1>2, <1>3, <1>5, <1>6, <1>7 DEF TypeOK

LEMMA Replaced ==
    ASSUME TypeOK, NEW k \in Steps, NEW s \in StepStates, steps' = [steps EXCEPT ![k] = s]
    PROVE  /\ steps' \in [Steps -> StepStates] /\ steps'[k] = s
           /\ \A j \in Steps : j # k => steps'[j] = steps[j]
<1>1. steps \in [Steps -> StepStates]
  BY DEF TypeOK
<1> QED BY <1>1

(* What becomes of the panel when a step ends.                               *)
LEMMA Closing ==
    ASSUME TypeOK, NEW k \in Steps, NEW s \in StepStates, NEW next \in Panels,
           next.receipts = panel.receipts, EndsAs(k, s, next)
    PROVE  /\ panel' \in Panels /\ Len(panel'.receipts) <= MaxReceipts
           /\ IF ~open THEN panel' = panel
              ELSE /\ panel'.deployment = next.deployment /\ panel'.gate = next.gate
                   /\ SealedAs(panel'.receipt, next, k, s.no)
                   /\ panel'.receipts # <<>> /\ panel'.receipts[Len(panel'.receipts)] = panel'.receipt
                   /\ \A i \in 1 .. Len(panel'.receipts) :
                          \/ panel'.receipts[i] = panel'.receipt
                          \/ \E j \in 1 .. Len(panel.receipts) : panel'.receipts[i] = panel.receipts[j]
<1> DEFINE done == StepDone(next, k, s.no)
<1>1. panel \in Panels /\ Len(panel.receipts) <= MaxReceipts /\ s.no \in Nat
  BY DEF TypeOK, PanelOK, StepStates
<1>2. panel' \in IF open THEN {done, LoopStopped(done)} ELSE {panel}
  BY DEF EndsAs
<1>3. /\ done \in Panels /\ done.deployment = next.deployment /\ done.gate = next.gate
      /\ SealedAs(done.receipt, next, k, s.no)
      /\ Len(done.receipts) <= MaxReceipts /\ done.receipts # <<>>
      /\ done.receipts[Len(done.receipts)] = done.receipt
      /\ \A i \in 1 .. Len(done.receipts) :
             done.receipts[i] = done.receipt \/ \E j \in 1 .. Len(panel.receipts) : done.receipts[i] = panel.receipts[j]
  BY <1>1, Sealing, SMTT(60)
<1> HIDE DEF done
<1>4. CASE ~open
  BY <1>1, <1>2, <1>4
<1>5. CASE open
  <2>1. /\ panel' \in Panels /\ panel'.deployment = done.deployment /\ panel'.gate = done.gate
        /\ panel'.receipts = done.receipts /\ panel'.receipt = done.receipt
    <3>1. CASE panel' = done
      BY <1>3, <3>1
    <3>2. CASE panel' = LoopStopped(done)
      BY <1>3, <3>2, Looping
    <3> QED BY <1>2, <1>5, <3>1, <3>2
  <2> QED BY <1>3, <1>5, <2>1
<1> QED BY <1>4, <1>5

(* Past the end of a step of a task the task settles, or is over.            *)
LEMMA Settling ==
    ASSUME TypeOK, NEW k, NEW s, NEW next, EndsAs(k, s, next)
    PROVE  /\ task' \in Tasks
           /\ IF s.task
              THEN \/ task' = NoTask
                   \/ /\ task'.at = "settling" /\ task'.no = task.no
                      /\ task'.withheld = task.withheld /\ task'.toggled = task.toggled
              ELSE task' = task
<1>1. task \in Tasks /\ NoTask \in Tasks
  BY DEF TypeOK, NoTask, Tasks, Kinds
<1> DEFINE t == [task EXCEPT !.at = "settling"]
<1>2. t \in Tasks /\ t.at = "settling" /\ t.no = task.no /\ t.withheld = task.withheld /\ t.toggled = task.toggled
  BY <1>1 DEF Tasks
<1>3. IF s.task THEN task' \in {NoTask, t} ELSE task' = task
  BY DEF EndsAs
<1> HIDE DEF t
<1> QED BY <1>1, <1>2, <1>3

LEMMA TypeStep ==
    ASSUME TypeOK, Order, [Next]_vars
    PROVE  TypeOK'
<1>1. panel \in Panels /\ Len(panel.receipts) <= MaxReceipts /\ task \in Tasks /\ backend \in Kinds
  BY DEF TypeOK, PanelOK
<1>2. NoTask \in Tasks
  BY DEF NoTask, Tasks, Kinds
<1>3. CASE UNCHANGED vars
  BY <1>3 DEF vars, settings, TypeOK, PanelOK, SettingsOK
<1>4. CASE PanelOpens
  <2>1. panel' = BackendSelected(InitialPanel, backend)
    BY <1>4 DEF PanelOpens, Opened
  <2>2. PanelOK'
    <3>1. panel' \in Panels /\ panel'.receipts = InitialPanel.receipts
      BY <1>1, <2>1, Opening, Selecting
    <3>2. Len(panel'.receipts) = 0 /\ MaxReceipts \in Nat
      BY <3>1, Opening, PanelAssumption
    <3> QED BY <3>1, <3>2 DEF PanelOK
  <2>3. SettingsOK'
    BY <1>4 DEF PanelOpens, TypeOK, SettingsOK
  <2> QED BY <1>4, <2>2, <2>3 DEF PanelOpens, TypeOK
<1>5. CASE PanelCloses
  <2>1. PanelOK'
    BY <1>5, Opening, PanelAssumption DEF PanelCloses, PanelOK
  <2>2. SettingsOK'
    BY <1>5 DEF PanelCloses, TypeOK, SettingsOK
  <2>3. upsets' \in 0 .. MaxUpsets
    BY <1>5, Counted DEF PanelCloses
  <2> QED BY <1>5, <2>1, <2>2, <2>3 DEF PanelCloses, TypeOK
<1>6. CASE RestoreReads \/ RestoreLands
  <2>1. SettingsOK'
    BY <1>6 DEF RestoreReads, RestoreLands, TypeOK, SettingsOK
  <2> QED BY <1>6, <2>1 DEF RestoreReads, RestoreLands, TypeOK, PanelOK
<1>7. CASE \E on \in BOOLEAN : PlanOnlySet(on)
  <2>1. PICK on \in BOOLEAN : PlanOnlySet(on)
    BY <1>7
  <2>2. SettingsOK'
    BY <2>1 DEF PlanOnlySet, TypeOK, SettingsOK
  <2>3. upsets' \in 0 .. MaxUpsets
    BY <2>1, Counted DEF PlanOnlySet
  <2>4. task' \in Tasks
    <3> DEFINE t == [task EXCEPT !.toggled = TRUE]
    <3>1. t \in Tasks
      BY <1>1 DEF Tasks
    <3>2. task' \in {task, t}
      BY <2>1 DEF PlanOnlySet
    <3> QED BY <1>1, <3>1, <3>2
  <2>5. steps' \in [Steps -> StepStates]
    BY <2>1, Toggled
  <2> QED BY <2>1, <2>2, <2>3, <2>4, <2>5 DEF PlanOnlySet, TypeOK, PanelOK
<1>8. CASE \E kind \in Kinds, locked \in BOOLEAN : Switches(kind, locked)
  <2>1. PICK kind \in Kinds, locked \in BOOLEAN : Switches(kind, locked)
    BY <1>8
  <2>2. PanelOK'
    <3>1. panel' = BackendSelected(panel, kind)
      BY <2>1 DEF Switches, Shows
    <3> QED BY <1>1, <3>1, Selecting DEF PanelOK
  <2>3. upsets' \in 0 .. MaxUpsets
    BY <2>1, Counted DEF Switches
  <2>4. steps' \in [Steps -> StepStates]
    BY <2>1, Moved
  <2> QED BY <2>1, <2>2, <2>3, <2>4 DEF Switches, TypeOK, SettingsOK, settings
<1>9. CASE TaskAsked
  <2>1. task' \in Tasks
    BY <1>9 DEF TaskAsked, NoTask, Tasks, Kinds
  <2>2. panel' = BackendSelected(panel, backend)
    BY <1>9 DEF TaskAsked, Shows
  <2>3. PanelOK'
    BY <1>1, <2>2, Selecting DEF PanelOK
  <2> QED BY <1>9, <2>1, <2>3 DEF TaskAsked, TypeOK, SettingsOK, settings
<1>10. CASE TaskRefused
  BY <1>2, <1>10 DEF TaskRefused, TypeOK, PanelOK, SettingsOK, settings
<1>11. CASE TaskStops
  <2>1. panel' \in {panel, LoopStopped(panel)}
    BY <1>11 DEF TaskStops, Shows
  <2>2. PanelOK'
    BY <1>1, <2>1, Looping DEF PanelOK
  <2>3. Aside
    BY <1>11, Plainly DEF TaskStops
  <2> QED BY <1>2, <1>11, <2>2, <2>3 DEF TaskStops, Aside, TypeOK, SettingsOK
<1>12. CASE TaskThrows
  <2>1. Aside
    BY <1>12, Plainly DEF TaskThrows
  <2> QED BY <1>2, <1>12, <2>1 DEF TaskThrows, Aside, TypeOK, PanelOK, SettingsOK
<1>13. CASE Evicted
  <2>1. SettingsOK'
    BY <1>13 DEF Evicted, TypeOK, SettingsOK
  <2>2. upsets' \in 0 .. MaxUpsets
    BY <1>13, Counted DEF Evicted
  <2>3. steps' \in [Steps -> StepStates]
    BY <1>13, Cut
  <2>4. crossed' \in BOOLEAN /\ stepCounter' \in Nat
    BY <1>13 DEF Evicted
  <2> QED BY <1>2, <1>13, <2>1, <2>2, <2>3, <2>4 DEF Evicted, TypeOK, PanelOK
<1>14. CASE \E changed \in BOOLEAN : TaskVerifies(changed)
  <2>1. PICK changed \in BOOLEAN : TaskVerifies(changed)
    BY <1>14
  <2>2. task' \in Tasks
    BY <1>1, <2>1 DEF TaskVerifies, Tasks
  <2>3. LastStep \in Steps /\ task.no \in Nat
    BY <1>1, <2>1, Latest DEF TaskVerifies, Order, Tasks
  <2>4. panel' \in {panel, PageVerified(panel, LastStep, task.no, changed)}
    BY <2>1 DEF TaskVerifies, Shows
  <2>5. PanelOK'
    BY <1>1, <2>3, <2>4, Checking DEF PanelOK
  <2>6. Aside
    BY <2>1, Plainly DEF TaskVerifies
  <2> QED BY <2>1, <2>2, <2>5, <2>6 DEF TaskVerifies, Aside, TypeOK, SettingsOK
<1>15. ASSUME NEW k \in Steps, NEW s, TaskBegins(k, s) \/ StepBegins(k, s)
       PROVE  TypeOK'
  <2>1. BeginsAs(k, s) /\ task' \in Tasks
    BY <1>1, <1>15 DEF TaskBegins, StepBegins
  <2>2. panel' \in {panel, LoopStep(panel), BackendSelected(panel, backend)}
    BY <1>15 DEF TaskBegins, StepBegins
  <2>3. panel' \in Panels /\ panel'.receipts = panel.receipts
    <3>1. CASE panel' = panel
      BY <1>1, <3>1
    <3>2. CASE panel' = LoopStep(panel)
      BY <1>1, <3>2, Looping
    <3>3. CASE panel' = BackendSelected(panel, backend)
      BY <1>1, <3>3, Selecting
    <3> QED BY <2>2, <3>1, <3>2, <3>3
  <2>4. s \in StepStates /\ steps' = [steps EXCEPT ![k] = s]
    BY <2>1 DEF BeginsAs
  <2>5. steps' \in [Steps -> StepStates]
    BY <2>4, Replaced
  <2> QED BY <1>1, <2>1, <2>3, <2>5 DEF BeginsAs, TypeOK, SettingsOK, PanelOK
<1>16. ASSUME NEW k \in Steps, Advances(k)
       PROVE  TypeOK'
  <2>1. PICK s, next : GoesOn(k, s, next) /\ next \in Panels /\ next.receipts = panel.receipts
    BY <1>16, AdvancesGoes DEF GoesFor
  <2>2. s \in StepStates /\ steps' = [steps EXCEPT ![k] = s]
    BY <2>1 DEF GoesOn, Turns
  <2>3. steps' \in [Steps -> StepStates]
    BY <2>2, Replaced
  <2>4. PanelOK'
    BY <1>1, <2>1 DEF GoesOn, PanelOK
  <2> QED BY <2>1, <2>3, <2>4 DEF GoesOn, Aside, TypeOK, SettingsOK
<1>17. ASSUME NEW k \in Steps, EndsFor(k)
       PROVE  TypeOK'
  <2>1. PICK s, next : EndsAs(k, s, next) /\ next \in Panels /\ next.receipts = panel.receipts
    BY <1>1, <1>17 DEF EndsFor, Fits, Heard
  <2>2. s \in StepStates /\ steps' = [steps EXCEPT ![k] = s]
    BY <2>1 DEF EndsAs, Turns
  <2>3. steps' \in [Steps -> StepStates]
    BY <2>2, Replaced
  <2>4. PanelOK'
    BY <2>1, <2>2, Closing DEF PanelOK
  <2>5. task' \in Tasks
    BY <2>1, Settling
  <2> QED BY <2>1, <2>3, <2>4, <2>5 DEF EndsAs, Aside, TypeOK, SettingsOK
<1> QED BY <1>3, <1>4, <1>5, <1>6, <1>7, <1>8, <1>9, <1>10, <1>11, <1>12, <1>13, <1>14, <1>15, <1>16, <1>17, Cases

LEMMA OrderInit == Init => Order
<1> SUFFICES ASSUME Init PROVE Order
  OBVIOUS
<1>1. \A k \in Steps : steps[k].at = "off" /\ ~steps[k].task
  BY DEF Init, NoStep
<1>2. task.at = "off"
  BY DEF Init, NoTask
<1> QED BY <1>1, <1>2 DEF Order, UnderWay

(* The order of the steps is about where they are, and where the task is.    *)
LEMMA OrderStays ==
    ASSUME Order,
           \A k \in Steps : /\ steps'[k].at = steps[k].at \/ (steps[k].at # "off" /\ steps'[k].at = "done")
                            /\ steps'[k].task = steps[k].task /\ steps'[k].no = steps[k].no,
           \/ /\ task'.at = task.at /\ task'.no = task.no
              /\ \A k \in Steps : UnderWay(k)' <=> UnderWay(k)
           \/ /\ task'.at \in {"off", "entering", "between"}
              /\ \A k \in Steps : UnderWay(k)' => ~steps[k].task
    PROVE  Order'
<1>1. \A k \in Steps : (steps'[k].at = "off" <=> steps[k].at = "off") /\ (IsLast(k)' <=> IsLast(k))
  BY DEF IsLast, UnderWay
<1>2. (\A k \in Steps : UnderWay(k) /\ steps[k].task => task.at = "stepping" /\ IsLast(k) /\ steps[k].no = task.no)'
  BY <1>1 DEF Order
<1>3. (task.at = "stepping" => \E k \in Steps : UnderWay(k) /\ steps[k].task)'
  BY DEF Order
<1>4. (task.at = "settling" => \E k \in Steps : steps[k].at = "done" /\ IsLast(k) /\ steps[k].no = task.no)'
  BY <1>1 DEF Order
<1>5. (task.at \in {"stepping", "settling"} => task.no > 0)'
  BY DEF Order
<1>6. /\ (\A i, j \in Steps : i < j /\ steps[j].at # "off" => steps[i].at # "off")'
      /\ (\A k \in Steps : steps[k].task => steps[k].at # "off")'
  BY <1>1 DEF Order
<1> QED BY <1>2, <1>3, <1>4, <1>5, <1>6 DEF Order

LEMMA OrderBegins ==
    ASSUME TypeOK, Order, NEW k \in Steps, NEW s, TaskBegins(k, s) \/ StepBegins(k, s)
    PROVE  Order'
<1>1. BeginsAs(k, s) /\ s \in StepStates /\ steps' = [steps EXCEPT ![k] = s] /\ s.at = "snapshot"
  BY DEF TaskBegins, StepBegins, BeginsAs
<1>2. steps'[k] = s /\ \A j \in Steps : j # k => steps'[j] = steps[j]
  BY <1>1, Replaced
<1>3. steps[k].at = "off" /\ (\A j \in Steps : j < k => steps[j].at # "off") /\ ~steps[k].task
  BY <1>1 DEF BeginsAs, IsNext, Order
<1>4. \A i, j \in Steps : i < j /\ steps[j].at # "off" => steps[i].at # "off"
  BY DEF Order
<1>5. \A j \in Steps : j # k /\ steps[j].at # "off" => j < k
  <2>1. \A j \in Steps : j < k \/ j = k \/ k < j
    BY SessionAssumption
  <2> QED BY <1>3, <1>4, <2>1
<1>6. (\A i, j \in Steps : i < j /\ steps[j].at # "off" => steps[i].at # "off")'
  BY <1>1, <1>2, <1>3, <1>4
<1>7. (\A j \in Steps : steps[j].task => steps[j].at # "off")'
  BY <1>1, <1>2 DEF Order
<1>8. CASE TaskBegins(k, s)
  <2>1. /\ s.task /\ task.at # "stepping" /\ task'.at = "stepping" /\ task'.no > 0 /\ s.no = task'.no
    BY <1>8 DEF TaskBegins
  <2>2. IsLast(k)'
    <3>1. \A j \in Steps : steps'[j].task => j = k \/ j < k
      BY <1>2, <1>5 DEF Order
    <3>2. \A j \in Steps : j = k \/ j < k => j <= k
      BY SessionAssumption
    <3> QED BY <1>2, <2>1, <3>1, <3>2 DEF IsLast
  <2>3. UnderWay(k)' /\ \A j \in Steps : j # k => ~(UnderWay(j)' /\ steps'[j].task)
    BY <1>1, <1>2, <2>1 DEF Order, UnderWay
  <2> QED BY <1>2, <1>6, <1>7, <2>1, <2>2, <2>3 DEF Order
<1>9. CASE StepBegins(k, s)
  <2>1. ~s.task /\ task' = task
    BY <1>9 DEF StepBegins
  <2>2. \A j \in Steps : steps'[j].task <=> steps[j].task
    BY <1>2, <1>3, <2>1
  <2>3. \A j \in Steps : IsLast(j)' <=> IsLast(j)
    BY <2>2 DEF IsLast
  <2>4. \A j \in Steps : steps'[j].task => steps'[j] = steps[j] /\ (UnderWay(j)' <=> UnderWay(j))
    BY <1>2, <2>1 DEF UnderWay
  <2>5. (\A j \in Steps : UnderWay(j) /\ steps[j].task => task.at = "stepping" /\ IsLast(j) /\ steps[j].no = task.no)'
    BY <2>1, <2>2, <2>3, <2>4 DEF Order
  <2>6. (task.at = "stepping" => \E j \in Steps : UnderWay(j) /\ steps[j].task)'
    BY <2>1, <2>2, <2>4 DEF Order
  <2>7. (task.at = "settling" => \E j \in Steps : steps[j].at = "done" /\ IsLast(j) /\ steps[j].no = task.no)'
    BY <2>1, <2>2, <2>3, <2>4 DEF Order, IsLast
  <2> QED BY <1>6, <1>7, <2>1, <2>5, <2>6, <2>7 DEF Order
<1> QED BY <1>8, <1>9

LEMMA OrderStep ==
    ASSUME TypeOK, Order, [Next]_vars
    PROVE  Order'
<1>1. CASE UNCHANGED <<steps, task>>
  BY <1>1, OrderStays DEF UnderWay
<1>2. CASE UNCHANGED vars \/ PanelOpens \/ PanelCloses \/ RestoreReads \/ RestoreLands
  BY <1>1, <1>2 DEF vars, PanelOpens, PanelCloses, RestoreReads, RestoreLands
<1>3. CASE \E on \in BOOLEAN : PlanOnlySet(on)
  <2>1. PICK on \in BOOLEAN : PlanOnlySet(on)
    BY <1>3
  <2>2. task'.at = task.at /\ task'.no = task.no
    BY <2>1 DEF PlanOnlySet, TypeOK, Tasks
  <2>3. \A k \in Steps : /\ steps'[k].at = steps[k].at /\ steps'[k].task = steps[k].task
                         /\ steps'[k].no = steps[k].no
    BY <2>1, Toggled DEF Alike
  <2> QED BY <2>2, <2>3, OrderStays DEF UnderWay
<1>4. CASE \E kind \in Kinds, locked \in BOOLEAN : Switches(kind, locked)
  <2>1. PICK kind \in Kinds, locked \in BOOLEAN : Switches(kind, locked)
    BY <1>4
  <2>2. task' = task
    BY <2>1 DEF Switches
  <2>3. \A k \in Steps : /\ steps'[k].at = steps[k].at /\ steps'[k].task = steps[k].task
                         /\ steps'[k].no = steps[k].no
    BY <2>1, Moved DEF Alike
  <2> QED BY <2>2, <2>3, OrderStays DEF UnderWay
<1>5. CASE TaskAsked \/ TaskRefused \/ TaskStops \/ TaskThrows \/ \E changed \in BOOLEAN : TaskVerifies(changed)
  <2>1. steps' = steps /\ task.at # "stepping" /\ task'.at \in {"off", "entering", "between"}
    <3>1. CASE TaskAsked
      BY <3>1 DEF TaskAsked, NoTask
    <3>2. CASE TaskRefused \/ TaskStops \/ TaskThrows
      BY <3>2 DEF TaskRefused, TaskStops, TaskThrows, NoTask
    <3>3. CASE \E changed \in BOOLEAN : TaskVerifies(changed)
      BY <3>3 DEF TaskVerifies, TypeOK, Tasks
    <3> QED BY <1>5, <3>1, <3>2, <3>3
  <2>2. \A k \in Steps : UnderWay(k)' => ~steps[k].task
    BY <2>1 DEF Order, UnderWay
  <2> QED BY <2>1, <2>2, OrderStays
<1>6. CASE Evicted
  <2>1. task'.at = "off"
    BY <1>6 DEF Evicted, NoTask
  <2>2. \A k \in Steps : /\ steps'[k].at = steps[k].at \/ (steps[k].at # "off" /\ steps'[k].at = "done")
                         /\ steps'[k].task = steps[k].task /\ ~UnderWay(k)'
    BY <1>6, Cut DEF UnderWay
  <2>3. \A k \in Steps : IsLast(k)' <=> IsLast(k)
    BY <2>2 DEF IsLast
  <2> QED BY <2>1, <2>2, <2>3 DEF Order
<1>7. ASSUME NEW k \in Steps, Advances(k)
      PROVE  Order'
  <2>1. PICK s, next : GoesOn(k, s, next) /\ s.at \in {"redact", "bake", "sanitize", "plan", "asking", "judge", "execute"}
    BY <1>7, AdvancesGoes DEF GoesFor
  <2>2. /\ s \in StepStates /\ steps' = [steps EXCEPT ![k] = s] /\ task' = task /\ UnderWay(k)
        /\ s.task = steps[k].task /\ s.no = steps[k].no
    BY <2>1 DEF GoesOn, Turns, SameStep
  <2>3. steps'[k] = s /\ \A j \in Steps : j # k => steps'[j] = steps[j]
    BY <2>2, Replaced
  <2>4. \A j \in Steps : /\ UnderWay(j)' <=> UnderWay(j)
                         /\ steps'[j].task = steps[j].task /\ steps'[j].no = steps[j].no
                         /\ steps'[j].at = "off" <=> steps[j].at = "off"
                         /\ steps'[j].at = "done" <=> steps[j].at = "done"
    BY <2>1, <2>2, <2>3 DEF UnderWay
  <2>5. \A j \in Steps : IsLast(j)' <=> IsLast(j)
    BY <2>4 DEF IsLast
  <2> QED BY <2>2, <2>4, <2>5 DEF Order
<1>8. ASSUME NEW k \in Steps, EndsFor(k)
      PROVE  Order'
  <2>1. PICK s, next : EndsAs(k, s, next)
    BY <1>8 DEF EndsFor
  <2>2. /\ s \in StepStates /\ steps' = [steps EXCEPT ![k] = s] /\ UnderWay(k) /\ s.at = "done"
        /\ s.task = steps[k].task /\ s.no = steps[k].no
    BY <2>1 DEF EndsAs, Turns, SameStep
  <2>3. steps'[k] = s /\ \A j \in Steps : j # k => steps'[j] = steps[j]
    BY <2>2, Replaced
  <2>4. \A j \in Steps : /\ steps'[j].at = steps[j].at \/ (steps[j].at # "off" /\ steps'[j].at = "done")
                         /\ steps'[j].task = steps[j].task /\ steps'[j].no = steps[j].no
    BY <2>2, <2>3 DEF UnderWay
  <2>5. ~UnderWay(k)' /\ \A j \in Steps : j # k => (UnderWay(j)' <=> UnderWay(j))
    BY <2>2, <2>3 DEF UnderWay
  <2>6. CASE ~s.task
    <3>1. task' = task
      BY <2>1, <2>6, Settling
    <3>2. \A j \in Steps : steps[j].task => (UnderWay(j)' <=> UnderWay(j))
      BY <2>2, <2>5, <2>6
    <3>3. \A j \in Steps : IsLast(j)' <=> IsLast(j)
      BY <2>4 DEF IsLast
    <3>4. (\A j \in Steps : UnderWay(j) /\ steps[j].task => task.at = "stepping" /\ IsLast(j) /\ steps[j].no = task.no)'
      BY <2>4, <3>1, <3>2, <3>3 DEF Order
    <3>5. (task.at = "stepping" => \E j \in Steps : UnderWay(j) /\ steps[j].task)'
      BY <2>4, <3>1, <3>2 DEF Order
    <3>6. (task.at = "settling" => \E j \in Steps : steps[j].at = "done" /\ IsLast(j) /\ steps[j].no = task.no)'
      BY <2>4, <3>1, <3>3 DEF Order
    <3>7. /\ (\A i, j \in Steps : i < j /\ steps[j].at # "off" => steps[i].at # "off")'
          /\ (\A j \in Steps : steps[j].task => steps[j].at # "off")'
      BY <2>4 DEF Order
    <3> QED BY <3>1, <3>4, <3>5, <3>6, <3>7 DEF Order
  <2>7. CASE s.task
    <3>1. task.at = "stepping" /\ IsLast(k) /\ s.no = task.no /\ task.no > 0
      BY <2>2, <2>7 DEF Order
    <3>2. task' = NoTask \/ (task'.at = "settling" /\ task'.no = task.no)
      BY <2>1, <2>7, Settling
    <3>3. \A j \in Steps : ~(UnderWay(j)' /\ steps'[j].task)
      <4>1. \A j \in Steps : UnderWay(j) /\ steps[j].task => IsLast(j)
        BY DEF Order
      <4>2. \A j \in Steps : IsLast(j) => j = k
        BY <3>1, SessionAssumption DEF IsLast
      <4> QED BY <2>4, <2>5, <4>1, <4>2
    <3>4. IsLast(k)'
      BY <2>4, <3>1 DEF IsLast
    <3>5. /\ (\A i, j \in Steps : i < j /\ steps[j].at # "off" => steps[i].at # "off")'
          /\ (\A j \in Steps : steps[j].task => steps[j].at # "off")'
      BY <2>4 DEF Order
    <3>6. NoTask.at = "off"
      BY DEF NoTask
    <3> QED BY <2>2, <2>3, <3>1, <3>2, <3>3, <3>4, <3>5, <3>6 DEF Order
  <2> QED BY <2>6, <2>7
<1>9. ASSUME NEW k \in Steps, NEW s, TaskBegins(k, s) \/ StepBegins(k, s)
      PROVE  Order'
  BY <1>9, OrderBegins
<1> QED BY <1>2, <1>3, <1>4, <1>5, <1>6, <1>7, <1>8, <1>9, Cases

-----------------------------------------------------------------------------
(* Plan-only.                                                                *)

LEMMA PlanInit == Init => PlanInv
<1> SUFFICES ASSUME Init PROVE PlanInv
  OBVIOUS
<1>1. \A k \in Steps : steps[k].at = "off" /\ steps[k].box = "unseen"
  BY DEF Init, NoStep
<1>2. task.at = "off"
  BY DEF Init, NoTask
<1>3. PICK stored, up \in BOOLEAN :
         /\ planOnly = [memory |-> up /\ stored, stored |-> stored, box |-> up /\ stored]
         /\ ready = (IF up THEN "done" ELSE "before") /\ early = ~up
  BY DEF Init
<1>4. /\ planOnly.memory = (up /\ stored) /\ planOnly.stored = stored /\ planOnly.box = (up /\ stored)
  BY <1>3
<1>5. ~early => /\ planOnly.box = planOnly.stored /\ planOnly.memory = planOnly.stored /\ ready = "done"
  BY <1>3, <1>4
<1> QED BY <1>1, <1>2, <1>5 DEF PlanInv, Setting, PlanOnlyHolds, UnderWay

(* A step that neither begins nor ends keeps what it has read.               *)
LEMMA PlanStays ==
    ASSUME PlanInv, UNCHANGED <<planOnly, ready, early, open>>,
           \A k \in Steps : /\ UnderWay(k)' => UnderWay(k)
                            /\ steps'[k].withheld = steps[k].withheld /\ steps'[k].toggled = steps[k].toggled
                            /\ steps'[k].box = steps[k].box /\ steps'[k].act = steps[k].act,
           \/ task'.at \in {"off", "entering"}
           \/ /\ task.at \notin {"off", "entering"}
              /\ task'.withheld = task.withheld /\ task'.toggled = task.toggled
    PROVE  PlanInv'
<1>1. PlanOnlyHolds'
  BY DEF PlanInv, PlanOnlyHolds
<1>2. Setting'
  BY DEF PlanInv, Setting
<1> QED BY <1>1, <1>2 DEF PlanInv

(* A step that goes on, or ends, has its page act or not as the box has it.  *)
LEMMA PlanTurns ==
    ASSUME TypeOK, PlanInv, NEW k \in Steps, NEW s, Turns(k, s), ActsAs(k, s),
           s.at = "done" \/ (s.act = "withheld" => steps[k].act = "withheld"),
           UNCHANGED <<planOnly, ready, early, open>>,
           \/ task'.at \in {"off", "entering"}
           \/ /\ task.at \notin {"off", "entering"}
              /\ task'.withheld = task.withheld /\ task'.toggled = task.toggled
    PROVE  PlanInv'
<1>1. /\ s \in StepStates /\ steps' = [steps EXCEPT ![k] = s] /\ UnderWay(k)
      /\ s.withheld = steps[k].withheld /\ s.toggled = steps[k].toggled
  BY DEF Turns, SameStep
<1>2. steps'[k] = s /\ \A j \in Steps : j # k => steps'[j] = steps[j]
  BY <1>1, Replaced
<1>3. /\ ready = "done" /\ steps[k].act # "withheld"
      /\ steps[k].toggled \/ steps[k].withheld = planOnly.memory
  BY <1>1 DEF PlanInv, Setting
<1>4. s.box # "unseen" /\ ~s.toggled => (s.box = "on" <=> s.act = "withheld")
  <2> SUFFICES ASSUME s.box # "unseen", ~s.toggled PROVE s.box = "on" <=> s.act = "withheld"
    OBVIOUS
  <2>1. CASE (s.act = "withheld" => steps[k].act = "withheld") /\ s.box = steps[k].box
    BY <1>1, <1>3, <2>1 DEF PlanInv, PlanOnlyHolds
  <2>2. CASE (s.act = "withheld" <=> steps[k].withheld) /\ s.box = BoxSeen
    <3>1. open /\ ~early /\ s.box = IF planOnly.box THEN "on" ELSE "off"
      BY <2>2 DEF BoxSeen
    <3>2. planOnly.box = planOnly.memory
      BY <1>3, <3>1 DEF PlanInv, Setting
    <3>3. steps[k].withheld = planOnly.memory
      BY <1>1, <1>3
    <3> QED BY <2>2, <3>1, <3>2, <3>3
  <2> QED BY <2>1, <2>2 DEF ActsAs
<1>5. PlanOnlyHolds'
  BY <1>2, <1>4 DEF PlanInv, PlanOnlyHolds
<1>6. \A j \in Steps : j # k => (UnderWay(j)' <=> UnderWay(j))
  BY <1>2 DEF UnderWay
<1>7. UnderWay(k)' => s.act # "withheld" /\ (s.toggled \/ s.withheld = planOnly.memory)
  BY <1>1, <1>2, <1>3 DEF UnderWay
<1>8. Setting'
  BY <1>2, <1>3, <1>6, <1>7 DEF PlanInv, Setting
<1> QED BY <1>5, <1>8 DEF PlanInv

LEMMA PlanEnds ==
    ASSUME TypeOK, Order, PlanInv, NEW k \in Steps, EndsFor(k)
    PROVE  PlanInv'
<1>1. PICK s, next : EndsAs(k, s, next) /\ ActsAs(k, s)
  BY DEF EndsFor
<1>2. Turns(k, s) /\ s.at = "done" /\ UNCHANGED <<planOnly, ready, early, open>>
  BY <1>1 DEF EndsAs, Aside
<1>3. \/ task'.at \in {"off", "entering"}
      \/ /\ task.at \notin {"off", "entering"}
         /\ task'.withheld = task.withheld /\ task'.toggled = task.toggled
  <2>1. s.task => task.at = "stepping"
    BY <1>2 DEF Order, Turns, SameStep
  <2>2. NoTask.at = "off"
    BY DEF NoTask
  <2>3. CASE s.task
    BY <1>1, <2>1, <2>2, <2>3, Settling
  <2>4. CASE ~s.task
    <3>1. CASE task.at \in {"off", "entering"}
      BY <1>1, <2>4, <3>1, Settling
    <3>2. CASE task.at \notin {"off", "entering"}
      BY <1>1, <2>4, <3>2, Settling
    <3> QED BY <3>1, <3>2
  <2> QED BY <2>3, <2>4
<1> QED BY <1>1, <1>2, <1>3, PlanTurns

LEMMA PlanBegins ==
    ASSUME TypeOK, PlanInv, NEW k \in Steps, NEW s, TaskBegins(k, s) \/ StepBegins(k, s)
    PROVE  PlanInv'
<1>1. /\ s \in StepStates /\ steps' = [steps EXCEPT ![k] = s] /\ s.at = "snapshot" /\ s.box = "unseen" /\ s.act # "withheld"
      /\ UNCHANGED <<planOnly, ready, early, open>>
  <2>1. s.at = "snapshot" /\ Course(s)
    BY DEF TaskBegins, StepBegins, BeginsAs
  <2>2. s.act # "withheld"
    BY <2>1 DEF Course, NotReached
  <2> QED BY <2>1, <2>2 DEF TaskBegins, StepBegins, BeginsAs
<1>2. steps'[k] = s /\ \A j \in Steps : j # k => steps'[j] = steps[j]
  BY <1>1, Replaced
<1>3. PlanOnlyHolds'
  BY <1>1, <1>2 DEF PlanInv, PlanOnlyHolds
<1>4. /\ ready = "done" /\ (s.toggled \/ s.withheld = planOnly.memory)
      /\ task'.at \notin {"off", "entering"} => task'.toggled \/ task'.withheld = planOnly.memory
  <2>1. CASE StepBegins(k, s)
    BY <2>1 DEF StepBegins, PlanInv, Setting
  <2>2. CASE TaskBegins(k, s) /\ task.at = "entering"
    BY <2>2 DEF TaskBegins
  <2>3. CASE TaskBegins(k, s) /\ task.at # "entering"
    BY <2>3 DEF TaskBegins, PlanInv, Setting
  <2> QED BY <2>1, <2>2, <2>3
<1>5. \A j \in Steps : j # k => (UnderWay(j)' <=> UnderWay(j))
  BY <1>2 DEF UnderWay
<1>6. Setting'
  BY <1>1, <1>2, <1>4, <1>5 DEF PlanInv, Setting
<1> QED BY <1>3, <1>6 DEF PlanInv

LEMMA PlanStep ==
    ASSUME TypeOK, Order, PlanInv, [Next]_vars
    PROVE  PlanInv'
<1>1. CASE UNCHANGED vars
  BY <1>1 DEF vars, settings, PlanInv, Setting, PlanOnlyHolds, UnderWay
<1>2. ASSUME UNCHANGED <<steps, task>> PROVE PlanOnlyHolds' /\ \A k \in Steps : UnderWay(k)' <=> UnderWay(k)
  BY <1>2 DEF PlanInv, PlanOnlyHolds, UnderWay
<1>3. CASE PanelOpens
  <2>1. /\ planOnly'.memory = planOnly.memory /\ planOnly'.stored = planOnly.stored
        /\ planOnly'.box = planOnly.memory
        /\ ~early' => ready = "done" /\ planOnly.memory = planOnly.stored
    BY <1>3 DEF PanelOpens, TypeOK, SettingsOK
  <2>2. UNCHANGED <<steps, task, ready>>
    BY <1>3 DEF PanelOpens
  <2> QED BY <1>2, <2>1, <2>2 DEF PlanInv, Setting
<1>4. CASE PanelCloses
  <2>1. planOnly'.memory = planOnly.memory /\ open' = FALSE /\ UNCHANGED <<steps, task, ready>>
    BY <1>4 DEF PanelCloses, TypeOK, SettingsOK
  <2> QED BY <1>2, <2>1 DEF PlanInv, Setting
<1>5. CASE RestoreReads
  <2>1. /\ ready = "before" /\ ready' = (IF planOnly.stored THEN "on" ELSE "off")
        /\ UNCHANGED <<steps, task, planOnly, early, open>>
    BY <1>5 DEF RestoreReads
  <2> QED BY <1>2, <2>1 DEF PlanInv, Setting
<1>6. CASE RestoreLands
  <2>1. /\ ready \in {"on", "off"} /\ ready' = "done" /\ planOnly'.memory = (ready = "on")
        /\ planOnly'.stored = planOnly.stored /\ planOnly'.box = planOnly.box
        /\ UNCHANGED <<steps, task, early, open>>
    BY <1>6 DEF RestoreLands, TypeOK, SettingsOK
  <2> QED BY <1>2, <2>1 DEF PlanInv, Setting, TypeOK, SettingsOK
<1>7. CASE \E on \in BOOLEAN : PlanOnlySet(on)
  <2>1. PICK on \in BOOLEAN : PlanOnlySet(on)
    BY <1>7
  <2>2. /\ planOnly'.memory = on /\ planOnly'.stored = on /\ planOnly'.box = on
        /\ early' = (ready # "done") /\ ready' = ready
    BY <2>1 DEF PlanOnlySet
  <2>3. \A k \in Steps : /\ UnderWay(k)' <=> UnderWay(k)
                         /\ steps'[k].box = steps[k].box /\ steps'[k].act = steps[k].act
                         /\ IF UnderWay(k) THEN steps'[k].toggled ELSE steps'[k] = steps[k]
      BY <2>1, Toggled DEF Alike, Same, UnderWay
  <2>4. IF task.at \in {"off", "entering"} THEN task' = task ELSE task'.toggled
    BY <2>1 DEF PlanOnlySet, TypeOK, Tasks
  <2>5. PlanOnlyHolds'
    BY <2>3 DEF PlanInv, PlanOnlyHolds, Setting
  <2>6. Setting'
    BY <2>2, <2>3, <2>4 DEF PlanInv, Setting
  <2> QED BY <2>5, <2>6 DEF PlanInv
<1>8. CASE \E kind \in Kinds, locked \in BOOLEAN : Switches(kind, locked)
  <2>1. PICK kind \in Kinds, locked \in BOOLEAN : Switches(kind, locked)
    BY <1>8
  <2>2. UNCHANGED <<task, planOnly, ready, early, open>>
    BY <2>1 DEF Switches, settings
  <2>3. \A k \in Steps : /\ UnderWay(k)' => UnderWay(k)
                         /\ steps'[k].withheld = steps[k].withheld /\ steps'[k].toggled = steps[k].toggled
                         /\ steps'[k].box = steps[k].box /\ steps'[k].act = steps[k].act
    BY <2>1, Moved DEF Alike, Same, UnderWay
  <2> QED BY <2>2, <2>3, PlanStays
<1>9. CASE TaskAsked \/ TaskRefused \/ TaskStops \/ TaskThrows
  <2>1. steps' = steps /\ UNCHANGED <<planOnly, ready, early, open>> /\ task'.at \in {"off", "entering"}
    <3>1. CASE TaskAsked
      BY <3>1 DEF TaskAsked, NoTask, settings
    <3>2. CASE TaskRefused
      BY <3>2 DEF TaskRefused, NoTask, settings
    <3>3. CASE TaskStops \/ TaskThrows
      BY <3>3 DEF TaskStops, TaskThrows, NoTask, settings, Plain, Wrong, Others
    <3> QED BY <1>9, <3>1, <3>2, <3>3
  <2> QED BY <2>1, PlanStays DEF UnderWay
<1>10. CASE \E changed \in BOOLEAN : TaskVerifies(changed)
  <2>1. /\ steps' = steps /\ UNCHANGED <<planOnly, ready, early, open>>
        /\ task.at = "settling" /\ task'.withheld = task.withheld /\ task'.toggled = task.toggled
    BY <1>10 DEF TaskVerifies, Plain, Others, settings, TypeOK, Tasks
  <2> QED BY <2>1, PlanStays DEF UnderWay
<1>11. CASE Evicted
  <2>1. /\ planOnly'.stored = planOnly.stored /\ planOnly'.box = planOnly.box
        /\ ready' = "before" /\ UNCHANGED <<early, open>> /\ task'.at = "off"
    BY <1>11 DEF Evicted, TypeOK, SettingsOK, NoTask
  <2>2. \A k \in Steps : /\ ~UnderWay(k)' /\ steps'[k].toggled = steps[k].toggled
                         /\ steps'[k].box = steps[k].box /\ steps'[k].act = steps[k].act
    BY <1>11, Cut DEF UnderWay
  <2> QED BY <2>1, <2>2 DEF PlanInv, Setting, PlanOnlyHolds
<1>12. ASSUME NEW k \in Steps, Advances(k)
       PROVE  PlanInv'
  <2>1. PICK s, next : GoesOn(k, s, next)
    BY <1>12, AdvancesGoes DEF GoesFor
  <2>2. UnderWay(k) /\ Turns(k, s) /\ ActsAs(k, s) /\ (s.act = "withheld" => steps[k].act = "withheld")
    BY <2>1 DEF GoesOn, Turns
  <2>3. UNCHANGED <<task, planOnly, ready, early, open>>
    BY <2>1 DEF GoesOn, Aside
  <2> QED BY <2>2, <2>3, PlanTurns
<1>13. ASSUME NEW k \in Steps, NEW s, TaskBegins(k, s) \/ StepBegins(k, s)
       PROVE  PlanInv'
  BY <1>13, PlanBegins
<1>14. ASSUME NEW k \in Steps, EndsFor(k)
       PROVE  PlanInv'
  BY <1>14, PlanEnds
<1> QED BY <1>1, <1>3, <1>4, <1>5, <1>6, <1>7, <1>8, <1>9, <1>10, <1>11, <1>12, <1>13, <1>14, Cases

-----------------------------------------------------------------------------
(* What a receipt says of its step.                                          *)

(* The panel shows what it did, but for the backend and the page check.      *)
Kept(q, p) ==
    /\ q.receipt.captured = p.receipt.captured /\ q.receipt.sealed = p.receipt.sealed
    /\ q.receipt.by = p.receipt.by /\ q.receipt.redacted = p.receipt.redacted
    /\ q.receipt.context = p.receipt.context /\ q.receipt.picture = p.receipt.picture
    /\ q.receipt.validation = p.receipt.validation /\ q.receipt.execution = p.receipt.execution
    /\ q.gate = p.gate

(* It has heard of no step.                                                  *)
Blank(p) == ~p.receipt.captured /\ p.receipt.by = {} /\ p.receipts = <<>>

LEMMA BlankAtFirst == Blank(InitialPanel) /\ \A kind \in Kinds : Blank(Opened(kind))
<1>1. InitialPanel \in Panels /\ Blank(InitialPanel)
  BY Opening DEF InitialPanel, EmptyReceipt, Blank
<1>2. ASSUME NEW kind \in Kinds PROVE Blank(Opened(kind))
  <2> DEFINE p == InitialPanel
  <2>1. p.receipt \in ReceiptStates
    BY <1>1 DEF Panels
  <2> HIDE DEF p
  <2> DEFINE r == [p.receipt EXCEPT !.backend = kind]
  <2>2. r.captured = p.receipt.captured /\ r.by = p.receipt.by
    BY <2>1 DEF ReceiptStates
  <2>3. p \in Panels /\ Blank(p)
    BY <1>1 DEF p
  <2>4. BackendSelected(p, kind).receipt = r /\ BackendSelected(p, kind).receipts = p.receipts
    BY <2>3, Selecting
  <2> QED BY <2>2, <2>3, <2>4 DEF Opened, p, Blank
<1> QED BY <1>1, <1>2

LEMMA SelectedKept ==
    ASSUME NEW p \in Panels, NEW kind \in Kinds
    PROVE  LET q == BackendSelected(p, kind) IN
           Kept(q, p) /\ q.receipt.checked = p.receipt.checked /\ q.receipt.backend = kind /\ q.deployment = kind
<1> DEFINE r == [p.receipt EXCEPT !.backend = kind]
<1>1. p.receipt \in ReceiptStates
  BY DEF Panels
<1>2. /\ r.captured = p.receipt.captured /\ r.sealed = p.receipt.sealed
      /\ r.by = p.receipt.by /\ r.redacted = p.receipt.redacted
      /\ r.context = p.receipt.context /\ r.picture = p.receipt.picture
      /\ r.validation = p.receipt.validation /\ r.execution = p.receipt.execution
      /\ r.checked = p.receipt.checked /\ r.backend = kind
  BY <1>1 DEF ReceiptStates
<1>3. /\ BackendSelected(p, kind).receipt = r /\ BackendSelected(p, kind).gate = p.gate
      /\ BackendSelected(p, kind).deployment = kind
  BY Selecting
<1> QED BY <1>2, <1>3 DEF Kept

LEMMA WrittenInit == Init => Written
<1> SUFFICES ASSUME Init PROVE Written
  OBVIOUS
<1>1. panel = Opened(backend) /\ backend \in Kinds /\ Blank(panel) /\ open
  BY BlankAtFirst DEF Init
<1>2. panel.deployment = backend
  BY <1>1, Opening, Selecting DEF Opened
<1>3. \A k \in Steps : ~UnderWay(k)
  BY DEF Init, NoStep, UnderWay
<1> QED BY <1>1, <1>2, <1>3 DEF Written, Listening, Blank

(* Nothing is written while the steps do not go on.                          *)
LEMMA WrittenStays ==
    ASSUME Written,
           IF open' THEN panel'.deployment = backend' ELSE panel' = InitialPanel,
           \/ Blank(panel')
           \/ Kept(panel', panel) /\ panel'.receipt.backend \in {panel.receipt.backend, backend'},
           \A k \in Steps : steps[k].at \notin {"off", "snapshot"} => steps'[k].at \notin {"off", "snapshot"},
           \A k \in Steps : UnderWay(k)' =>
               /\ UnderWay(k) /\ Alike(steps'[k], steps[k])
               /\ steps'[k].moved \/ (steps'[k].moved = steps[k].moved /\ backend' = backend),
           panel.receipt.by \subseteq Steps
    PROVE  Written'
<1>1. Listening'
  BY DEF Written, Listening, Blank, Kept
<1>2. ASSUME NEW k \in Steps, UnderWay(k)' PROVE Course(steps[k])'
  <2>1. Course(steps[k]) /\ Alike(steps'[k], steps[k])
    BY <1>2 DEF Written
  <2>2. steps'[k].moved \/ (steps'[k].moved = steps[k].moved /\ backend' = backend)
    BY <1>2
  <2> QED BY <2>1, <2>2 DEF Course, Alike, Same
<1>3. ASSUME NEW k \in Steps, UnderWay(k)', IsOf(panel, k)' PROVE KeepsUp(panel, steps[k])'
  <2>1. /\ Kept(panel', panel) /\ panel'.receipt.backend \in {panel.receipt.backend, backend'}
        /\ IsOf(panel, k)
    BY <1>3 DEF IsOf, Blank, Kept
  <2>2. KeepsUp(panel, steps[k]) /\ Alike(steps'[k], steps[k]) /\ Course(steps[k])'
    BY <1>2, <1>3, <2>1 DEF Written
  <2>3. \/ steps'[k].moved
        \/ (steps'[k].moved = steps[k].moved /\ backend' = backend)
    BY <1>3
  <2>4. panel'.receipt.backend = steps'[k].kind \/ panel'.receipt.backend = "none" \/ steps'[k].moved
    BY <2>1, <2>2, <2>3 DEF KeepsUp, Tells, Alike, Course
  <2>5. Told(steps'[k], steps[k])
    BY <2>2, AlikeTold
  <2> QED BY <2>1, <2>2, <2>4, <2>5 DEF KeepsUp, Tells, Told, Alike, Kept
<1> QED BY <1>1, <1>2, <1>3 DEF Written

LEMMA AlikeSelf ==
    ASSUME NEW s \in StepStates
    PROVE  Alike(s, s)
BY DEF Alike, Same

(* Where a step advances, the panel hears of it, or it is shut.              *)
LEMMA WrittenAdvances ==
    ASSUME TypeOK, Written, NEW k \in Steps, Advances(k)
    PROVE  Written'
<1>1. panel \in Panels /\ steps[k] \in StepStates /\ steps[k].image \in BOOLEAN
  BY DEF TypeOK, PanelOK, StepStates
<1>2. SUFFICES ASSUME NEW s, NEW next,
                      GoesOn(k, s, next), s.at \notin {"off", "snapshot", "done"},
                      next \in Panels, next.deployment = panel.deployment,
                      \/ next = panel /\ steps[k].at # "snapshot"
                      \/ next.receipt.captured /\ next.receipt.by = {k}
                      \/ Heard(next, panel, k),
                      Course(s), open /\ IsOf(next, k) => KeepsUp(next, s)
               PROVE  Written'
  <2>1. /\ Course(steps[k]) /\ (IsOf(panel, k) => KeepsUp(panel, steps[k]))
        /\ open => panel.deployment = backend
    <3>1. UnderWay(k)
      BY AdvancesGoes DEF GoesFor, GoesOn, Turns
    <3> QED BY <3>1 DEF Written, Listening
  <2>2. ASSUME NEW next, Heard(next, panel, k), IsOf(next, k) PROVE IsOf(panel, k)
    BY <2>2, <1>1 DEF Heard, IsOf, Written, Listening
  <2>3. CASE Captures(k)
    <3> DEFINE next == FrameCaptured(panel, k)
    <3>1. PICK s : /\ GoesOn(k, s, next) /\ steps[k].at = "snapshot" /\ s.at = "redact"
                   /\ Same(s, steps[k]) /\ s.image = steps[k].image
      BY <2>3, CapturesGoes
    <3>2. /\ next \in Panels /\ next.deployment = panel.deployment
          /\ next.receipt.captured /\ next.receipt.by = {k}
          /\ next.receipt.context = NotChecked /\ next.receipt.picture = NotChecked
          /\ next.receipt.validation = NotReached /\ next.receipt.execution = NotReached
          /\ next.receipt.backend = panel.deployment
      BY <1>1, Began
    <3> HIDE DEF next
    <3>3. SameStep(s, steps[k])
      BY <3>1 DEF GoesOn, Turns
    <3>4. Course(s)
      BY <2>1, <3>1, <3>3 DEF Course, SameStep, Same
    <3>5. /\ Lawful(s) /\ ValidationOf(s) = NotReached /\ ExecutionOf(s) = NotReached
          /\ ContextOf(s) = NotChecked /\ PictureOf(s) = NotChecked
      BY <3>1, <3>4, Underway
    <3>6. s.kind = backend \/ s.moved
      BY <3>4 DEF Course
    <3>7. open => KeepsUp(next, s)
      BY <2>1, <3>1, <3>2, <3>5, <3>6 DEF KeepsUp, Tells
    <3> QED BY <1>2, <3>1, <3>2, <3>4, <3>7
  <2>4. CASE Redacts(k)
    <3> DEFINE next == RedactionDone(panel, k)
    <3>1. PICK s : /\ GoesOn(k, s, next) /\ steps[k].at = "redact" /\ s.at \in {"bake", "sanitize"}
                   /\ Same(s, steps[k]) /\ s.image = steps[k].image
      BY <2>4, RedactsGoes
    <3>2. /\ Heard(next, panel, k)
          /\ next.receipt.context = panel.receipt.context /\ next.receipt.picture = panel.receipt.picture
          /\ next.receipt.validation = panel.receipt.validation /\ next.receipt.execution = panel.receipt.execution
      BY <1>1, Redaction
    <3> HIDE DEF next
    <3>3. SameStep(s, steps[k]) /\ Told(s, steps[k])
      BY <3>1, SameTold DEF GoesOn, Turns
    <3>4. Course(s)
      BY <2>1, <3>1, <3>3 DEF Course, SameStep, Same
    <3>5. next \in Panels /\ next.deployment = panel.deployment /\ next.receipt.backend = panel.receipt.backend
      BY <3>2 DEF Heard
    <3>6. IsOf(next, k) => KeepsUp(next, s)
      BY <2>1, <2>2, <3>1, <3>2, <3>3, <3>5 DEF KeepsUp, Tells, Told, SameStep
    <3> QED BY <1>2, <3>1, <3>2, <3>4, <3>5, <3>6
  <2>5. CASE \E bake \in {"none", "landed", "short"} : Bakes(k, bake)
    <3>1. PICK bake \in {"none", "landed", "short"} : Bakes(k, bake)
      BY <2>5
    <3> DEFINE heard == BakeDone(panel, k, bake)
               next == IF bake = "none" THEN panel ELSE heard
    <3>2. PICK s : /\ GoesOn(k, s, next) /\ steps[k].at = "bake" /\ s.at = "sanitize"
                   /\ Same(s, steps[k]) /\ s.image = (bake = "landed")
      BY <3>1, BakesGoes
    <3>3. /\ Heard(heard, panel, k)
          /\ heard.receipt.context = panel.receipt.context /\ heard.receipt.picture = panel.receipt.picture
          /\ heard.receipt.validation = panel.receipt.validation /\ heard.receipt.execution = panel.receipt.execution
      BY <1>1, Baking
    <3> HIDE DEF heard
    <3>4. SameStep(s, steps[k])
      BY <3>2 DEF GoesOn, Turns
    <3>5. Course(s)
      BY <2>1, <3>2, <3>4 DEF Course, SameStep, Same
    <3>6. /\ next \in Panels /\ next.deployment = panel.deployment /\ next.receipt.backend = panel.receipt.backend
          /\ next = panel \/ Heard(next, panel, k)
          /\ next.receipt.context = panel.receipt.context /\ next.receipt.picture = panel.receipt.picture
          /\ next.receipt.validation = panel.receipt.validation /\ next.receipt.execution = panel.receipt.execution
      BY <1>1, <3>3 DEF Heard
    <3> HIDE DEF next
    <3>7. /\ Lawful(s) /\ ValidationOf(s) = NotReached /\ ExecutionOf(s) = NotReached
          /\ ContextOf(s) = NotChecked /\ PictureOf(s) = NotChecked
      BY <3>2, <3>5, Underway
    <3>8. /\ ValidationOf(steps[k]) = NotReached /\ ExecutionOf(steps[k]) = NotReached
          /\ ContextOf(steps[k]) = NotChecked /\ PictureOf(steps[k]) = NotChecked
      BY <2>1, <3>2, Underway
    <3>9. IsOf(next, k) => KeepsUp(next, s)
      BY <2>1, <2>2, <3>2, <3>4, <3>6, <3>7, <3>8 DEF KeepsUp, Tells, SameStep
    <3>10. steps[k].at # "snapshot"
      BY <3>2
    <3> QED BY <1>2, <3>2, <3>5, <3>6, <3>9, <3>10
  <2>6. CASE \E blocked \in BOOLEAN : ~blocked /\ Sanitizes(k, blocked)
    <3>1. PICK blocked \in BOOLEAN : ~blocked /\ Sanitizes(k, blocked)
      BY <2>6
    <3> DEFINE next == PrivacyVerified(ContextSent(panel, k, steps[k].image), k, blocked)
    <3>2. PICK s : /\ GoesOn(k, s, next) /\ steps[k].at = "sanitize" /\ s.at = "plan"
                   /\ s.image = steps[k].image /\ s.built = "passed"
                   /\ s.left = steps[k].left /\ s.answered = steps[k].answered
                   /\ s.verdict = steps[k].verdict /\ s.act = steps[k].act
      BY <3>1, SanitizesGoes
    <3>3. /\ Heard(next, panel, k)
          /\ next.receipt.context = (IF blocked THEN "blocked" ELSE NotChecked)
          /\ next.receipt.picture = (IF blocked THEN "blocked" ELSE IF steps[k].image THEN NotChecked ELSE "verified-absent")
          /\ next.receipt.validation = panel.receipt.validation /\ next.receipt.execution = panel.receipt.execution
          /\ next.gate.prepared = (IF steps[k].image THEN "image" ELSE "text")
      BY <1>1, Preparing
    <3> HIDE DEF next
    <3>4. SameStep(s, steps[k])
      BY <3>2 DEF GoesOn, Turns
    <3>5. Course(s)
      BY <2>1, <3>2, <3>4 DEF Course, SameStep
    <3>6. next \in Panels /\ next.deployment = panel.deployment /\ next.receipt.backend = panel.receipt.backend
      BY <3>3 DEF Heard
    <3>7. /\ Lawful(s) /\ ValidationOf(s) = NotReached /\ ExecutionOf(s) = NotReached
          /\ ContextOf(s) = NotChecked /\ PictureOf(s) = IF s.image THEN NotChecked ELSE "verified-absent"
      BY <3>2, <3>5, Underway
    <3>8. ValidationOf(steps[k]) = NotReached /\ ExecutionOf(steps[k]) = NotReached
      BY <2>1, Underway
    <3>9. IsOf(next, k) => KeepsUp(next, s)
      BY <2>1, <2>2, <3>1, <3>2, <3>3, <3>4, <3>6, <3>7, <3>8 DEF KeepsUp, Tells, SameStep
    <3> QED BY <1>2, <3>2, <3>3, <3>5, <3>6, <3>9
  <2>7. CASE Requests(k)
    <3>1. PICK s : /\ GoesOn(k, s, panel) /\ steps[k].at = "plan" /\ s.at = "asking"
                   /\ s.image = steps[k].image /\ s.left = OffDevice(s.kind)
                   /\ s.built = steps[k].built /\ s.answered = steps[k].answered
                   /\ s.verdict = steps[k].verdict /\ s.act = steps[k].act
      BY <2>7, RequestsGoes
    <3>2. SameStep(s, steps[k])
      BY <3>1 DEF GoesOn, Turns
    <3>3. Course(s)
      BY <2>1, <3>1, <3>2 DEF Course, SameStep
    <3>4. /\ Lawful(s) /\ ValidationOf(s) = NotReached /\ ExecutionOf(s) = NotReached
          /\ ContextOf(s) = NotChecked /\ PictureOf(s) = IF s.image THEN NotChecked ELSE "verified-absent"
      BY <3>1, <3>3, Underway
    <3>5. /\ ValidationOf(steps[k]) = NotReached /\ ExecutionOf(steps[k]) = NotReached
          /\ ContextOf(steps[k]) = NotChecked
          /\ PictureOf(steps[k]) = IF steps[k].image THEN NotChecked ELSE "verified-absent"
      BY <2>1, <3>1, Underway
    <3>6. IsOf(panel, k) => KeepsUp(panel, s)
      BY <2>1, <3>1, <3>2, <3>4, <3>5 DEF KeepsUp, Tells, SameStep
    <3> QED BY <1>1, <1>2, <3>1, <3>3, <3>6
  <2>8. CASE Plans(k)
    <3> DEFINE off == OffDevice(steps[k].kind)
               claim == IF off THEN "sent" ELSE "stayed-on-device"
               next == ContextTransmitted(panel, k, off)
    <3>1. PICK s : /\ GoesOn(k, s, next) /\ steps[k].at = "asking" /\ s.at = "judge"
                   /\ s.image = steps[k].image /\ s.answered = TRUE
                   /\ s.built = steps[k].built /\ s.left = steps[k].left
                   /\ s.verdict = steps[k].verdict /\ s.act = steps[k].act
      BY <2>8, PlansGoes
    <3>2. off \in BOOLEAN /\ (off <=> OffDevice(steps[k].kind))
      BY DEF OffDevice
    <3> HIDE DEF off
    <3>3. /\ Heard(next, panel, k)
          /\ next.receipt.context = (IF panel.gate.prepared = "none" THEN NotChecked ELSE claim)
          /\ next.receipt.picture = (IF panel.gate.prepared = "none" THEN NotChecked
                                     ELSE IF panel.gate.prepared = "text" THEN "verified-absent" ELSE claim)
          /\ next.receipt.validation = panel.receipt.validation /\ next.receipt.execution = panel.receipt.execution
      BY <1>1, <3>2, Transmission
    <3> HIDE DEF next
    <3>4. SameStep(s, steps[k])
      BY <3>1 DEF GoesOn, Turns
    <3>5. Course(s)
      BY <2>1, <3>1, <3>4 DEF Course, SameStep
    <3>6. next \in Panels /\ next.deployment = panel.deployment /\ next.receipt.backend = panel.receipt.backend
      BY <3>3 DEF Heard
    <3>7. /\ Lawful(s) /\ ValidationOf(s) = NotReached /\ ExecutionOf(s) = NotReached
          /\ ContextOf(s) = claim /\ PictureOf(s) = IF s.image THEN claim ELSE "verified-absent"
      BY <3>1, <3>2, <3>4, <3>5, Underway DEF SameStep
    <3>8. ValidationOf(steps[k]) = NotReached /\ ExecutionOf(steps[k]) = NotReached
      BY <2>1, Underway
    <3> HIDE DEF claim
    <3>9. IsOf(next, k) => KeepsUp(next, s)
      BY <2>1, <2>2, <3>1, <3>3, <3>4, <3>6, <3>7, <3>8 DEF KeepsUp, Tells, SameStep
    <3> QED BY <1>2, <3>1, <3>3, <3>5, <3>6, <3>9
  <2>9. CASE CallsExecute(k)
    <3>1. PICK s : /\ GoesOn(k, s, panel) /\ steps[k].at = "judge" /\ s.at = "execute"
                   /\ s.image = steps[k].image /\ s.verdict = "pass" /\ s.act = "asked"
                   /\ s.built = steps[k].built /\ s.left = steps[k].left /\ s.answered = steps[k].answered
      BY <2>9, CallsGoes
    <3>2. SameStep(s, steps[k])
      BY <3>1 DEF GoesOn, Turns
    <3>3. Course(s)
      BY <2>1, <3>1, <3>2 DEF Course, SameStep
    <3>4. /\ Lawful(s) /\ ValidationOf(s) = ValidationOf(steps[k]) /\ ExecutionOf(s) = ExecutionOf(steps[k])
          /\ ContextOf(s) = ContextOf(steps[k])
      BY <2>1, <3>1, <3>2, <3>3, Underway DEF SameStep
    <3>5. PictureOf(s) = PictureOf(steps[k])
      BY <3>1, <3>4 DEF PictureOf
    <3>6. IsOf(panel, k) => KeepsUp(panel, s)
      BY <2>1, <3>1, <3>2, <3>4, <3>5 DEF KeepsUp, Tells, SameStep
    <3> QED BY <1>1, <1>2, <3>1, <3>3, <3>6
  <2> QED BY <1>1, <2>3, <2>4, <2>5, <2>6, <2>7, <2>8, <2>9 DEF Advances
<1>3. /\ s \in StepStates /\ steps' = [steps EXCEPT ![k] = s] /\ UnderWay(k) /\ SameStep(s, steps[k])
      /\ panel' = (IF open THEN next ELSE panel) /\ UNCHANGED <<open, backend>>
  BY <1>2 DEF GoesOn, Turns, Aside
<1>4. steps'[k] = s /\ \A j \in Steps : j # k => steps'[j] = steps[j]
  BY <1>3, Replaced
<1>5. IF open THEN panel.deployment = backend ELSE panel = InitialPanel
  BY DEF Written, Listening
<1>6. Listening'
  <2>1. panel.receipt.captured => panel.receipt.by # {}
    BY DEF Written, Listening
  <2>2. panel'.receipt.captured => panel'.receipt.by # {}
    BY <1>2, <1>3, <2>1 DEF Heard
  <2>3. ASSUME NEW j \in panel'.receipt.by PROVE steps'[j].at \notin {"off", "snapshot"}
    <3>1. j \in panel.receipt.by \/ j = k
      BY <1>2, <1>3, <2>3 DEF Heard
    <3>2. panel.receipt.by \subseteq Steps
      BY <1>1 DEF Panels, ReceiptStates
    <3> QED BY <1>2, <1>4, <3>1, <3>2 DEF Written, Listening
  <2> QED BY <1>2, <1>3, <1>5, <2>2, <2>3 DEF Listening
<1>7. ASSUME NEW j \in Steps, UnderWay(j)' PROVE Course(steps[j])'
  <2>1. CASE j = k
    BY <1>2, <1>3, <1>4, <2>1 DEF Course
  <2>2. CASE j # k
    BY <1>3, <1>4, <1>7, <2>2 DEF Written, Course, UnderWay
  <2> QED BY <2>1, <2>2
<1>8. ASSUME NEW j \in Steps, UnderWay(j)', IsOf(panel, j)' PROVE KeepsUp(panel, steps[j])'
  <2>1. open
    <3>1. ~InitialPanel.receipt.captured
      BY BlankAtFirst DEF Blank
    <3> QED BY <1>3, <1>5, <1>8, <3>1 DEF IsOf
  <2>2. panel' = next /\ IsOf(next, j)
    BY <1>3, <1>8, <2>1 DEF IsOf
  <2>3. CASE j = k
    BY <1>2, <1>4, <2>1, <2>2, <2>3 DEF KeepsUp, Tells
  <2>4. CASE j # k
    <3>1. next = panel
      BY <1>2, <2>2, <2>4 DEF IsOf, Heard
    <3>2. steps'[j] = steps[j] /\ UnderWay(j)
      BY <1>4, <1>8, <2>4 DEF UnderWay
    <3> QED BY <2>2, <3>1, <3>2 DEF Written, KeepsUp, Tells
  <2> QED BY <2>3, <2>4
<1> QED BY <1>6, <1>7, <1>8 DEF Written

(* A step that begins has been heard of by no panel.                         *)
LEMMA WrittenBegins ==
    ASSUME TypeOK, Written, NEW k \in Steps, NEW s, TaskBegins(k, s) \/ StepBegins(k, s)
    PROVE  Written'
<1>1. /\ panel \in Panels /\ backend \in Kinds /\ panel.receipt.by \subseteq Steps
  BY DEF TypeOK, PanelOK, Panels, ReceiptStates
<1>2. /\ s \in StepStates /\ steps' = [steps EXCEPT ![k] = s] /\ steps[k].at = "off"
      /\ s.at = "snapshot" /\ Course(s) /\ UNCHANGED <<backend, open>>
      /\ panel' \in IF open THEN {LoopStep(panel), BackendSelected(panel, backend)} ELSE {panel}
  BY DEF TaskBegins, StepBegins, BeginsAs, IsNext
<1>3. steps'[k] = s /\ \A j \in Steps : j # k => steps'[j] = steps[j]
  BY <1>2, Replaced
<1>4. /\ Kept(panel', panel) /\ panel'.receipt.backend \in {panel.receipt.backend, backend}
      /\ IF open THEN panel'.deployment = backend ELSE panel' = InitialPanel
  <2>1. IF open THEN panel.deployment = backend ELSE panel = InitialPanel
    BY DEF Written, Listening
  <2>2. CASE open /\ panel' = LoopStep(panel)
    BY <1>1, <2>1, <2>2, Looping DEF Kept
  <2>3. CASE open /\ panel' = BackendSelected(panel, backend)
    BY <1>1, <2>3, SelectedKept
  <2>4. CASE ~open
    BY <1>2, <2>1, <2>4 DEF Kept
  <2> QED BY <1>2, <2>2, <2>3, <2>4
<1>5. k \notin panel.receipt.by
  BY <1>2 DEF Written, Listening
<1>6. Listening'
  BY <1>1, <1>2, <1>3, <1>4, <1>5 DEF Written, Listening, Kept
<1>7. ASSUME NEW j \in Steps, UnderWay(j)' PROVE Course(steps[j])'
  BY <1>2, <1>3, <1>7 DEF Written, Course, UnderWay
<1>8. ASSUME NEW j \in Steps, UnderWay(j)', IsOf(panel, j)' PROVE KeepsUp(panel, steps[j])'
  <2>1. IsOf(panel, j)
    BY <1>4, <1>8 DEF Kept, IsOf
  <2>2. j # k
    BY <1>5, <2>1 DEF IsOf
  <2>3. steps'[j] = steps[j] /\ UnderWay(j)
    BY <1>3, <1>8, <2>2 DEF UnderWay
  <2>4. KeepsUp(panel, steps[j]) /\ Course(steps[j])
    BY <2>1, <2>3 DEF Written
  <2> QED BY <1>4, <2>3, <2>4 DEF KeepsUp, Tells, Kept, Course
<1> QED BY <1>6, <1>7, <1>8 DEF Written

(* What a step ends with is sealed, and nothing more is written on it.       *)
LEMMA WrittenEnds ==
    ASSUME TypeOK, Written, NEW k \in Steps, EndsFor(k)
    PROVE  Written'
<1>1. PICK s, next : EndsAs(k, s, next) /\ next \in Panels /\ (next = panel \/ Heard(next, panel, k))
  BY DEF EndsFor, Fits
<1>2. /\ s \in StepStates /\ steps' = [steps EXCEPT ![k] = s] /\ UnderWay(k) /\ s.at = "done"
      /\ UNCHANGED <<open, backend>>
  BY <1>1 DEF EndsAs, Turns, Aside
<1>3. steps'[k] = s /\ \A j \in Steps : j # k => steps'[j] = steps[j]
  BY <1>2, Replaced
<1>4. /\ IF open THEN panel.deployment = backend ELSE panel = InitialPanel
      /\ panel.receipt.captured => panel.receipt.by # {}
      /\ panel.receipt.by \subseteq Steps
  BY DEF Written, Listening, TypeOK, PanelOK, Panels, ReceiptStates
<1>5. next.receipts = panel.receipts /\ next.deployment = panel.deployment
  BY <1>1 DEF Heard
<1>6. IF ~open THEN panel' = panel
      ELSE panel'.deployment = next.deployment /\ SealedAs(panel'.receipt, next, k, s.no)
  BY <1>1, <1>2, <1>5, Closing
<1>7. ~InitialPanel.receipt.captured /\ InitialPanel.receipt.by = {}
  BY BlankAtFirst DEF Blank
<1>8. panel'.receipt.by \subseteq panel.receipt.by \cup {k} /\ (panel'.receipt.captured => panel'.receipt.by # {})
  BY <1>1, <1>4, <1>6 DEF SealedAs, Heard
<1>9. ~(panel'.receipt.captured /\ ~panel'.receipt.sealed)
  BY <1>4, <1>6, <1>7 DEF SealedAs
<1>10. Listening'
  <2>1. \A j \in panel'.receipt.by : steps'[j].at \notin {"off", "snapshot"}
    BY <1>2, <1>3, <1>4, <1>8 DEF Written, Listening
  <2> QED BY <1>2, <1>4, <1>5, <1>6, <1>8, <2>1 DEF Listening
<1>11. ASSUME NEW j \in Steps, UnderWay(j)' PROVE Course(steps[j])'
  BY <1>2, <1>3, <1>11 DEF Written, Course, UnderWay
<1> QED BY <1>9, <1>10, <1>11 DEF Written, IsOf

LEMMA WrittenStep ==
    ASSUME TypeOK, Order, Written, [Next]_vars
    PROVE  Written'
<1>1. /\ panel \in Panels /\ backend \in Kinds /\ panel.receipt.by \subseteq Steps
      /\ \A k \in Steps : steps[k] \in StepStates
  BY DEF TypeOK, PanelOK, Panels, ReceiptStates
<1>2. IF open THEN panel.deployment = backend ELSE panel = InitialPanel
  BY DEF Written, Listening
<1>3. Kept(panel, panel) /\ \A k \in Steps : Alike(steps[k], steps[k])
  BY <1>1, AlikeSelf DEF Kept
<1>4. ASSUME steps' = steps, UNCHANGED <<open, backend>>,
             Kept(panel', panel), panel'.receipt.backend \in {panel.receipt.backend, backend},
             IF open THEN panel'.deployment = backend ELSE panel' = InitialPanel
      PROVE  Written'
  BY <1>1, <1>3, <1>4, WrittenStays DEF UnderWay
<1>5. CASE UNCHANGED vars \/ RestoreReads \/ RestoreLands \/ TaskRefused \/ TaskThrows
  <2>1. UNCHANGED <<steps, open, backend, panel>>
    BY <1>5 DEF vars, RestoreReads, RestoreLands, TaskRefused, TaskThrows, Wrong, Others
  <2> QED BY <1>2, <1>3, <1>4, <2>1
<1>6. CASE PanelOpens
  <2>1. /\ Blank(panel') /\ panel'.deployment = backend' /\ open' /\ UNCHANGED <<steps, backend>>
    BY <1>1, <1>6, BlankAtFirst, Opening, Selecting DEF PanelOpens, Opened
  <2> QED BY <1>1, <1>3, <2>1, WrittenStays DEF UnderWay
<1>7. CASE PanelCloses
  <2>1. /\ Blank(panel') /\ panel' = InitialPanel /\ ~open' /\ UNCHANGED <<steps, backend>>
    BY <1>7, BlankAtFirst DEF PanelCloses
  <2> QED BY <1>1, <1>3, <2>1, WrittenStays DEF UnderWay
<1>8. CASE \E on \in BOOLEAN : PlanOnlySet(on)
  <2>1. PICK on \in BOOLEAN : PlanOnlySet(on)
    BY <1>8
  <2>2. UNCHANGED <<open, backend, panel>>
    BY <2>1 DEF PlanOnlySet
  <2>3. \A k \in Steps : Alike(steps'[k], steps[k]) /\ steps'[k].moved = steps[k].moved
    BY <2>1, Toggled
  <2> QED BY <1>1, <1>2, <1>3, <2>2, <2>3, WrittenStays DEF Alike, UnderWay
<1>9. CASE \E kind \in Kinds, locked \in BOOLEAN : Switches(kind, locked)
  <2>1. PICK kind \in Kinds, locked \in BOOLEAN : Switches(kind, locked)
    BY <1>9
  <2>2. open /\ open' = open /\ backend' = kind /\ panel' = BackendSelected(panel, kind)
    BY <2>1 DEF Switches, Shows
  <2>3. \A k \in Steps : Alike(steps'[k], steps[k]) /\ (UnderWay(k) => steps'[k].moved)
    BY <2>1, Moved
  <2>4. Kept(panel', panel) /\ panel'.receipt.backend = backend' /\ panel'.deployment = backend'
    BY <1>1, <2>2, SelectedKept
  <2> QED BY <1>1, <2>2, <2>3, <2>4, WrittenStays DEF Alike, UnderWay
<1>10. CASE TaskAsked
  <2>1. steps' = steps /\ UNCHANGED <<open, backend>> /\ open /\ panel' = BackendSelected(panel, backend)
    BY <1>10 DEF TaskAsked, Shows
  <2> QED BY <1>1, <1>4, <2>1, SelectedKept
<1>11. CASE TaskStops
  <2>1. /\ steps' = steps /\ UNCHANGED <<open, backend>>
        /\ panel' = IF open THEN LoopStopped(panel) ELSE panel
    BY <1>11 DEF TaskStops, Shows, Plain, Others
  <2>2. Kept(panel', panel) /\ panel'.receipt = panel.receipt /\ panel'.deployment = panel.deployment
    BY <1>1, <1>3, <2>1, Looping DEF Kept
  <2> QED BY <1>2, <1>4, <2>1, <2>2
<1>12. CASE \E changed \in BOOLEAN : TaskVerifies(changed)
  <2>1. PICK changed \in BOOLEAN : TaskVerifies(changed)
    BY <1>12
  <2>2. steps' = steps /\ UNCHANGED <<open, backend>>
    BY <2>1 DEF TaskVerifies, Plain, Others
  <2>3. CASE panel' = panel
    BY <1>2, <1>3, <1>4, <2>2, <2>3
  <2>4. CASE panel' # panel
    <3>1. open /\ panel' = PageVerified(panel, LastStep, task.no, changed)
      BY <2>1, <2>4 DEF TaskVerifies, Shows
    <3>2. LastStep \in Steps /\ task.no \in Nat
      BY <2>1, Latest DEF TaskVerifies, Order, TypeOK, Tasks
    <3>3. Checked(panel'.receipt, panel.receipt, LastStep) /\ panel'.gate = panel.gate
          /\ panel'.deployment = panel.deployment
      BY <1>1, <3>1, <3>2, Checking
    <3> QED BY <1>2, <1>4, <2>2, <3>1, <3>3 DEF Checked, Kept
  <2> QED BY <2>3, <2>4
<1>13. CASE Evicted
  <2>1. UNCHANGED <<open, backend, panel>>
    BY <1>13 DEF Evicted
  <2>2. \A k \in Steps : ~UnderWay(k)' /\ (steps'[k].at = "off" => steps[k].at = "off") /\ steps'[k].at # "snapshot"
    BY <1>13, Cut DEF UnderWay
  <2> QED BY <1>1, <1>2, <1>3, <2>1, <2>2, WrittenStays
<1>14. ASSUME NEW k \in Steps, Advances(k)
       PROVE  Written'
  BY <1>14, WrittenAdvances
<1>15. ASSUME NEW k \in Steps, NEW s, TaskBegins(k, s) \/ StepBegins(k, s)
       PROVE  Written'
  BY <1>15, WrittenBegins
<1>16. ASSUME NEW k \in Steps, EndsFor(k)
       PROVE  Written'
  BY <1>16, WrittenEnds
<1> QED BY <1>5, <1>6, <1>7, <1>8, <1>9, <1>10, <1>11, <1>12, <1>13, <1>14, <1>15, <1>16, Cases

(* A step that is done stays as it is.                                       *)
LEMMA DoneStays ==
    ASSUME TypeOK, [Next]_vars, NEW k \in Steps, steps[k].at = "done"
    PROVE  steps'[k] = steps[k]
<1>1. CASE \/ UNCHANGED vars \/ PanelOpens \/ PanelCloses \/ RestoreReads \/ RestoreLands
           \/ TaskAsked \/ TaskRefused \/ TaskStops \/ TaskThrows
           \/ \E changed \in BOOLEAN : TaskVerifies(changed)
  BY <1>1 DEF vars, PanelOpens, PanelCloses, RestoreReads, RestoreLands, TaskAsked, TaskRefused,
              TaskStops, TaskThrows, TaskVerifies
<1>2. CASE \/ \E on \in BOOLEAN : PlanOnlySet(on)
           \/ \E kind \in Kinds, locked \in BOOLEAN : Switches(kind, locked)
           \/ Evicted
  <2>1. ~UnderWay(k)
    BY DEF UnderWay
  <2> QED BY <1>2, <2>1, Toggled, Moved, Cut
<1>3. ASSUME NEW j \in Steps, NEW s, TaskBegins(j, s) \/ StepBegins(j, s)
      PROVE  steps'[k] = steps[k]
  <2>1. s \in StepStates /\ steps' = [steps EXCEPT ![j] = s] /\ steps[j].at = "off"
    BY <1>3 DEF TaskBegins, StepBegins, BeginsAs, IsNext
  <2> QED BY <2>1, Replaced
<1>4. ASSUME NEW j \in Steps, Advances(j) \/ EndsFor(j)
      PROVE  steps'[k] = steps[k]
  <2>1. PICK s : Turns(j, s)
    BY <1>4, AdvancesGoes DEF GoesFor, GoesOn, EndsFor, EndsAs
  <2>2. s \in StepStates /\ steps' = [steps EXCEPT ![j] = s] /\ j # k
    BY <2>1 DEF Turns, UnderWay
  <2> QED BY <2>2, Replaced
<1> QED BY <1>1, <1>2, <1>3, <1>4, Cases

(* But for the end of a step, the receipts that are sealed stay, all of them *)
(* but for the page checks, or none.                                         *)
LEMMA ReceiptsStay ==
    ASSUME TypeOK, Order, [Next]_vars
    PROVE  \/ panel'.receipts = <<>>
           \/ /\ Len(panel'.receipts) = Len(panel.receipts)
              /\ \A i \in 1 .. Len(panel.receipts) : \E k \in Steps \cup {Nobody} :
                     Checked(panel'.receipts[i], panel.receipts[i], k)
           \/ \E k \in Steps : EndsFor(k)
<1>1. panel \in Panels /\ backend \in Kinds
  BY DEF TypeOK, PanelOK
<1>2. ASSUME panel'.receipts = panel.receipts
      PROVE  /\ Len(panel'.receipts) = Len(panel.receipts)
             /\ \A i \in 1 .. Len(panel.receipts) : \E k \in Steps \cup {Nobody} :
                    Checked(panel'.receipts[i], panel.receipts[i], k)
  <2>1. \A i \in 1 .. Len(panel.receipts) : panel.receipts[i] \in ReceiptStates
    BY <1>1 DEF Panels
  <2>2. \A r \in ReceiptStates : Checked(r, r, Nobody)
    BY DEF Checked
  <2> QED BY <1>2, <2>1, <2>2
<1>3. CASE UNCHANGED vars \/ RestoreReads \/ RestoreLands \/ TaskRefused \/ TaskThrows \/ Evicted
           \/ \E on \in BOOLEAN : PlanOnlySet(on)
  BY <1>2, <1>3 DEF vars, RestoreReads, RestoreLands, TaskRefused, TaskThrows, Evicted, PlanOnlySet
<1>4. CASE PanelOpens \/ PanelCloses
  <2>1. panel' \in {Opened(backend), InitialPanel}
    BY <1>4 DEF PanelOpens, PanelCloses
  <2> QED BY <1>1, <2>1, BlankAtFirst DEF Blank
<1>5. CASE TaskAsked \/ TaskStops \/ \E kind \in Kinds, locked \in BOOLEAN : Switches(kind, locked)
  <2>1. \/ panel' \in {panel, LoopStopped(panel)}
        \/ \E kind \in Kinds : panel' = BackendSelected(panel, kind)
    BY <1>1, <1>5 DEF TaskAsked, TaskStops, Switches, Shows
  <2>2. panel'.receipts = panel.receipts
    <3>1. CASE panel' \in {panel, LoopStopped(panel)}
      BY <1>1, <3>1, Looping
    <3>2. CASE \E kind \in Kinds : panel' = BackendSelected(panel, kind)
      <4>1. PICK kind \in Kinds : panel' = BackendSelected(panel, kind)
        BY <3>2
      <4>2. BackendSelected(panel, kind).receipts = panel.receipts
        BY <1>1, Selecting
      <4> QED BY <4>1, <4>2
    <3> QED BY <2>1, <3>1, <3>2
  <2> QED BY <1>2, <2>2
<1>6. CASE \E changed \in BOOLEAN : TaskVerifies(changed)
  <2>1. PICK changed \in BOOLEAN : TaskVerifies(changed)
    BY <1>6
  <2>2. LastStep \in Steps /\ task.no \in Nat
    BY <2>1, Latest DEF TaskVerifies, Order, TypeOK, Tasks
  <2>3. panel' \in {panel, PageVerified(panel, LastStep, task.no, changed)}
    BY <2>1 DEF TaskVerifies, Shows
  <2>4. CASE panel' = panel
    BY <1>2, <2>4
  <2>5. CASE panel' = PageVerified(panel, LastStep, task.no, changed)
    BY <1>1, <2>2, <2>5, Checking
  <2> QED BY <2>3, <2>4, <2>5
<1>7. ASSUME NEW k \in Steps, NEW s, TaskBegins(k, s) \/ StepBegins(k, s)
      PROVE  panel'.receipts = panel.receipts
  <2>1. panel' \in {panel, LoopStep(panel), BackendSelected(panel, backend)}
    BY <1>7 DEF TaskBegins, StepBegins
  <2>2. CASE panel' \in {panel, LoopStep(panel)}
    BY <1>1, <2>2, Looping
  <2>3. CASE panel' = BackendSelected(panel, backend)
    BY <1>1, <2>3, Selecting
  <2> QED BY <2>1, <2>2, <2>3
<1>8. ASSUME NEW k \in Steps, Advances(k)
      PROVE  panel'.receipts = panel.receipts
  BY <1>8, AdvancesGoes DEF GoesFor, GoesOn
<1> QED BY <1>2, <1>3, <1>4, <1>5, <1>6, <1>7, <1>8, Cases

LEMMA SealedInit == Init => Sealed
<1> SUFFICES ASSUME Init PROVE Sealed
  OBVIOUS
<1>1. panel.receipts = <<>>
  BY BlankAtFirst DEF Init, Blank
<1> QED BY <1>1 DEF Sealed

LEMMA SealedEnds ==
    ASSUME TypeOK, Written, Sealed, [Next]_vars, NEW k \in Steps, EndsFor(k)
    PROVE  Sealed'
<1>1. PICK s, next : EndsAs(k, s, next) /\ Fits(k, s, next)
  BY DEF EndsFor
<1>2. /\ s \in StepStates /\ steps' = [steps EXCEPT ![k] = s] /\ UnderWay(k) /\ s.at = "done"
      /\ next \in Panels /\ (next = panel \/ Heard(next, panel, k)) /\ next.receipts = panel.receipts
  BY <1>1 DEF EndsAs, Turns, Fits, Heard
<1>3. steps'[k] = s
  BY <1>2, Replaced
<1>4. \A j \in Steps : steps[j].at = "done" => steps'[j] = steps[j]
  BY DoneStays
<1>5. CASE ~open
  <2>1. panel' = panel
    BY <1>1, <1>2, <1>5, Closing
  <2> QED BY <1>4, <2>1 DEF Sealed
<1>6. CASE open
  <2> DEFINE r == panel'.receipt
  <2>1. /\ SealedAs(r, next, k, s.no)
        /\ \A i \in 1 .. Len(panel'.receipts) :
               panel'.receipts[i] = r \/ \E j \in 1 .. Len(panel.receipts) : panel'.receipts[i] = panel.receipts[j]
    BY <1>1, <1>2, <1>6, Closing
  <2>2. ASSUME r.by = {k}, r.captured PROVE Tells(r, s)
    <3>1. /\ ~next.receipt.sealed /\ next.receipt.captured /\ next.receipt.by = {k}
          /\ Tells(next.receipt, s) => Tells(r, s)
      BY <2>1, <2>2 DEF SealedAs, Tells
    <3>2. IsOf(panel, k)
      BY <1>2, <3>1 DEF Heard, IsOf, Written, Listening
    <3>3. Course(steps[k]) /\ Tells(panel.receipt, steps[k])
      BY <1>2, <3>2 DEF Written, KeepsUp
    <3> QED BY <1>1, <3>1, <3>3 DEF Fits
  <2>3. r.of = k
    BY <2>1 DEF SealedAs
  <2>4. ASSUME NEW i \in 1 .. Len(panel'.receipts)
        PROVE  LET t == panel'.receipts[i] IN
               /\ t.of \in Steps /\ steps'[t.of].at = "done"
               /\ t.by = {t.of} /\ t.captured => Tells(t, steps'[t.of])
    <3>1. CASE panel'.receipts[i] = r
      BY <1>2, <1>3, <2>2, <2>3, <3>1
    <3>2. CASE \E j \in 1 .. Len(panel.receipts) : panel'.receipts[i] = panel.receipts[j]
      BY <1>4, <3>2 DEF Sealed
    <3> QED BY <2>1, <3>1, <3>2
  <2> QED BY <2>4 DEF Sealed
<1> QED BY <1>5, <1>6

LEMMA SealedStep ==
    ASSUME TypeOK, Order, Written, Sealed, [Next]_vars
    PROVE  Sealed'
<1>1. CASE panel'.receipts = <<>>
  BY <1>1 DEF Sealed
<1>2. CASE /\ Len(panel'.receipts) = Len(panel.receipts)
           /\ \A i \in 1 .. Len(panel.receipts) : \E k \in Steps \cup {Nobody} :
                  Checked(panel'.receipts[i], panel.receipts[i], k)
  BY <1>2, DoneStays DEF Sealed, Checked, Tells
<1>3. CASE \E k \in Steps : EndsFor(k)
  BY <1>3, SealedEnds
<1> QED BY <1>1, <1>2, <1>3, ReceiptsStay

-----------------------------------------------------------------------------
(* As long as no step met another.                                           *)

LEMMA UnmetStays ==
    ASSUME Unmet,
           \/ Blank(panel')
           \/ /\ Kept(panel', panel) /\ panel'.receipt.checked = panel.receipt.checked
              /\ panel'.receipts = panel.receipts,
           \A k \in Steps : /\ UnderWay(k)' <=> UnderWay(k)
                            /\ UnderWay(k) => Alike(steps'[k], steps[k])
                            /\ steps'[k].task = steps[k].task,
           \/ task'.at \in {"off", "entering"}
           \/ /\ task.at \notin {"off", "entering"}
              /\ task'.at = "settling" => task.at = "settling" /\ task'.no = task.no
    PROVE  Unmet'
<1>1. Single'
  BY DEF Unmet, Single
<1>2. Owned'
  <2>1. CASE Blank(panel')
    BY <2>1 DEF Blank, Owned
  <2>2. CASE Kept(panel', panel) /\ panel'.receipt.checked = panel.receipt.checked
    BY <2>2 DEF Unmet, Owned, Kept, Alike
  <2> QED BY <2>1, <2>2
<1>3. OfOne'
  <2>1. CASE Blank(panel')
    BY <2>1 DEF Blank, OfOne
  <2>2. CASE panel'.receipts = panel.receipts
    <3>1. \A k \in Steps : IsLast(k) => IsLast(k)'
      BY DEF IsLast
    <3>2. ASSUME task'.at = "settling", panel'.receipts # <<>>
          PROVE  (LET r == panel.receipts[Len(panel.receipts)]
                  IN \E k \in Steps : IsLast(k) /\ r.of = k /\ r.step = task.no)'
      <4>1. task.at = "settling" /\ task'.no = task.no
        BY <3>2
      <4> QED BY <2>2, <3>1, <3>2, <4>1 DEF Unmet, OfOne
    <3> QED BY <2>2, <3>2 DEF Unmet, OfOne
  <2> QED BY <2>1, <2>2
<1>4. Proof'
  <2>1. CASE Blank(panel')
    BY <2>1 DEF Blank, Proof
  <2>2. CASE Kept(panel', panel)
    <3>1. Agrees(panel) => Agrees(panel)'
      BY <2>2 DEF Agrees, Kept
    <3> QED BY <2>2, <3>1 DEF Unmet, Proof, Kept, Alike
  <2> QED BY <2>1, <2>2
<1> QED BY <1>1, <1>2, <1>3, <1>4 DEF Unmet

LEMMA UnmetBegins ==
    ASSUME TypeOK, Unmet, NEW k \in Steps, NEW s, TaskBegins(k, s) \/ StepBegins(k, s), ~crossed'
    PROVE  Unmet'
<1>1. /\ s \in StepStates /\ steps' = [steps EXCEPT ![k] = s] /\ s.at = "snapshot"
      /\ \A j \in Steps : ~UnderWay(j)
      /\ s.task \/ task.at \in {"off", "entering"}
  BY DEF TaskBegins, StepBegins, BeginsAs
<1>2. steps'[k] = s /\ \A j \in Steps : j # k => steps'[j] = steps[j]
  BY <1>1, Replaced
<1>3. /\ \A j \in Steps : UnderWay(j)' => j = k
      /\ task'.at # "settling" /\ (~s.task => task'.at \in {"off", "entering"})
  BY <1>1, <1>2 DEF UnderWay, TaskBegins, StepBegins
<1>4. Kept(panel', panel) /\ panel'.receipts = panel.receipts
  <2>1. panel \in Panels /\ backend \in Kinds
    BY DEF TypeOK, PanelOK
  <2>2. panel' \in {panel, LoopStep(panel), BackendSelected(panel, backend)}
    BY DEF TaskBegins, StepBegins
  <2>3. CASE panel' \in {panel, LoopStep(panel)}
    BY <2>1, <2>3, Looping DEF Kept
  <2>4. CASE panel' = BackendSelected(panel, backend)
    BY <2>1, <2>4, Selecting, SelectedKept
  <2> QED BY <2>2, <2>3, <2>4
<1>5. Single'
  BY <1>2, <1>3 DEF Single
<1>6. Owned'
  BY <1>1, <1>2, <1>3, <1>4 DEF Unmet, Owned, Kept
<1>7. OfOne'
  BY <1>3, <1>4 DEF Unmet, OfOne
<1>8. Proof'
  <2>1. Agrees(panel) => Agrees(panel)'
    BY <1>4 DEF Agrees, Kept
  <2> QED BY <1>1, <1>2, <1>3, <1>4, <2>1 DEF Unmet, Proof, Kept
<1> QED BY <1>5, <1>6, <1>7, <1>8 DEF Unmet

(* The page check is of the step the last receipt is of.                     *)
LEMMA UnmetVerifies ==
    ASSUME TypeOK, Order, Unmet, NEW changed \in BOOLEAN, TaskVerifies(changed)
    PROVE  Unmet'
<1>1. /\ panel \in Panels /\ steps' = steps /\ task.at = "settling" /\ task'.at = "between" /\ task.no \in Nat
  BY DEF TypeOK, PanelOK, TaskVerifies, Tasks
<1>2. \A k \in Steps : ~UnderWay(k) /\ ~UnderWay(k)'
  BY <1>1 DEF Unmet, Single, Order, UnderWay
<1>3. PICK k \in Steps : IsLast(k) /\ LastStep = k
  BY <1>1, Latest DEF Order
<1>4. CASE panel' = panel
  BY <1>1, <1>2, <1>4 DEF Unmet, Single, Owned, OfOne, Proof, Agrees
<1>5. CASE panel' # panel
  <2>1. panel' = PageVerified(panel, k, task.no, changed)
    BY <1>3, <1>5 DEF TaskVerifies, Shows
  <2>2. /\ panel'.gate = panel.gate /\ Checked(panel'.receipt, panel.receipt, k)
        /\ Len(panel'.receipts) = Len(panel.receipts)
        /\ \A i \in 1 .. Len(panel.receipts) :
               /\ Checked(panel'.receipts[i], panel.receipts[i], k)
               /\ \/ panel'.receipts[i] = panel.receipts[i]
                  \/ \A j \in 1 .. Len(panel.receipts) : panel.receipts[j].step = task.no => j <= i
    BY <1>1, <2>1, Checking
  <2>3. Single' /\ Owned'
    BY <1>2, <2>2 DEF Unmet, Single, Owned, Checked
  <2>4. Proof'
    <3>1. Agrees(panel) => Agrees(panel)'
      BY <2>2 DEF Agrees, Checked
    <3> QED BY <1>2, <2>2, <3>1 DEF Unmet, Proof, Checked
  <2>5. ASSUME NEW i \in 1 .. Len(panel'.receipts)
        PROVE  LET r == panel'.receipts[i] IN r.by \subseteq {r.of} /\ r.checked \in {Nobody, r.of}
    <3> DEFINE n == Len(panel.receipts)
               r == panel.receipts[i]
    <3>1. n \in Nat /\ i \in 1 .. n /\ n \in 1 .. n /\ panel.receipts # <<>>
      <4>1. n \in Nat /\ i \in 1 .. n
        BY <1>1, <2>2, LenProperties DEF Panels
      <4>2. n > 0
        BY <4>1
      <4>3. panel.receipts # <<>>
        BY <4>2
      <4> QED BY <4>1, <4>2, <4>3
    <3>2. r.by \subseteq {r.of} /\ r.checked \in {Nobody, r.of}
      BY <3>1 DEF Unmet, OfOne
    <3>3. CASE panel'.receipts[i] = r
      BY <3>2, <3>3
    <3>4. CASE \A j \in 1 .. n : panel.receipts[j].step = task.no => j <= i
      <4>1. PICK j \in Steps : IsLast(j) /\ panel.receipts[n].of = j /\ panel.receipts[n].step = task.no
        BY <1>1, <3>1 DEF Unmet, OfOne
      <4>2. i = n
        BY <3>1, <3>4, <4>1
      <4>3. r.of = k
        BY <1>3, <4>1, <4>2, Latest
      <4>4. Checked(panel'.receipts[i], r, k)
        BY <2>2, <3>1
      <4> QED BY <3>2, <4>3, <4>4 DEF Checked
    <3> QED BY <2>2, <3>1, <3>3, <3>4
  <2>6. OfOne'
    BY <1>1, <2>5 DEF OfOne
  <2> QED BY <2>3, <2>4, <2>6 DEF Unmet
<1> QED BY <1>4, <1>5

LEMMA UnmetEnds ==
    ASSUME TypeOK, Order, Order', Written, Unmet, NEW k \in Steps, EndsFor(k)
    PROVE  Unmet'
<1>1. PICK s, next : EndsAs(k, s, next) /\ Fits(k, s, next)
  BY DEF EndsFor
<1>2. /\ s \in StepStates /\ steps' = [steps EXCEPT ![k] = s] /\ UnderWay(k) /\ s.at = "done"
      /\ s.task = steps[k].task /\ s.no = steps[k].no
      /\ next \in Panels /\ (next = panel \/ Heard(next, panel, k)) /\ next.receipts = panel.receipts
  BY <1>1 DEF EndsAs, Turns, SameStep, Fits, Heard
<1>3. steps'[k] = s /\ \A j \in Steps : j # k => steps'[j] = steps[j]
  BY <1>2, Replaced
<1>4. \A j \in Steps : (UnderWay(j) => j = k) /\ ~UnderWay(j)'
  BY <1>2, <1>3 DEF Unmet, Single, UnderWay
<1>5. Single'
  BY <1>4 DEF Single
<1>6. task'.at = "settling" => s.task /\ IsLast(k)' /\ s.no = task'.no
  <2>1. ASSUME task'.at = "settling" PROVE s.task
    <3>1. CASE ~s.task
      <4>1. task' = task
        BY <1>1, <3>1, Settling
      <4> QED BY <1>2, <2>1, <3>1, <4>1 DEF Unmet, Single
    <3> QED BY <3>1
  <2>2. ASSUME s.task, task'.at = "settling" PROVE s.no = task'.no
    <3>1. task' = NoTask \/ task'.no = task.no
      BY <1>1, <2>2, Settling
    <3>2. NoTask.at = "off"
      BY DEF NoTask
    <3>3. task'.no = task.no
      BY <2>2, <3>1, <3>2
    <3> QED BY <1>2, <2>2, <3>3 DEF Order
  <2>3. ASSUME s.task PROVE IsLast(k)'
    <3>1. IsLast(k) /\ \A j \in Steps : steps'[j].task = steps[j].task
      BY <1>2, <1>3, <2>3 DEF Order
    <3> QED BY <3>1 DEF IsLast
  <2> QED BY <2>1, <2>2, <2>3
<1>7. CASE ~open
  <2>1. panel' = InitialPanel
    BY <1>1, <1>2, <1>7, Closing DEF Written, Listening
  <2> QED BY <1>5, <2>1, BlankAtFirst DEF Unmet, Blank, Owned, OfOne, Proof
<1>8. CASE open
  <2> DEFINE r == panel'.receipt
  <2>1. /\ SealedAs(r, next, k, s.no) /\ panel'.gate = next.gate
        /\ panel'.receipts # <<>> /\ panel'.receipts[Len(panel'.receipts)] = r
        /\ \A i \in 1 .. Len(panel'.receipts) :
               panel'.receipts[i] = r \/ \E j \in 1 .. Len(panel.receipts) : panel'.receipts[i] = panel.receipts[j]
    BY <1>1, <1>2, <1>8, Closing
  <2>2. next.receipt.captured /\ ~next.receipt.sealed => next.receipt.by = {k} /\ next.receipt.checked = Nobody
    BY <1>2, <1>4 DEF Unmet, Owned, Heard
  <2>3. r.of = k /\ r.step = s.no /\ r.by \subseteq {k} /\ r.checked = Nobody
    BY <2>1, <2>2 DEF SealedAs
  <2>4. Owned'
    BY <1>4, <2>1 DEF Owned, SealedAs
  <2>5. OfOne'
    BY <1>6, <2>1, <2>3 DEF Unmet, OfOne
  <2>6. Proof'
    <3>1. SUFFICES ASSUME r.captured PROVE Agrees(panel)'
      BY <1>4 DEF Proof
    <3>2. /\ next.receipt.captured /\ ~next.receipt.sealed
          /\ r.redacted = next.receipt.redacted /\ r.context = next.receipt.context
          /\ r.picture = next.receipt.picture
      BY <2>1, <3>1 DEF SealedAs
    <3>3. panel.receipt.captured
      BY <1>2, <3>2 DEF Heard
    <3>4. Agrees(panel) /\ (steps[k].at = "sanitize" => panel.gate.transmitted = "none")
      BY <1>2, <3>3 DEF Unmet, Proof
    <3>5. Agrees(next)
      BY <1>1, <3>4 DEF Fits
    <3> QED BY <2>1, <3>2, <3>5 DEF Agrees
  <2> QED BY <1>5, <2>4, <2>5, <2>6 DEF Unmet
<1> QED BY <1>7, <1>8

LEMMA UnmetAdvances ==
    ASSUME TypeOK, Written, Unmet, NEW k \in Steps, Advances(k)
    PROVE  Unmet'
<1>1. panel \in Panels /\ steps[k] \in StepStates /\ steps[k].image \in BOOLEAN /\ UnderWay(k)
  BY AdvancesGoes DEF TypeOK, PanelOK, StepStates, GoesFor, GoesOn, Turns
<1>2. SUFFICES ASSUME NEW s, NEW next,
                      GoesOn(k, s, next), s.at \in {"redact", "bake", "sanitize", "plan", "asking", "judge", "execute"},
                      next.receipts = panel.receipts,
                      next.receipt.captured =>
                          /\ ~next.receipt.sealed /\ next.receipt.checked = Nobody /\ next.receipt.by = {k}
                          /\ Agrees(next)
                          /\ s.at \in {"sanitize", "plan", "asking"} => ~(next.gate.bake = "short" /\ s.image)
                          /\ s.at \notin {"judge", "execute"} => next.gate.transmitted = "none"
               PROVE  Unmet'
  <2>1. ASSUME panel.receipt.captured, steps[k].at # "snapshot"
        PROVE  /\ ~panel.receipt.sealed /\ panel.receipt.checked = Nobody /\ panel.receipt.by = {k}
               /\ Tells(panel.receipt, steps[k])
    <3>1. ~panel.receipt.sealed
      BY <1>1, <2>1 DEF Unmet, Owned
    <3>2. panel.receipt.checked = Nobody /\ panel.receipt.by = {k}
      BY <1>1, <2>1, <3>1 DEF Unmet, Owned, Single
    <3>3. IsOf(panel, k)
      BY <2>1, <3>1, <3>2 DEF IsOf
    <3> QED BY <1>1, <3>1, <3>2, <3>3 DEF Written, KeepsUp
  <2>2. ASSUME NEW next, Heard(next, panel, k), next.receipt.captured, steps[k].at # "snapshot"
        PROVE  /\ panel.receipt.captured /\ ~next.receipt.sealed
               /\ next.receipt.checked = Nobody /\ next.receipt.by = {k}
    BY <2>1, <2>2 DEF Heard
  <2>3. Course(steps[k]) /\ (panel.receipt.captured => Agrees(panel))
    BY <1>1 DEF Written, Unmet, Proof
  <2>4. panel.receipt.captured =>
            /\ steps[k].at \in {"sanitize", "plan", "asking"} => ~(panel.gate.bake = "short" /\ steps[k].image)
            /\ steps[k].at \in {"redact", "bake", "sanitize", "plan", "asking"} => panel.gate.transmitted = "none"
    BY <1>1 DEF Unmet, Proof
  <2>5. CASE Captures(k)
    <3> DEFINE next == FrameCaptured(panel, k)
    <3>1. PICK s : GoesOn(k, s, next) /\ s.at = "redact"
      BY <2>5, CapturesGoes
    <3>2. /\ next.receipts = panel.receipts
          /\ next.receipt.captured /\ ~next.receipt.sealed /\ next.receipt.by = {k} /\ next.receipt.checked = Nobody
          /\ ~next.receipt.redacted /\ next.receipt.context = NotChecked
          /\ ~next.gate.redacted /\ next.gate.bake = "none" /\ next.gate.transmitted = "none"
          /\ next \in Panels
      BY <1>1, Began
    <3> HIDE DEF next
    <3>3. Agrees(next)
      <4>1. next.gate.redacted \in BOOLEAN /\ next.receipt.redacted \in BOOLEAN
        BY <3>2 DEF Panels, Gates, ReceiptStates
      <4> QED BY <3>2, <4>1 DEF Agrees, NotChecked
    <3> QED BY <1>2, <3>1, <3>2, <3>3
  <2>6. CASE Redacts(k)
    <3> DEFINE next == RedactionDone(panel, k)
    <3>1. PICK s : /\ GoesOn(k, s, next) /\ steps[k].at = "redact" /\ s.at \in {"bake", "sanitize"}
                   /\ s.image = steps[k].image
      BY <2>6, RedactsGoes
    <3>2. /\ Heard(next, panel, k)
          /\ next.receipt.redacted /\ next.gate.redacted
          /\ next.receipt.context = panel.receipt.context /\ next.receipt.picture = panel.receipt.picture
          /\ next.gate.bake = panel.gate.bake /\ next.gate.transmitted = panel.gate.transmitted
      BY <1>1, Redaction
    <3> HIDE DEF next
    <3>3. next.receipts = panel.receipts
      BY <3>2 DEF Heard
    <3>4. ASSUME next.receipt.captured
          PROVE  Agrees(next) /\ ~s.image /\ next.gate.transmitted = "none"
      <4>1. panel.receipt.captured /\ next \in Panels
        BY <3>2, <3>4 DEF Heard
      <4>2. next.gate.redacted \in BOOLEAN /\ next.receipt.redacted \in BOOLEAN
        BY <4>1 DEF Panels, Gates, ReceiptStates
      <4> QED BY <2>3, <2>4, <3>1, <3>2, <4>1, <4>2 DEF Agrees, Course
    <3> QED BY <1>2, <2>2, <3>1, <3>2, <3>3, <3>4
  <2>7. CASE \E bake \in {"none", "landed", "short"} : Bakes(k, bake)
    <3>1. PICK bake \in {"none", "landed", "short"} : Bakes(k, bake)
      BY <2>7
    <3> DEFINE heard == BakeDone(panel, k, bake)
               next == IF bake = "none" THEN panel ELSE heard
    <3>2. PICK s : /\ GoesOn(k, s, next) /\ steps[k].at = "bake" /\ s.at = "sanitize"
                   /\ s.image = (bake = "landed")
      BY <3>1, BakesGoes
    <3>3. /\ Heard(heard, panel, k)
          /\ heard.receipt.redacted = panel.receipt.redacted /\ heard.gate.redacted = panel.gate.redacted
          /\ heard.receipt.context = panel.receipt.context /\ heard.receipt.picture = panel.receipt.picture
          /\ heard.gate.bake = bake /\ heard.gate.transmitted = panel.gate.transmitted
      BY <1>1, Baking
    <3> HIDE DEF heard
    <3>4. /\ next = panel \/ Heard(next, panel, k)
          /\ next.receipts = panel.receipts /\ next.receipt.captured = panel.receipt.captured
          /\ next.receipt.redacted = panel.receipt.redacted /\ next.gate.redacted = panel.gate.redacted
          /\ next.receipt.context = panel.receipt.context /\ next.receipt.picture = panel.receipt.picture
          /\ next.gate.bake = "short" => bake # "landed"
          /\ next.gate.transmitted = panel.gate.transmitted
      <4>1. CASE bake = "none"
        BY <4>1
      <4>2. CASE bake # "none"
        BY <3>3, <4>2 DEF Heard
      <4> QED BY <4>1, <4>2
    <3> HIDE DEF next
    <3>5. ASSUME next.receipt.captured
          PROVE  /\ ~next.receipt.sealed /\ next.receipt.checked = Nobody /\ next.receipt.by = {k}
                 /\ Agrees(next) /\ ~(next.gate.bake = "short" /\ s.image) /\ next.gate.transmitted = "none"
      <4>1. panel.receipt.captured /\ steps[k].at # "snapshot"
        BY <3>2, <3>4, <3>5
      <4>2. ~next.receipt.sealed /\ next.receipt.checked = Nobody /\ next.receipt.by = {k}
        BY <2>1, <2>2, <3>4, <3>5, <4>1
      <4>3. panel.receipt.picture = NotChecked
        BY <2>1, <2>3, <3>2, <4>1, Underway DEF Tells
      <4>4. Agrees(next)
        BY <2>3, <3>4, <4>1, <4>3 DEF Agrees, NotChecked
      <4> QED BY <2>4, <3>2, <3>4, <4>1, <4>2, <4>4
    <3> QED BY <1>2, <3>2, <3>4, <3>5
  <2>8. CASE \E blocked \in BOOLEAN : ~blocked /\ Sanitizes(k, blocked)
    <3>1. PICK blocked \in BOOLEAN : ~blocked /\ Sanitizes(k, blocked)
      BY <2>8
    <3> DEFINE next == PrivacyVerified(ContextSent(panel, k, steps[k].image), k, blocked)
    <3>2. PICK s : /\ GoesOn(k, s, next) /\ steps[k].at = "sanitize" /\ s.at = "plan"
                   /\ s.image = steps[k].image
      BY <3>1, SanitizesGoes
    <3>3. /\ Heard(next, panel, k)
          /\ next.receipt.redacted = panel.receipt.redacted /\ next.gate.redacted = panel.gate.redacted
          /\ next.receipt.context = (IF blocked THEN "blocked" ELSE NotChecked)
          /\ next.receipt.picture = (IF blocked THEN "blocked" ELSE IF steps[k].image THEN NotChecked ELSE "verified-absent")
          /\ next.gate.bake = panel.gate.bake /\ next.gate.transmitted = panel.gate.transmitted
      BY <1>1, Preparing
    <3> HIDE DEF next
    <3>4. ASSUME next.receipt.captured
          PROVE  Agrees(next) /\ ~(next.gate.bake = "short" /\ s.image) /\ next.gate.transmitted = "none"
      <4>1. panel.receipt.captured
        BY <3>3, <3>4 DEF Heard
      <4>2. next.receipt.context # "sent" /\ next.receipt.picture # "sent"
        BY <3>1, <3>3 DEF NotChecked
      <4> QED BY <2>3, <2>4, <3>2, <3>3, <4>1, <4>2 DEF Agrees
    <3> QED BY <1>2, <2>2, <3>2, <3>3, <3>4 DEF Heard
  <2>9. CASE Plans(k)
    <3> DEFINE off == OffDevice(steps[k].kind)
               claim == IF off THEN "sent" ELSE "stayed-on-device"
               next == ContextTransmitted(panel, k, off)
    <3>1. PICK s : GoesOn(k, s, next) /\ steps[k].at = "asking" /\ s.at = "judge"
      BY <2>9, PlansGoes
    <3>2. off \in BOOLEAN
      BY DEF OffDevice
    <3> HIDE DEF off
    <3>3. /\ Heard(next, panel, k)
          /\ next.receipt.redacted = panel.receipt.redacted /\ next.gate.redacted = panel.gate.redacted
          /\ next.receipt.context = (IF panel.gate.prepared = "none" THEN NotChecked ELSE claim)
          /\ next.receipt.picture = (IF panel.gate.prepared = "none" THEN NotChecked
                                     ELSE IF panel.gate.prepared = "text" THEN "verified-absent" ELSE claim)
          /\ next.gate.bake = panel.gate.bake
          /\ next.gate.transmitted = (IF off THEN "cloud" ELSE "on-device")
      BY <1>1, <3>2, Transmission
    <3> HIDE DEF next
    <3>4. ASSUME next.receipt.captured PROVE Agrees(next)
      <4>1. panel.receipt.captured /\ steps[k].at # "snapshot"
        BY <3>1, <3>3, <3>4 DEF Heard
      <4>2. IsOf(panel, k)
        BY <2>1, <4>1 DEF IsOf
      <4>3. panel.gate.prepared = IF steps[k].image THEN "image" ELSE "text"
        BY <1>1, <3>1, <4>2 DEF Written, KeepsUp
      <4>4. next.receipt.context = claim
            /\ next.receipt.picture = IF steps[k].image THEN claim ELSE "verified-absent"
        BY <3>3, <4>3
      <4>5. panel.gate.bake = "short" => ~steps[k].image
        BY <2>4, <3>1, <4>1
      <4> QED BY <2>3, <3>3, <4>1, <4>4, <4>5 DEF Agrees
    <3> QED BY <1>2, <2>2, <3>1, <3>3, <3>4 DEF Heard
  <2>10. CASE Requests(k) \/ CallsExecute(k)
    <3>1. PICK s : /\ GoesOn(k, s, panel) /\ s.image = steps[k].image
                   /\ \/ steps[k].at = "plan" /\ s.at = "asking"
                      \/ steps[k].at = "judge" /\ s.at = "execute"
      BY <2>10, RequestsGoes, CallsGoes
    <3>2. panel.receipt.captured => ~(panel.gate.bake = "short" /\ s.image) \/ s.at = "execute"
      BY <2>4, <3>1
    <3>3. panel.receipt.captured => panel.gate.transmitted = "none" \/ s.at = "execute"
      BY <2>4, <3>1
    <3>4. panel.receipt.captured => ~panel.receipt.sealed /\ panel.receipt.checked = Nobody /\ panel.receipt.by = {k}
      BY <2>1, <3>1
    <3> QED BY <1>2, <2>3, <3>1, <3>2, <3>3, <3>4
  <2> QED BY <2>5, <2>6, <2>7, <2>8, <2>9, <2>10 DEF Advances
<1>3. /\ s \in StepStates /\ steps' = [steps EXCEPT ![k] = s] /\ s.task = steps[k].task
      /\ task' = task /\ panel' = (IF open THEN next ELSE panel)
  BY <1>2 DEF GoesOn, Turns, SameStep
<1>4. steps'[k] = s /\ \A j \in Steps : j # k => steps'[j] = steps[j]
  BY <1>3, Replaced
<1>5. \A j \in Steps : /\ UnderWay(j)' => j = k
                       /\ steps'[j].task = steps[j].task
  <2>1. \A j \in Steps : UnderWay(j) => j = k
    BY <1>1 DEF Unmet, Single
  <2> QED BY <1>3, <1>4, <2>1 DEF UnderWay
<1>6. UnderWay(k)' /\ steps'[k].at \notin {"snapshot"}
  BY <1>2, <1>4 DEF UnderWay
<1>7. Single'
  BY <1>1, <1>3, <1>5 DEF Unmet, Single
<1>8. OfOne'
  <2>1. panel'.receipts = panel.receipts
    BY <1>2, <1>3
  <2>2. \A j \in Steps : IsLast(j) => IsLast(j)'
    BY <1>5 DEF IsLast
  <2> QED BY <1>3, <2>1, <2>2 DEF Unmet, OfOne
<1>9. CASE ~open
  <2>1. panel' = InitialPanel
    BY <1>3, <1>9 DEF Written, Listening
  <2>2. ~panel'.receipt.captured
    BY <2>1, BlankAtFirst DEF Blank
  <2>3. Owned' /\ Proof'
    BY <2>2 DEF Owned, Proof
  <2> QED BY <1>7, <1>8, <2>3 DEF Unmet
<1>10. CASE open
  <2>1. panel' = next
    BY <1>3, <1>10
  <2>2. Owned'
    BY <1>2, <1>5, <1>6, <2>1 DEF Owned
  <2>3. Proof'
    <3>1. Agrees(next) => Agrees(panel)'
      BY <2>1 DEF Agrees
    <3> QED BY <1>2, <1>4, <1>5, <2>1, <3>1 DEF Proof
  <2> QED BY <1>7, <1>8, <2>2, <2>3 DEF Unmet
<1> QED BY <1>9, <1>10

LEMMA MetInit == Init => Met
<1> SUFFICES ASSUME Init PROVE Unmet
  BY DEF Met
<1>1. Blank(panel)
  BY BlankAtFirst DEF Init
<1>2. \A k \in Steps : ~UnderWay(k)
  BY DEF Init, NoStep, UnderWay
<1> QED BY <1>1, <1>2 DEF Unmet, Single, Owned, OfOne, Proof, Blank

LEMMA MetStep ==
    ASSUME TypeOK, Order, Order', Written, Met, [Next]_vars
    PROVE  Met'
<1>1. SUFFICES ASSUME ~crossed' PROVE Unmet'
  BY DEF Met
<1>2. /\ panel \in Panels /\ backend \in Kinds /\ Kept(panel, panel)
      /\ \A k \in Steps : Alike(steps[k], steps[k])
  BY AlikeSelf DEF TypeOK, PanelOK, Kept
<1>3. CASE UNCHANGED vars \/ RestoreReads \/ RestoreLands
  <2>1. ~crossed /\ UNCHANGED <<steps, task, panel>>
    BY <1>1, <1>3 DEF vars, RestoreReads, RestoreLands
  <2> QED BY <1>2, <2>1, UnmetStays DEF Met, UnderWay
<1>4. CASE PanelOpens \/ PanelCloses
  <2>1. ~crossed /\ UNCHANGED <<steps, task>> /\ panel' \in {Opened(backend), InitialPanel}
    BY <1>1, <1>4 DEF PanelOpens, PanelCloses
  <2>2. Blank(panel')
    BY <1>2, <2>1, BlankAtFirst
  <2> QED BY <1>2, <2>1, <2>2, UnmetStays DEF Met, UnderWay
<1>5. CASE \E on \in BOOLEAN : PlanOnlySet(on)
  <2>1. PICK on \in BOOLEAN : PlanOnlySet(on)
    BY <1>5
  <2>2. ~crossed /\ panel' = panel
    BY <1>1, <2>1 DEF PlanOnlySet
  <2>3. \A k \in Steps : Alike(steps'[k], steps[k])
    BY <2>1, Toggled
  <2>4. task'.at = task.at /\ task'.no = task.no
    BY <2>1 DEF PlanOnlySet, TypeOK, Tasks
  <2> QED BY <1>2, <2>2, <2>3, <2>4, UnmetStays DEF Met, Alike, UnderWay
<1>6. CASE \E kind \in Kinds, locked \in BOOLEAN : Switches(kind, locked)
  <2>1. PICK kind \in Kinds, locked \in BOOLEAN : Switches(kind, locked)
    BY <1>6
  <2>2. ~crossed /\ task' = task /\ panel' = BackendSelected(panel, kind)
    BY <1>1, <2>1 DEF Switches, Shows
  <2>3. \A k \in Steps : Alike(steps'[k], steps[k])
    BY <2>1, Moved
  <2>4. Kept(panel', panel) /\ panel'.receipt.checked = panel.receipt.checked /\ panel'.receipts = panel.receipts
    BY <1>2, <2>2, Selecting, SelectedKept
  <2> QED BY <2>2, <2>3, <2>4, UnmetStays DEF Met, Alike, UnderWay
<1>7. CASE TaskAsked \/ TaskRefused \/ TaskStops \/ TaskThrows
  <2>1. ~crossed /\ steps' = steps /\ task'.at \in {"off", "entering"}
    <3>1. CASE TaskAsked
      BY <1>1, <3>1 DEF TaskAsked, NoTask
    <3>2. CASE TaskRefused
      BY <1>1, <3>2 DEF TaskRefused, NoTask
    <3>3. CASE TaskStops \/ TaskThrows
      BY <1>1, <3>3 DEF TaskStops, TaskThrows, NoTask, Plain, Wrong, Others
    <3> QED BY <1>7, <3>1, <3>2, <3>3
  <2>2. panel' \in {panel, LoopStopped(panel), BackendSelected(panel, backend)}
    BY <1>7 DEF TaskAsked, TaskRefused, TaskStops, TaskThrows, Shows
  <2>3. Kept(panel', panel) /\ panel'.receipt.checked = panel.receipt.checked /\ panel'.receipts = panel.receipts
    <3>1. CASE panel' \in {panel, LoopStopped(panel)}
      BY <1>2, <3>1, Looping DEF Kept
    <3>2. CASE panel' = BackendSelected(panel, backend)
      BY <1>2, <3>2, Selecting, SelectedKept
    <3> QED BY <2>2, <3>1, <3>2
  <2> QED BY <1>2, <2>1, <2>3, UnmetStays DEF Met, UnderWay
<1>8. CASE Evicted
  <2>1. ~crossed /\ panel' = panel /\ task'.at = "off" /\ \A k \in Steps : ~UnderWay(k)
    BY <1>1, <1>8 DEF Evicted, NoTask
  <2>2. \A k \in Steps : ~UnderWay(k)' /\ steps'[k].task = steps[k].task
    BY <1>8, Cut DEF UnderWay
  <2> QED BY <1>2, <2>1, <2>2, UnmetStays DEF Met
<1>9. CASE \E changed \in BOOLEAN : TaskVerifies(changed)
  BY <1>1, <1>9, UnmetVerifies DEF Met, TaskVerifies, Plain, Others
<1>10. ASSUME NEW k \in Steps, NEW s, TaskBegins(k, s) \/ StepBegins(k, s)
       PROVE  Unmet'
  BY <1>1, <1>10, UnmetBegins DEF Met, TaskBegins, StepBegins, BeginsAs
<1>11. ASSUME NEW k \in Steps, Advances(k)
       PROVE  Unmet'
  BY <1>1, <1>11, AdvancesGoes, UnmetAdvances DEF Met, GoesFor, GoesOn, Aside
<1>12. ASSUME NEW k \in Steps, EndsFor(k)
       PROVE  Unmet'
  BY <1>1, <1>12, UnmetEnds DEF Met, EndsFor, EndsAs, Aside
<1> QED BY <1>3, <1>4, <1>5, <1>6, <1>7, <1>8, <1>9, <1>10, <1>11, <1>12, Cases

-----------------------------------------------------------------------------
(* A session runs within its types, with one order of its steps: those of a  *)
(* task one after the other, and the page of the last one that ended is      *)
(* what a task waits for and compares.                                       *)
THEOREM PanelTyped == Spec => [](TypeOK /\ Order)
<1>1. Init => TypeOK /\ Order
  BY TypeInit, OrderInit
<1>2. TypeOK /\ Order /\ [Next]_vars => (TypeOK /\ Order)'
  BY TypeStep, OrderStep
<1> QED BY <1>1, <1>2, PTL DEF Spec

(* While the panel shows "Plan only" checked no step touches the page, and   *)
(* while it does not none is held back: for any number of tasks and steps,   *)
(* changes of the setting, evictions and reopened panels.                    *)
THEOREM PlanOnlyIsKept == Spec => []PlanOnlyHolds
<1>1. Init => PlanInv
  BY PlanInit
<1>2. TypeOK /\ Order /\ PlanInv /\ [Next]_vars => PlanInv'
  BY PlanStep
<1>3. PlanInv => PlanOnlyHolds
  BY DEF PlanInv
<1> QED BY <1>1, <1>2, <1>3, PanelTyped, PTL DEF Spec

LEMMA Invariance == Spec => []IInv
<1>1. Init => IInv
  BY OrderInit, WrittenInit, SealedInit, MetInit DEF IInv
<1>2. TypeOK /\ Order /\ Order' /\ IInv /\ [Next]_vars => IInv'
  BY WrittenStep, SealedStep, MetStep DEF IInv
<1> QED BY <1>1, <1>2, PanelTyped, PTL DEF Spec

LEMMA ReceiptsAt ==
    ASSUME TypeOK, NEW r \in Receipts
    PROVE  \E i \in 1 .. Len(panel.receipts) : r = panel.receipts[i]
<1>1. DOMAIN panel.receipts = 1 .. Len(panel.receipts)
  BY LenProperties DEF TypeOK, PanelOK, Panels
<1> QED BY <1>1 DEF Receipts, ToSet

(* However many steps a session has and however many receipts are kept, a    *)
(* receipt holds what its step did alone, and the page check of that step,   *)
(* as long as no two steps met.                                              *)
THEOREM ReceiptsAreOfOneStep == Spec => []ReceiptOfOneStep
<1>1. TypeOK /\ IInv => ReceiptOfOneStep
  BY ReceiptsAt DEF IInv, Met, Unmet, OfOne, ReceiptOfOneStep
<1> QED BY <1>1, PanelTyped, Invariance, PTL

(* A sealed receipt of a step that the panel heard from its capture on says  *)
(* what that step did, also where others ran beside it.                      *)
THEOREM ReceiptsAreTrue == Spec => []SaysWhatHappened
<1>1. TypeOK /\ IInv => SaysWhatHappened
  <2> SUFFICES ASSUME TypeOK, IInv, NEW r \in Receipts, r.by = {r.of}, r.captured
               PROVE  LET step == steps[r.of]
                      IN /\ r.context = "sent" <=> step.left /\ step.answered
                         /\ r.context = "stayed-on-device" <=> step.answered /\ ~step.left
                         /\ r.context = "blocked" <=> step.built = "blocked"
                         /\ r.picture = "sent" <=> r.context = "sent" /\ step.image
                         /\ r.picture = "verified-absent" <=> step.built = "passed" /\ ~step.image
                         /\ IF step.act = "asked" THEN r.execution = NotReached /\ r.validation = NotReached
                            ELSE r.execution = step.act /\ r.validation = step.verdict
                         /\ r.backend = step.kind \/ r.backend = "none" \/ step.moved
    BY DEF SaysWhatHappened
  <2> DEFINE s == steps[r.of]
  <2>1. Tells(r, s) /\ s \in StepStates
    BY ReceiptsAt DEF IInv, Sealed, TypeOK
  <2>2. s.built \in {"none", "passed", "blocked"} /\ s.left \in BOOLEAN /\ s.answered \in BOOLEAN /\ s.image \in BOOLEAN
    BY <2>1 DEF StepStates
  <2> HIDE DEF s
  <2>3. s.left \/ s.answered => s.built = "passed"
    BY <2>1 DEF Tells, Lawful
  <2>4. r.context = IF s.built = "blocked" THEN "blocked" ELSE IF ~s.answered THEN NotChecked
                    ELSE IF s.left THEN "sent" ELSE "stayed-on-device"
    BY <2>1 DEF Tells, ContextOf
  <2>5. r.picture = IF s.built = "none" THEN NotChecked ELSE IF s.built = "blocked" THEN "blocked"
                    ELSE IF s.image THEN r.context ELSE "verified-absent"
    BY <2>1 DEF Tells, PictureOf
  <2>6. /\ r.context = "sent" <=> s.left /\ s.answered
        /\ r.context = "stayed-on-device" <=> s.answered /\ ~s.left
        /\ r.context = "blocked" <=> s.built = "blocked"
    BY <2>2, <2>3, <2>4 DEF NotChecked
  <2>7. /\ r.picture = "sent" <=> r.context = "sent" /\ s.image
        /\ r.picture = "verified-absent" <=> s.built = "passed" /\ ~s.image
    BY <2>2, <2>3, <2>4, <2>5 DEF NotChecked
  <2>8. /\ IF s.act = "asked" THEN r.execution = NotReached /\ r.validation = NotReached
           ELSE r.execution = s.act /\ r.validation = s.verdict
        /\ r.backend = s.kind \/ r.backend = "none" \/ s.moved
    BY <2>1 DEF Tells, ValidationOf, ExecutionOf
  <2> QED BY <2>6, <2>7, <2>8 DEF s
<1> QED BY <1>1, PanelTyped, Invariance, PTL

(* The shield says sent when the receipt does, and no picture whose masks    *)
(* fell short is claimed to have been.                                       *)
THEOREM ShieldIsTheReceipt == Spec => []ShieldAgreesWithReceipt
<1>1. ASSUME TypeOK, IInv PROVE ShieldAgreesWithReceipt
  <2> SUFFICES ASSUME ~crossed, panel.receipt.captured
               PROVE  LET shield == ShieldStages(panel.gate)
                      IN /\ shield.send = "sent" <=> panel.receipt.context = "sent"
                         /\ shield.mask = "bad" => panel.receipt.picture # "sent"
                         /\ shield.redact = "ok" <=> panel.receipt.redacted
    BY DEF ShieldAgreesWithReceipt
  <2> DEFINE g == panel.gate
             shield == ShieldStages(g)
  <2>1. Agrees(panel) /\ g \in Gates
    BY <1>1 DEF IInv, Met, Unmet, Proof, TypeOK, PanelOK, Panels
  <2>2. /\ shield.send = "sent" <=> g.transmitted = "cloud"
        /\ shield.mask = "bad" => g.bake = "short"
        /\ shield.redact = "ok" <=> g.redacted
    <3>1. /\ shield.send = IF g.transmitted = "cloud" THEN "sent" ELSE IF g.transmitted = "on-device" THEN "ok"
                           ELSE IF g.prepared # "none" THEN "running" ELSE "idle"
          /\ shield.mask = CASE g.bake = "none" -> "idle" [] g.bake = "landed" -> "ok" [] OTHER -> "bad"
          /\ shield.redact = IF g.redacted THEN "ok" ELSE "idle"
      BY DEF ShieldStages
    <3> HIDE DEF shield
    <3>2. /\ g.transmitted \in {"none", "on-device", "cloud"} /\ g.prepared \in {"none", "text", "image"}
          /\ g.bake \in {"none", "landed", "short"} /\ g.redacted \in BOOLEAN
      BY <2>1 DEF Gates
    <3>3. shield.send = "sent" <=> g.transmitted = "cloud"
      BY <3>1, <3>2
    <3>4. shield.mask = "bad" => g.bake = "short"
      BY <3>1, <3>2
    <3>5. shield.redact = "ok" <=> g.redacted
      BY <3>1, <3>2
    <3> QED BY <3>3, <3>4, <3>5
  <2> HIDE DEF shield
  <2> QED BY <2>1, <2>2 DEF Agrees, shield
<1> QED BY <1>1, PanelTyped, Invariance, PTL
=============================================================================
