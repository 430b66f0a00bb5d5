---------------------------- MODULE BackgroundProofs ----------------------------
(***************************************************************************)
(* What the background keeps from one run to the next: of the conversation *)
(* that clarifies a goal, however often the worker is evicted, and when it *)
(* never is and only tasks run; and of the deployment, for any backends,   *)
(* servers, commands, evictions and plan requests.                         *)
(***************************************************************************)
EXTENDS Clarify, Deployment, TLAPS

-----------------------------------------------------------------------------
(* The conversation.                                                         *)

(* An acknowledgement that names a question carries an answer.               *)
TypeInv == ClarifyTypeOK /\ (ack.to # None => ack.answer # None)

(* The records that memory and the work under way are reset to.              *)
LEMMA Resets ==
    /\ Nobody \in Records
    /\ Idle \in Works /\ Idle.at = "idle"
    /\ NoAck \in [to : Texts \cup {None}, answer : Texts \cup {None}]
    /\ NoAck.to = None
BY DEF Nobody, Records, Idle, Works, NoAck

LEMMA ClarifyInitType == ClarifyInit => TypeInv
<1> SUFFICES ASSUME ClarifyInit PROVE TypeInv
    OBVIOUS
<1>1. [question |-> pendingQuestion, goal |-> lastGoal, answered |-> clarifications]
          \in Records
  BY DEF ClarifyInit, Records
<1>2. work \in [Callers -> Works] /\ fetched \in Records /\ saved \in Records
  BY Resets DEF ClarifyInit
<1>3. upsets \in 0 .. MaxUpsets /\ said \in Seq(Texts) /\ kept \subseteq Texts
  BY ClarifyAssumption DEF ClarifyInit
<1>4. /\ shown \in Texts \cup {None}
      /\ ack \in [to : Texts \cup {None}, answer : Texts \cup {None}]
      /\ ack.to = None
  BY Resets DEF ClarifyInit
<1>5. /\ open \in BOOLEAN /\ ours \in BOOLEAN
      /\ awake \in BOOLEAN /\ waits \in BOOLEAN /\ refresh \in BOOLEAN
      /\ running \in BOOLEAN
      /\ ~waits
      /\ attachedReady \in {"before", "reading", "done"}
  BY DEF ClarifyInit
<1> QED BY <1>1, <1>2, <1>3, <1>4, <1>5 DEF TypeInv, ClarifyTypeOK

(* Starting an activity: its own entry, and the other's frozen.              *)
LEMMA StartsType ==
    ASSUME TypeInv, NEW k \in Callers, NEW g \in Texts, Starts(k, g)
    PROVE  /\ [question |-> pendingQuestion', goal |-> lastGoal',
               answered |-> clarifications'] \in Records
           /\ saved' \in Records
           /\ kept' \subseteq Texts
           /\ work' \in [Callers -> Works]
           /\ \A j \in Callers : work'[j].at = IF j = k THEN "waiting" ELSE work[j].at
<1> USE DEF TypeInv, ClarifyTypeOK
<1>1. \A j \in Callers : Freeze(j) \in Works /\ Freeze(j).at = work[j].at
  <2> SUFFICES ASSUME NEW j \in Callers PROVE Freeze(j) \in Works /\ Freeze(j).at = work[j].at
      OBVIOUS
  <2>1. work[j] \in Works /\ clarifications \subseteq Texts
    BY DEF Records
  <2>2. Given(j) \in SUBSET Texts
    BY <2>1 DEF Given, Works
  <2> QED BY <2>1, <2>2 DEF Freeze, Works
<1>2. [at |-> "waiting", goal |-> g, live |-> FALSE, held |-> {}] \in Works
  BY DEF Works
<1>3. work' \in [Callers -> Works]
  BY <1>1, <1>2 DEF Starts
<1>4. \A j \in Callers : work'[j].at = IF j = k THEN "waiting" ELSE work[j].at
  BY <1>1 DEF Starts
<1>5. kept' \subseteq Texts
  BY DEF Starts, Observe
<1>6. /\ [question |-> pendingQuestion', goal |-> lastGoal',
          answered |-> clarifications'] \in Records
      /\ saved' \in Records
  <2>1. CASE IsNew(g)
    BY <2>1 DEF Starts, Converse, PersistClarification, Records
  <2>2. CASE ~IsNew(g)
    BY <2>2 DEF Starts, Converse, memoryVars
  <2> QED BY <2>1, <2>2
<1> QED BY <1>3, <1>4, <1>5, <1>6

LEMMA RunTaskType ==
    ASSUME TypeInv, NEW g \in Texts, RunTask(g)
    PROVE  /\ [question |-> pendingQuestion', goal |-> lastGoal',
               answered |-> clarifications'] \in Records
           /\ saved' \in Records
           /\ kept' \subseteq Texts
           /\ work' \in [Callers -> Works]
           /\ waits' \in BOOLEAN /\ refresh' \in BOOLEAN /\ ours' \in BOOLEAN
           /\ waits' => Busy("task")'
           /\ awake' \in BOOLEAN /\ UNCHANGED <<attachedReady, fetched, upsets>>
<1>1. CASE Busy("task")
  <2>1. UNCHANGED <<memoryVars, saved, kept, ours, work, waits>> /\ refresh' = TRUE
    BY <1>1 DEF RunTask, userVars
  <2> QED BY <2>1 DEF RunTask, Woken, TypeInv, ClarifyTypeOK, memoryVars, Busy
<1>2. CASE ~Busy("task")
  <2>1. Starts("task", g) /\ waits' = TRUE /\ ours' = TRUE /\ UNCHANGED refresh
    BY <1>2 DEF RunTask
  <2>2. "task" \in Callers
    BY DEF Callers
  <2>3. Busy("task")'
    BY <2>1, <2>2, StartsType DEF Busy
  <2> QED BY <2>1, <2>2, <2>3, StartsType DEF RunTask, Woken, TypeInv, ClarifyTypeOK
<1> QED BY <1>1, <1>2

LEMMA ClarifyStepType == TypeInv /\ [ClarifyNext]_clarifyVars => TypeInv'
<1> SUFFICES ASSUME TypeInv, [ClarifyNext]_clarifyVars PROVE TypeInv'
    OBVIOUS
<1> USE DEF TypeInv, ClarifyTypeOK
<1>1. CASE Wakes \/ RestoreReads
  <2>1. UNCHANGED <<memoryVars, work, saved, panelVars, userVars, upsets>>
    BY <1>1 DEF Wakes, Woken, RestoreReads
  <2>2. /\ awake' \in BOOLEAN
        /\ fetched' \in {fetched, saved}
        /\ attachedReady' \in {attachedReady, "reading"}
    BY <1>1 DEF Wakes, Woken, RestoreReads
  <2>3. fetched' \in Records /\ attachedReady' \in {"before", "reading", "done"}
    BY <2>2
  <2> QED BY <2>1, <2>2, <2>3 DEF memoryVars, panelVars, userVars, Busy
<1>2. CASE RestoreLands
  <2>1. [question |-> pendingQuestion', goal |-> lastGoal', answered |-> clarifications']
            \in Records
    BY <1>2 DEF RestoreLands, Records
  <2> QED BY <1>2, <2>1 DEF RestoreLands, panelVars, userVars, Busy
<1>3. CASE Evict
  <2>1. work' \in [Callers -> Works] /\ Nobody \in Records
    BY <1>3 DEF Evict, Idle, Works, Nobody, Records
  <2>2. [question |-> pendingQuestion', goal |-> lastGoal', answered |-> clarifications']
            \in Records
    BY <1>3 DEF Evict, Records
  <2>3. upsets' \in 0 .. MaxUpsets
    BY <1>3, ClarifyAssumption DEF Evict
  <2> QED BY <1>3, <2>1, <2>2, <2>3 DEF Evict, userVars
<1>4. ASSUME NEW k \in Callers, Launch(k) PROVE TypeInv'
  <2>0. work[k] \in Works /\ work' = [work EXCEPT ![k].at = "planning", ![k].live = TRUE]
    BY <1>4 DEF Launch
  <2>1. [work[k] EXCEPT !.at = "planning", !.live = TRUE] \in Works
    BY <2>0 DEF Works
  <2>2. work' = [work EXCEPT ![k] = [work[k] EXCEPT !.at = "planning", !.live = TRUE]]
    BY <2>0
  <2>3. work' \in [Callers -> Works]
    BY <2>1, <2>2
  <2>4. \A j \in Callers : work'[j].at = IF j = k THEN "planning" ELSE work[j].at
    BY <2>0 DEF Works
  <2>5. Busy("task") => Busy("task")'
    BY <2>4 DEF Busy, Callers
  <2>6. running' \in BOOLEAN
    BY <1>4 DEF Launch
  <2> QED BY <1>4, <2>3, <2>5, <2>6 DEF Launch, memoryVars, lifeVars, userVars
<1>5. ASSUME NEW k \in Callers, Replied(k, TRUE) \/ Replied(k, FALSE),
             work' = [work EXCEPT ![k] = Idle]
      PROVE  /\ work' \in [Callers -> Works]
             /\ waits' \in BOOLEAN /\ refresh' \in BOOLEAN
             /\ waits' => Busy("task")'
  <2>1. Idle \in Works
    BY DEF Idle, Works
  <2>2. waits' \in BOOLEAN /\ refresh' \in BOOLEAN
    BY <1>5 DEF Replied
  <2>3. waits' => Busy("task")'
    BY <1>5 DEF Replied, Busy, Callers
  <2> QED BY <1>5, <2>1, <2>2, <2>3
<1>6. ASSUME NEW k \in Callers, Asks(k) PROVE TypeInv'
  <2>1. pendingQuestion' \in Texts \cup {None}
    BY <1>6 DEF Asks, Works
  <2>2. saved' \in Records
    BY <1>6, <2>1 DEF Asks, PersistClarification, Records
  <2>3. [question |-> pendingQuestion', goal |-> lastGoal', answered |-> clarifications']
            \in Records
    BY <1>6, <2>1 DEF Asks, Records
  <2>4. running' \in BOOLEAN
    BY <1>6 DEF Asks, Stopped
  <2> QED BY <1>5, <1>6, <2>2, <2>3, <2>4 DEF Asks, lifeVars, userVars
<1>7. ASSUME NEW k \in Callers, Ends(k) PROVE TypeInv'
  <2>1. running' \in BOOLEAN
    BY <1>7 DEF Ends, Stopped
  <2> QED BY <1>5, <1>7, <2>1 DEF Ends, memoryVars, lifeVars, userVars
<1>8. ASSUME NEW g \in Texts, SendGoal(g) PROVE TypeInv'
  <2>1. said' \in Seq(Texts)
    BY <1>8 DEF SendGoal
  <2> QED BY <1>8, <2>1, RunTaskType DEF SendGoal
<1>9. ASSUME NEW g \in Texts, PressStep(g) PROVE TypeInv'
  <2>1. "step" \in Callers /\ "task" \in Callers
    BY DEF Callers
  <2>2. Busy("task") => Busy("task")'
    BY <1>9, <2>1, StartsType DEF PressStep, Busy
  <2>3. upsets' \in 0 .. MaxUpsets
    BY <1>9, ClarifyAssumption DEF PressStep
  <2> QED BY <1>9, <2>1, <2>2, <2>3, StartsType DEF PressStep, panelVars
<1>10. CASE RefreshQuestion
  <2>1. shown' \in Texts \cup {None}
    BY <1>10 DEF RefreshQuestion, Records
  <2> QED BY <1>10, <2>1 DEF RefreshQuestion, Woken, memoryVars, userVars, Busy
<1>11. ASSUME NEW a \in Texts, SendAnswer(a) PROVE TypeInv'
  <2>1. UNCHANGED <<work, open, shown, said, waits, refresh, running, ours>> /\ Woken
    BY <1>11 DEF SendAnswer
  <2>2. CASE pendingQuestion = None
    <3>1. ack' = [to |-> None, answer |-> a] /\ UNCHANGED <<memoryVars, saved, kept>>
      BY <1>11, <2>2 DEF SendAnswer
    <3> QED BY <2>1, <3>1 DEF Woken, memoryVars, Busy
  <2>3. CASE pendingQuestion # None
    <3>0. pendingQuestion \in Texts
      BY <2>3 DEF Records
    <3>1. /\ ack' = [to |-> pendingQuestion, answer |-> a]
          /\ clarifications' = clarifications \cup {pendingQuestion}
          /\ pendingQuestion' = None /\ UNCHANGED lastGoal
          /\ kept' = kept \cup {pendingQuestion}
          /\ PersistClarification
      BY <1>11, <2>3 DEF SendAnswer, Record
    <3>2. [question |-> pendingQuestion', goal |-> lastGoal', answered |-> clarifications']
              \in Records
      BY <3>0, <3>1 DEF Records
    <3>3. saved' \in Records
      BY <3>1, <3>2 DEF PersistClarification
    <3>4. ack' \in [to : Texts \cup {None}, answer : Texts \cup {None}]
          /\ ack'.answer # None
      BY <3>0, <3>1, ClarifyAssumption
    <3> QED BY <2>1, <3>0, <3>1, <3>2, <3>3, <3>4 DEF Woken, Busy
  <2> QED BY <2>2, <2>3
<1>12. CASE Refused
  BY <1>12 DEF Refused, NoAck, memoryVars, lifeVars, userVars, Busy
<1>13. CASE Accepted
  <2>0. ack.answer \in Texts
    BY <1>13 DEF Accepted
  <2>1. /\ said' \in Seq(Texts)
        /\ ack' = NoAck /\ shown' = None /\ UNCHANGED <<open, running>>
    <3>1. said' = Append(said, ack.answer) /\ ack' = NoAck /\ shown' = None
          /\ UNCHANGED <<open, running>>
      BY <1>13 DEF Accepted
    <3> QED BY <2>0, <3>1
  <2>2. CASE Originals(ack.answer) = {}
    <3>1. UNCHANGED <<memoryVars, work, lifeVars, saved, waits, refresh, kept, ours>>
      BY <1>13, <2>2 DEF Accepted, userVars
    <3> QED BY <2>1, <3>1 DEF memoryVars, lifeVars, NoAck, Busy
  <2>3. ASSUME NEW i \in Originals(ack.answer), RunTask(said[i])
        PROVE  TypeInv'
    <3>1. said[i] \in Texts
      BY <2>3 DEF Originals
    <3> QED BY <2>1, <2>3, <3>1, RunTaskType DEF NoAck
  <2> QED BY <1>13, <2>2, <2>3 DEF Accepted
<1>14. CASE UNCHANGED clarifyVars
  BY <1>14 DEF clarifyVars, memoryVars, lifeVars, panelVars, userVars, Busy
<1>15. CASE GoesOn
  BY <1>15 DEF GoesOn, memoryVars, lifeVars, userVars, Busy
<1>16. CASE PanelCloses
  <2>1. /\ UNCHANGED <<memoryVars, work, lifeVars, saved, kept>>
        /\ ack' = NoAck /\ said' = <<>> /\ shown' = None
        /\ open' = FALSE /\ waits' = FALSE /\ refresh' = FALSE /\ running' = FALSE
        /\ ours' = FALSE
    BY <1>16 DEF PanelCloses
  <2>2. said' \in Seq(Texts)
    BY <2>1
  <2> QED BY <2>1, <2>2, Resets DEF memoryVars, lifeVars, Busy
<1>17. CASE PanelOpens
  BY <1>17 DEF PanelOpens, Woken, memoryVars, userVars, Busy
<1> QED BY <1>1, <1>2, <1>3, <1>4, <1>6, <1>7, <1>8, <1>9, <1>10, <1>11, <1>12, <1>13, <1>14,
           <1>15, <1>16, <1>17
        DEF ClarifyNext

(* Every variable of the conversation keeps its type, and the panel waits    *)
(* only while a task is under way.                                           *)
THEOREM ConversationTyped == ClarifySpec => []ClarifyTypeOK
<1>1. TypeInv => ClarifyTypeOK BY DEF TypeInv
<1> QED BY <1>1, ClarifyInitType, ClarifyStepType, PTL DEF ClarifySpec

-----------------------------------------------------------------------------
(* Storage against memory, whatever the evictions: once the restore is over  *)
(* memory has every answer storage has; while it is reading, what it has     *)
(* read has; and memory holds a question, or an activity plans, only after.  *)
Restored ==
    /\ attachedReady = "done" => saved.answered \subseteq clarifications
    /\ attachedReady = "reading" => saved.answered \subseteq fetched.answered
    /\ pendingQuestion # None => attachedReady = "done"
    /\ \A k \in Callers : work[k].at = "planning" => attachedReady = "done"

(* What a step does to storage: an answer leaves it only when an activity    *)
(* starts.                                                                   *)
KeepsAnswers ==
    \/ saved.answered \subseteq saved'.answered
    \/ \E k \in Callers : ~Busy(k) /\ Busy(k)'

(* Starting an activity empties what another goal had answered, everywhere.  *)
LEMMA StartsRestored ==
    ASSUME TypeInv, Restored, NEW k \in Callers, NEW g \in Texts, Starts(k, g), ~Busy(k),
           UNCHANGED <<attachedReady, fetched>>
    PROVE  Restored' /\ KeepsAnswers
<1>1. \A j \in Callers : work'[j].at = IF j = k THEN "waiting" ELSE work[j].at
  BY StartsType
<1>2. Busy(k)'
  BY <1>1 DEF Busy
<1>3. \A j \in Callers : work'[j].at = "planning" => attachedReady' = "done"
  BY <1>1 DEF Restored
<1>4. CASE IsNew(g)
  <2>1. saved'.answered = {} /\ pendingQuestion' = None
    BY <1>4 DEF Starts, Converse, PersistClarification
  <2> QED BY <1>2, <1>3, <2>1 DEF Restored, KeepsAnswers
<1>5. CASE ~IsNew(g)
  <2>1. UNCHANGED <<pendingQuestion, clarifications, saved>>
    BY <1>5 DEF Starts, Converse, memoryVars
  <2> QED BY <1>2, <1>3, <2>1 DEF Restored, KeepsAnswers
<1> QED BY <1>4, <1>5

LEMMA RunTaskRestored ==
    ASSUME TypeInv, Restored, NEW g \in Texts, RunTask(g)
    PROVE  Restored' /\ KeepsAnswers
<1>1. UNCHANGED <<attachedReady, fetched>> /\ "task" \in Callers
  BY DEF RunTask, Woken, Callers
<1>2. CASE Busy("task")
  <2>1. UNCHANGED <<pendingQuestion, clarifications, saved, work>>
    BY <1>2 DEF RunTask, memoryVars
  <2> QED BY <1>1, <2>1 DEF Restored, KeepsAnswers
<1>3. CASE ~Busy("task")
  BY <1>1, <1>3, StartsRestored DEF RunTask
<1> QED BY <1>2, <1>3

(* The variables Restored reads, left alone.                                 *)
LEMMA SameRestored ==
    ASSUME Restored, UNCHANGED <<pendingQuestion, clarifications, saved, work, attachedReady, fetched>>
    PROVE  Restored' /\ KeepsAnswers
BY DEF Restored, KeepsAnswers

LEMMA StepRestored ==
    ASSUME TypeInv, Restored, [ClarifyNext]_clarifyVars
    PROVE  Restored' /\ KeepsAnswers
<1>0. work \in [Callers -> Works]
  BY DEF TypeInv, ClarifyTypeOK
<1>1. CASE \/ Wakes \/ Refused \/ RefreshQuestion \/ UNCHANGED clarifyVars
             \/ GoesOn \/ PanelCloses \/ PanelOpens
  <2>1. UNCHANGED <<pendingQuestion, clarifications, saved, work, attachedReady, fetched>>
    BY <1>1 DEF Wakes, Woken, Refused, RefreshQuestion, GoesOn, PanelCloses, PanelOpens,
                clarifyVars, memoryVars, lifeVars
  <2> QED BY <2>1, SameRestored
<1>2. CASE RestoreReads \/ RestoreLands
  BY <1>2 DEF RestoreReads, RestoreLands, memoryVars, Restored, KeepsAnswers
<1>3. CASE Evict
  <2>1. \A k \in Callers : work'[k].at = "idle"
    BY <1>3, Resets DEF Evict
  <2> QED BY <1>3, <2>1 DEF Evict, Restored, KeepsAnswers
<1>4. ASSUME NEW k \in Callers, Launch(k) PROVE Restored' /\ KeepsAnswers
  <2>1. attachedReady = "done"
        /\ UNCHANGED <<pendingQuestion, clarifications, saved, attachedReady, fetched>>
    BY <1>4 DEF Launch, memoryVars, lifeVars
  <2> QED BY <2>1 DEF Restored, KeepsAnswers
<1>5. ASSUME NEW k \in Callers, Asks(k) PROVE Restored' /\ KeepsAnswers
  <2>1. attachedReady = "done" /\ UNCHANGED <<clarifications, attachedReady, fetched>>
    BY <1>5 DEF Asks, lifeVars, Restored
  <2>2. saved'.answered = clarifications
    BY <1>5, <2>1 DEF Asks, PersistClarification
  <2> QED BY <2>1, <2>2 DEF Restored, KeepsAnswers
<1>6. ASSUME NEW k \in Callers, Ends(k) PROVE Restored' /\ KeepsAnswers
  <2>1. attachedReady = "done"
        /\ UNCHANGED <<pendingQuestion, clarifications, saved, attachedReady, fetched>>
    BY <1>6 DEF Ends, memoryVars, lifeVars
  <2> QED BY <2>1 DEF Restored, KeepsAnswers
<1>7. ASSUME NEW g \in Texts, SendGoal(g) PROVE Restored' /\ KeepsAnswers
  BY <1>7, RunTaskRestored DEF SendGoal
<1>8. ASSUME NEW g \in Texts, PressStep(g) PROVE Restored' /\ KeepsAnswers
  <2>1. "step" \in Callers /\ UNCHANGED <<attachedReady, fetched>>
    BY <1>8 DEF PressStep, Woken, Callers
  <2> QED BY <1>8, <2>1, StartsRestored DEF PressStep
<1>9. ASSUME NEW a \in Texts, SendAnswer(a) PROVE Restored' /\ KeepsAnswers
  <2>1. UNCHANGED <<work, attachedReady, fetched>>
    BY <1>9 DEF SendAnswer, Woken
  <2>2. CASE pendingQuestion = None
    <3>1. UNCHANGED <<pendingQuestion, clarifications, saved>>
      BY <1>9, <2>2 DEF SendAnswer, memoryVars
    <3> QED BY <2>1, <3>1, SameRestored
  <2>3. CASE pendingQuestion # None
    <3>1. /\ clarifications' = clarifications \cup {pendingQuestion}
          /\ pendingQuestion' = None
          /\ PersistClarification
      BY <1>9, <2>3 DEF SendAnswer, Record
    <3>2. saved'.answered = clarifications' /\ attachedReady = "done"
      BY <2>3, <3>1 DEF PersistClarification, Restored
    <3> QED BY <2>1, <3>1, <3>2 DEF Restored, KeepsAnswers
  <2> QED BY <2>2, <2>3
<1>10. CASE Accepted
  <2>1. CASE Originals(ack.answer) = {}
    <3>1. UNCHANGED <<pendingQuestion, clarifications, saved, work, attachedReady, fetched>>
      BY <1>10, <2>1 DEF Accepted, memoryVars, lifeVars
    <3> QED BY <3>1, SameRestored
  <2>2. ASSUME NEW i \in Originals(ack.answer), RunTask(said[i])
        PROVE  Restored' /\ KeepsAnswers
    <3>1. said[i] \in Texts
      BY <2>2 DEF Originals, TypeInv, ClarifyTypeOK
    <3> QED BY <2>2, <3>1, RunTaskRestored
  <2> QED BY <1>10, <2>1, <2>2 DEF Accepted
<1> QED BY <1>1, <1>2, <1>3, <1>4, <1>5, <1>6, <1>7, <1>8, <1>9, <1>10 DEF ClarifyNext

(* AnswersDurable: however often the worker is evicted, and whatever runs    *)
(* and single steps interleave with its restores, an answer that reached     *)
(* storage leaves it only with the start of a run or a step.                 *)
THEOREM AnswersAreDurable == ClarifySpec => AnswersDurable
<1>1. ClarifyInit => Restored
  BY Resets DEF ClarifyInit, Restored, Nobody
<1>2. ASSUME TypeInv, Restored, [ClarifyNext]_clarifyVars
      PROVE  Restored'
  BY <1>2, StepRestored
<1>3. ASSUME TypeInv, Restored, [ClarifyNext]_clarifyVars
      PROVE  [\/ saved.answered \subseteq saved'.answered
              \/ \E k \in Callers : ~Busy(k) /\ Busy(k)']_clarifyVars
  BY <1>3, StepRestored DEF KeepsAnswers
<1>4. ClarifyInit => TypeInv BY ClarifyInitType
<1>5. TypeInv /\ [ClarifyNext]_clarifyVars => TypeInv' BY ClarifyStepType
<1> QED BY <1>1, <1>2, <1>3, <1>4, <1>5, PTL DEF ClarifySpec, AnswersDurable

-----------------------------------------------------------------------------
(* Before any eviction or single step: one task at a time, its goal the one  *)
(* the conversation is about, and storage a copy of memory.                  *)

Alone ==
    /\ attachedReady = "done"
    /\ work["step"].at = "idle"
    /\ Busy("task") => work["task"].goal = lastGoal
    /\ Busy("task") /\ ours => waits
    /\ work["task"].at = "planning" => work["task"].live

Conversation ==
    /\ clarifications \subseteq {lastGoal}
    /\ kept \subseteq clarifications
    /\ pendingQuestion \in {None, lastGoal}
    /\ saved = [question |-> pendingQuestion, goal |-> lastGoal, answered |-> clarifications]

Visible ==
    ours /\ pendingQuestion # None =>
        Busy("task") \/ refresh \/ (shown = pendingQuestion /\ ack.to = None)

ClarifyIInv == Alone /\ Conversation /\ Visible

LEMMA InitAlone == ClarifyInit => ClarifyIInv
BY Resets DEF ClarifyInit, ClarifyIInv, Alone, Conversation, Visible, Busy, Callers, Idle, Nobody

(* A task that starts starts the conversation over, or goes on with it.      *)
LEMMA StartsAlone ==
    ASSUME TypeInv, ClarifyIInv, NEW g \in Texts, Starts("task", g), ~Busy("task"), waits' = TRUE,
           UNCHANGED attachedReady
    PROVE  Alone' /\ Conversation' /\ Busy("task")'
<1>1. "task" \in Callers /\ "step" \in Callers /\ work \in [Callers -> Works]
  BY DEF Callers, TypeInv, ClarifyTypeOK
<1>2. \A j \in Callers : work'[j].at = IF j = "task" THEN "waiting" ELSE work[j].at
  BY <1>1, StartsType
<1>3. Busy("task")' /\ work'["task"].at = "waiting" /\ work'["step"].at = "idle"
  BY <1>1, <1>2 DEF Busy, ClarifyIInv, Alone
<1>4. work'["task"].goal = g
  BY <1>1 DEF Starts
<1>5. lastGoal' = g /\ Conversation'
  <2>1. kept' = kept \cap {g}
    BY DEF Starts, Observe
  <2>2. CASE IsNew(g)
    <3>1. /\ pendingQuestion' = None /\ lastGoal' = g /\ clarifications' = {}
          /\ PersistClarification
      BY <2>2 DEF Starts, Converse
    <3>2. kept' = {}
      BY <2>1, <2>2 DEF ClarifyIInv, Conversation, IsNew
    <3> QED BY <3>1, <3>2 DEF PersistClarification, Conversation
  <2>3. CASE ~IsNew(g)
    <3>1. UNCHANGED <<pendingQuestion, lastGoal, clarifications, saved>> /\ lastGoal = g
      BY <2>3 DEF Starts, Converse, memoryVars, IsNew
    <3> QED BY <2>1, <3>1 DEF ClarifyIInv, Conversation
  <2> QED BY <2>2, <2>3
<1>6. attachedReady' = "done"
  BY DEF ClarifyIInv, Alone
<1> QED BY <1>3, <1>4, <1>5, <1>6 DEF Alone

LEMMA RunTaskAlone ==
    ASSUME TypeInv, ClarifyIInv, NEW g \in Texts, RunTask(g)
    PROVE  Alone' /\ Conversation' /\ Busy("task")'
<1>0. UNCHANGED attachedReady
  BY DEF RunTask, Woken
<1>1. CASE Busy("task")
  <2>1. UNCHANGED <<memoryVars, saved, kept, ours, work, waits>>
    BY <1>1 DEF RunTask, userVars
  <2> QED BY <1>0, <1>1, <2>1 DEF memoryVars, Busy, ClarifyIInv, Alone, Conversation
<1>2. CASE ~Busy("task")
  BY <1>0, <1>2, StartsAlone DEF RunTask
<1> QED BY <1>1, <1>2

(* The end of an activity, which can only be the task.                       *)
LEMMA RepliedAlone ==
    ASSUME TypeInv, ClarifyIInv, NEW k \in Callers, work[k].at # "idle",
           Replied(k, TRUE) \/ Replied(k, FALSE), work' = [work EXCEPT ![k] = Idle]
    PROVE  /\ k = "task" /\ (ours => refresh')
           /\ work'["task"] = Idle /\ work'["step"].at = "idle"
<1>1. k = "task"
  BY DEF Callers, ClarifyIInv, Alone
<1>2. ASSUME ours PROVE refresh'
  <2>1. refresh' = (refresh \/ (k = "task" /\ waits))
    BY DEF Replied
  <2>2. waits
    BY <1>1, <1>2 DEF ClarifyIInv, Alone, Busy
  <2> QED BY <1>1, <2>1, <2>2
<1>3. work'["task"] = Idle /\ work'["step"] = work["step"]
  BY <1>1 DEF TypeInv, ClarifyTypeOK, Callers
<1> QED BY <1>1, <1>2, <1>3 DEF ClarifyIInv, Alone

LEMMA SameAlone ==
    ASSUME ClarifyIInv,
           UNCHANGED <<pendingQuestion, lastGoal, clarifications, work, attachedReady, saved,
                       waits, kept, ours>>
    PROVE  Alone' /\ Conversation'
<1>1. Alone'
  BY DEF ClarifyIInv, Alone, Busy
<1>2. Conversation'
  BY DEF ClarifyIInv, Conversation
<1> QED BY <1>1, <1>2

LEMMA StepAlone ==
    ASSUME TypeInv, ClarifyIInv, [ClarifyNext]_clarifyVars, upsets = 0, upsets' = 0
    PROVE  ClarifyIInv'
<1>0. work \in [Callers -> Works] /\ "task" \in Callers /\ "step" \in Callers
  BY DEF TypeInv, ClarifyTypeOK, Callers
<1>1. CASE Wakes \/ GoesOn \/ UNCHANGED clarifyVars
  <2>1. UNCHANGED <<pendingQuestion, lastGoal, clarifications, work, attachedReady, saved,
                    waits, kept, ours, refresh, shown, ack>>
    BY <1>1 DEF Wakes, Woken, GoesOn, clarifyVars, memoryVars, lifeVars, panelVars, userVars
  <2>2. Visible'
    BY <2>1 DEF ClarifyIInv, Visible, Busy
  <2> QED BY <2>1, <2>2, SameAlone DEF ClarifyIInv
<1>2. ~RestoreReads /\ ~RestoreLands
  BY DEF RestoreReads, RestoreLands, ClarifyIInv, Alone
<1>3. ~Evict
  BY DEF Evict
<1>4. ASSUME NEW k \in Callers PROVE ~Launch(k) \/ ClarifyIInv'
  <2> SUFFICES ASSUME Launch(k) PROVE ClarifyIInv'
      OBVIOUS
  <2>1. k = "task"
    BY DEF Launch, ClarifyIInv, Alone, Callers
  <2>2. /\ UNCHANGED <<pendingQuestion, lastGoal, clarifications, attachedReady, saved, waits,
                        kept, ours, refresh, shown, ack>>
        /\ work' = [work EXCEPT ![k].at = "planning", ![k].live = TRUE]
        /\ work[k].at = "waiting"
    BY DEF Launch, memoryVars, lifeVars, userVars
  <2>3. /\ work'["task"].at = "planning" /\ work'["task"].live
        /\ work'["task"].goal = work["task"].goal
        /\ work'["step"] = work["step"]
    BY <1>0, <2>1, <2>2 DEF Works
  <2>4. Busy("task") /\ Busy("task")'
    BY <2>1, <2>2, <2>3 DEF Busy
  <2>5. Alone'
    BY <2>2, <2>3, <2>4 DEF ClarifyIInv, Alone
  <2>6. Conversation'
    BY <2>2 DEF ClarifyIInv, Conversation
  <2> QED BY <2>4, <2>5, <2>6 DEF ClarifyIInv, Visible
<1>5. ASSUME NEW k \in Callers, Asks(k) PROVE ClarifyIInv'
  <2>1. /\ k = "task" /\ (ours => refresh')
        /\ work'["task"] = Idle /\ work'["step"].at = "idle"
    BY <1>5, RepliedAlone DEF Asks
  <2>2. /\ pendingQuestion' = work["task"].goal
        /\ UNCHANGED <<lastGoal, clarifications, kept, ours, attachedReady>>
        /\ PersistClarification
    BY <1>5, <2>1 DEF Asks, lifeVars, userVars
  <2>3. work["task"].goal = lastGoal
    BY <1>5, <2>1 DEF Asks, ClarifyIInv, Alone, Busy
  <2>4. Alone'
    BY <2>1, <2>2, Resets DEF ClarifyIInv, Alone, Busy
  <2>5. Conversation'
    BY <2>2, <2>3 DEF ClarifyIInv, Conversation, PersistClarification
  <2> QED BY <2>1, <2>2, <2>4, <2>5 DEF ClarifyIInv, Visible
<1>6. ASSUME NEW k \in Callers, Ends(k) PROVE ClarifyIInv'
  <2>1. /\ k = "task" /\ (ours => refresh')
        /\ work'["task"] = Idle /\ work'["step"].at = "idle"
    BY <1>6, RepliedAlone DEF Ends, Busy
  <2>2. UNCHANGED <<pendingQuestion, lastGoal, clarifications, saved, kept, ours,
                    attachedReady>>
    BY <1>6 DEF Ends, memoryVars, lifeVars, userVars
  <2>3. Alone'
    BY <2>1, <2>2, Resets DEF ClarifyIInv, Alone, Busy
  <2>4. Conversation'
    BY <2>2 DEF ClarifyIInv, Conversation
  <2> QED BY <2>1, <2>2, <2>3, <2>4 DEF ClarifyIInv, Visible
<1>7. ASSUME NEW g \in Texts, SendGoal(g) PROVE ClarifyIInv'
  BY <1>7, RunTaskAlone DEF SendGoal, ClarifyIInv, Visible
<1>8. ASSUME NEW g \in Texts PROVE ~PressStep(g)
  BY DEF PressStep
<1>9. CASE RefreshQuestion
  <2>1. /\ UNCHANGED <<pendingQuestion, lastGoal, clarifications, work, attachedReady, saved,
                        waits, kept, ours, ack>>
        /\ shown' = pendingQuestion /\ ack = NoAck
    BY <1>9 DEF RefreshQuestion, Woken, memoryVars, userVars
  <2>2. Visible'
    BY <2>1, Resets DEF Visible
  <2> QED BY <2>1, <2>2, SameAlone DEF ClarifyIInv
<1>10. ASSUME NEW a \in Texts, SendAnswer(a) PROVE ClarifyIInv'
  <2>1. UNCHANGED <<work, attachedReady, waits, shown, refresh, ours>>
    BY <1>10 DEF SendAnswer, Woken
  <2>2. pendingQuestion' = None
    BY <1>10 DEF SendAnswer, memoryVars
  <2>3. CASE pendingQuestion = None
    <3>1. UNCHANGED <<pendingQuestion, lastGoal, clarifications, saved, kept>>
      BY <1>10, <2>3 DEF SendAnswer, memoryVars
    <3> QED BY <2>1, <2>2, <3>1, SameAlone DEF ClarifyIInv, Visible
  <2>4. CASE pendingQuestion # None
    <3>1. /\ clarifications' = clarifications \cup {pendingQuestion}
          /\ kept' = kept \cup {pendingQuestion}
          /\ UNCHANGED lastGoal
          /\ PersistClarification
      BY <1>10, <2>4 DEF SendAnswer, Record
    <3>2. Conversation'
      BY <2>2, <2>4, <3>1 DEF ClarifyIInv, Conversation, PersistClarification
    <3>3. Alone'
      BY <2>1, <3>1 DEF ClarifyIInv, Alone, Busy
    <3> QED BY <2>2, <3>2, <3>3 DEF ClarifyIInv, Visible
  <2> QED BY <2>3, <2>4
<1>11. CASE Refused
  <2>1. /\ UNCHANGED <<pendingQuestion, lastGoal, clarifications, work, attachedReady, saved,
                        waits, kept, ours, refresh, shown>>
        /\ ack' = NoAck
    BY <1>11 DEF Refused, memoryVars, lifeVars, userVars
  <2>2. Visible'
    BY <2>1, Resets DEF ClarifyIInv, Visible, Busy
  <2> QED BY <2>1, <2>2, SameAlone DEF ClarifyIInv
<1>12. CASE Accepted
  <2>0. ack.to # None
    BY <1>12 DEF Accepted
  <2>1. CASE Originals(ack.answer) = {}
    <3>1. UNCHANGED <<pendingQuestion, lastGoal, clarifications, work, attachedReady, saved,
                      waits, kept, ours, refresh>>
      BY <1>12, <2>1 DEF Accepted, memoryVars, lifeVars, userVars
    <3>2. Visible'
      BY <2>0, <3>1 DEF ClarifyIInv, Visible, Busy
    <3> QED BY <3>1, <3>2, SameAlone DEF ClarifyIInv
  <2>2. ASSUME NEW i \in Originals(ack.answer), RunTask(said[i])
        PROVE  ClarifyIInv'
    <3>1. said[i] \in Texts
      BY <2>2 DEF Originals, TypeInv, ClarifyTypeOK
    <3> QED BY <2>2, <3>1, RunTaskAlone DEF ClarifyIInv, Visible
  <2> QED BY <1>12, <2>1, <2>2 DEF Accepted
<1>13. CASE PanelCloses
  <2>1. /\ UNCHANGED <<pendingQuestion, lastGoal, clarifications, work, attachedReady, saved,
                        kept>>
        /\ ours' = FALSE
    BY <1>13 DEF PanelCloses, memoryVars, lifeVars
  <2> QED BY <2>1 DEF ClarifyIInv, Alone, Conversation, Visible, Busy
<1>14. CASE PanelOpens
  <2>1. UNCHANGED <<pendingQuestion, lastGoal, clarifications, work, attachedReady, saved,
                    waits, kept, ours, refresh, shown, ack>>
    BY <1>14 DEF PanelOpens, Woken, memoryVars, userVars
  <2>2. Visible'
    BY <2>1 DEF ClarifyIInv, Visible, Busy
  <2> QED BY <2>1, <2>2, SameAlone DEF ClarifyIInv
<1> QED BY <1>1, <1>2, <1>3, <1>4, <1>5, <1>6, <1>7, <1>8, <1>9, <1>10, <1>11, <1>12, <1>13,
           <1>14 DEF ClarifyNext

(* An upset is not undone.                                                   *)
LEMMA UpsetsStay == TypeInv /\ [ClarifyNext]_clarifyVars => upsets' \in {upsets, upsets + 1}
<1> SUFFICES ASSUME TypeInv, [ClarifyNext]_clarifyVars PROVE upsets' \in {upsets, upsets + 1}
    OBVIOUS
<1>1. CASE Wakes \/ RestoreReads \/ RestoreLands \/ Evict \/ UNCHANGED clarifyVars
  BY <1>1 DEF Wakes, Woken, RestoreReads, RestoreLands, Evict, clarifyVars, lifeVars
<1>2. CASE \E k \in Callers : Launch(k) \/ Asks(k) \/ Ends(k)
  BY <1>2 DEF Launch, Asks, Ends, Woken, lifeVars
<1>3. CASE \E t \in Texts : SendGoal(t) \/ PressStep(t) \/ SendAnswer(t)
  BY <1>3 DEF SendGoal, RunTask, PressStep, SendAnswer, Woken
<1>4. CASE RefreshQuestion \/ Refused \/ Accepted
  BY <1>4 DEF RefreshQuestion, Refused, Accepted, RunTask, Woken, lifeVars
<1>5. CASE GoesOn \/ PanelCloses \/ PanelOpens
  BY <1>5 DEF GoesOn, PanelCloses, PanelOpens, Woken, lifeVars
<1> QED BY <1>1, <1>2, <1>3, <1>4, <1>5 DEF ClarifyNext

(* What the runs check of the undisturbed conversation follows from it.      *)
LEMMA AloneImplies ==
    ASSUME TypeInv, upsets = 0 => ClarifyIInv
    PROVE  OwnAnswers /\ QuestionShown
<1>1. ASSUME upsets = 0, NEW k \in Callers, work[k].at = "planning"
      PROVE  Given(k) = clarifications /\ work[k].goal = lastGoal
  <2>1. k = "task"
    BY <1>1 DEF Callers, ClarifyIInv, Alone
  <2>2. work["task"].live /\ work["task"].goal = lastGoal
    BY <1>1, <2>1 DEF ClarifyIInv, Alone, Busy
  <2> QED BY <2>1, <2>2 DEF Given
<1>2. OwnAnswers
  BY <1>1 DEF ClarifyIInv, Conversation, OwnAnswers
<1>3. QuestionShown
  BY DEF ClarifyIInv, Visible, QuestionShown, Callers
<1> QED BY <1>2, <1>3

LEMMA Undisturbed ==
    ClarifySpec => [](OwnAnswers /\ QuestionShown)
<1>1. ClarifyInit => (upsets = 0 => ClarifyIInv) BY InitAlone
<1>2. TypeInv /\ (upsets = 0 => ClarifyIInv) /\ [ClarifyNext]_clarifyVars => (upsets = 0 => ClarifyIInv)'
  <2>1. TypeInv /\ [ClarifyNext]_clarifyVars /\ upsets' = 0 => upsets = 0
    BY UpsetsStay DEF TypeInv, ClarifyTypeOK
  <2> QED BY <2>1, StepAlone
<1>3. TypeInv /\ (upsets = 0 => ClarifyIInv) => OwnAnswers /\ QuestionShown
  BY AloneImplies
<1>4. ClarifyInit => TypeInv BY ClarifyInitType
<1>5. TypeInv /\ [ClarifyNext]_clarifyVars => TypeInv' BY ClarifyStepType
<1> QED BY <1>1, <1>2, <1>3, <1>4, <1>5, PTL DEF ClarifySpec

(* OwnAnswers: until the worker is evicted or a single step is run, plans    *)
(* are made with exactly their goal's answers, for any texts and any length  *)
(* of the conversation.                                                      *)
THEOREM PlansGetTheirAnswers == ClarifySpec => []OwnAnswers
BY Undisturbed, PTL

(* QuestionShown: until then, and as long as the panel that started the last *)
(* task is open, a question nobody is at work on is in front of the user.    *)
THEOREM QuestionIsShown == ClarifySpec => []QuestionShown
BY Undisturbed, PTL

-----------------------------------------------------------------------------
(* The deployment.                                                           *)

Working == {"started", "window", "preparing", "planning"}

(* A client of a backend off the device was built for a server.             *)
Client ==
    run.at = "planning" /\ run.kind # Device => run.host \in Hosts

(* What goes past the await of attachedReady does so once it is over.        *)
Awake ==
    (run.at \in Working \/ probe.at = "asked" \/ select.at = "access") => ready = "done"

(* What would be restored is what the user entered, and so is what was.      *)
Remembered ==
    ~early => /\ RestoredConfig.endpoint = wanted
              /\ ready # "config" => deployment.endpoint = wanted

(* What is known, and what a probe is about to tell, is of the server that   *)
(* is configured; before the restore nothing is known.                       *)
HealthKept ==
    /\ ready = "config" => \A k \in OffDevice : lastHealth[k].of = NoHost
    /\ \A k \in OffDevice \ crossed :
           lastHealth[k].of \in {NoHost, OriginOf(k)} \/ OriginOf(k) = NoHost
    /\ probe.at = "asked" /\ probe.kind \notin crossed => probe.host = OriginOf(probe.kind)
    /\ run.at = "window" /\ run.kind \notin crossed => run.host = OriginOf(run.kind)

(* A run is bound to the server it was announced with, and has used no       *)
(* other; what it sent last went there with the token of that server.        *)
Bound ==
    /\ run.at \in Working /\ ~switched => run.told = ActiveOrigin /\ ~BackendMismatch
    /\ run.at = "planning" /\ ~switched => run.kind = deployment.backend /\ run.host = ActiveOrigin
    /\ run.at = "planning" => run.used \subseteq {run.host}
    /\ run.at # "planning" => run.used = {}
    /\ run.at = "starting" => sent = NoSent
    /\ TokenToItsHost

IInv == Awake /\ Remembered /\ HealthKept /\ Bound
-----------------------------------------------------------------------------
(* Configurations.                                                           *)

LEMMA Parts ==
    ASSUME NEW c \in Configs
    PROVE  /\ c.backend \in Kinds
           /\ c.endpoint \in [OffDevice -> HostOrNone]
           /\ \A k \in Kinds : EndpointOf(c, k) \in HostOrNone
<1>1. c.backend \in Kinds /\ c.endpoint \in [OffDevice -> HostOrNone]
  BY DEF Configs
<1> QED BY <1>1 DEF EndpointOf, Kinds, HostOrNone

(* A change of the selection leaves a configuration, with the endpoints it   *)
(* had.                                                                      *)
LEMMA Reselected ==
    ASSUME NEW c \in Configs, NEW b \in Kinds
    PROVE  /\ [c EXCEPT !.backend = b] \in Configs
           /\ [c EXCEPT !.backend = b].backend = b
           /\ [c EXCEPT !.backend = b].endpoint = c.endpoint
BY DEF Configs

(* So does a change of one endpoint, with or without one of the selection.   *)
LEMMA Repointed ==
    ASSUME NEW c \in Configs, NEW k \in OffDevice, NEW h \in HostOrNone
    PROVE  /\ [c EXCEPT !.endpoint[k] = h] \in Configs
           /\ [c EXCEPT !.endpoint[k] = h].endpoint = [c.endpoint EXCEPT ![k] = h]
           /\ \A b \in Kinds :
                  [backend |-> b, endpoint |-> [c.endpoint EXCEPT ![k] = h]] \in Configs
BY DEF Configs

(* What is forgotten of one backend is kept of the others.                   *)
LEMMA Dropped ==
    ASSUME lastHealth \in [OffDevice -> Healths], NEW k, DropHealth(k)
    PROVE  /\ lastHealth' \in [OffDevice -> Healths]
           /\ \A j \in OffDevice : lastHealth'[j] = IF j = k THEN NoHealth ELSE lastHealth[j]
BY DEF DropHealth, NoHealth, Healths, HostOrNone

(* The configurations a worker may start with.                               *)
LEMMA DeploymentStart ==
    ASSUME savedConfig \in Configs \cup {NoConfig}
    PROVE  /\ SeededDeployment \in Configs
           /\ RestoredConfig \in Configs
<1>1. "local" \in OffDevice /\ "cloud" \in OffDevice
  BY DeploymentAssumption
<1>2. \A k \in OffDevice, h \in HostOrNone : OnlyWith(k, h) \in Configs
  BY DEF OnlyWith, Configs, Kinds, HostOrNone
<1>3. DefaultDeployment \in Configs
  BY DEF DefaultDeployment, NoConfig, Configs, Kinds, HostOrNone
<1>4. BakedOrigin \in HostOrNone /\ LegacyOrigin \in HostOrNone
  BY DeploymentAssumption DEF HostOrNone
<1> QED BY <1>1, <1>2, <1>3, <1>4 DEF SeededDeployment, RestoredConfig

(* What a command stores is what would be restored.                          *)
LEMMA PersistRestores ==
    ASSUME deployment' \in Configs, Persist
    PROVE  RestoredConfig' = deployment'
<1>1. savedConfig' = deployment' /\ savedConfig'.backend # "none"
  BY DeploymentAssumption DEF Configs, Persist
<1>2. savedConfig' # NoConfig
  BY <1>1 DEF NoConfig
<1> QED BY <1>1, <1>2 DEF RestoredConfig

-----------------------------------------------------------------------------
(* Types.                                                                    *)

(* The steps, one by one.                                                    *)
LEMMA Choices ==
    ASSUME Next
    PROVE  \/ RestoreConfig \/ RestoreAccess \/ RestoreTokens \/ Restart
           \/ \E k \in Kinds : SelectAsked(k)
           \/ SelectResumes \/ SelectAccess
           \/ \E k \in OffDevice : ConfigureClears(k)
           \/ \E k \in OffDevice, h \in Hosts : ConfigureSets(k, h)
           \/ \E k \in OffDevice, on \in BOOLEAN : SetToken(k, on)
           \/ ServerOriginEmpty
           \/ \E h \in Hosts : ServerOrigin(h)
           \/ \E h \in Hosts : ChangePermission(h)
           \/ \E k \in OffDevice : HealthAsked(k)
           \/ HealthResumes
           \/ \E reachable, auth \in BOOLEAN : HealthAnswered(reachable, auth)
           \/ \E task \in BOOLEAN : RunAsked(task)
           \/ RunStarts \/ EnsureWindow
           \/ \E reachable, auth \in BOOLEAN : WindowAnswered(reachable, auth)
           \/ BuildBackend
           \/ \E reached \in BOOLEAN : Plan(reached)
           \/ RunEnds
BY ZenonT(60) DEF Next, Commands, Continuations

LEMMA InitType == Init => TypeOK
<1> SUFFICES ASSUME Init PROVE TypeOK
    OBVIOUS
<1>1. SeededDeployment \in Configs /\ RestoredConfig \in Configs
  BY DeploymentStart DEF Init
<1>2. MemoryOK
  BY <1>1 DEF Init, MemoryOK, Healths, NoHealth, HostOrNone
<1>3. PendingOK
  BY DEF Init, PendingOK, NoSelect, NoProbe, NoRun, Kinds, HostOrNone
<1>4. StoredOK
  BY DEF Init, StoredOK
<1>5. ObservedOK
  <2>1. wanted \in [OffDevice -> HostOrNone]
    BY <1>1, Parts DEF Init
  <2>2. commands \in 0..MaxCommands /\ restarts \in 0..MaxRestarts /\ plans \in 0..MaxPlans
    BY DeploymentAssumption DEF Init
  <2> QED BY <2>1, <2>2 DEF Init, ObservedOK, NoSent, HostOrNone
<1> QED BY <1>2, <1>3, <1>4, <1>5 DEF TypeOK

LEMMA MemoryType ==
    ASSUME TypeOK, Next PROVE MemoryOK'
<1> USE DEF config, storage, notes
<1>1. CASE RestoreConfig
  BY <1>1, DeploymentStart DEF TypeOK, RestoreConfig, MemoryOK, StoredOK, RestoredIntent, Configs
<1>2. CASE RestoreAccess
  BY <1>2, Reselected DEF TypeOK, RestoreAccess, MemoryOK, Kinds
<1>3. CASE RestoreTokens
  BY <1>3 DEF TypeOK, RestoreTokens, MemoryOK, StoredOK
<1>4. CASE Restart
  BY <1>4, DeploymentStart DEF TypeOK, Restart, MemoryOK, StoredOK, Healths, NoHealth, HostOrNone
<1>5. ASSUME NEW k \in Kinds, SelectAsked(k) PROVE MemoryOK'
  BY <1>5 DEF TypeOK, SelectAsked, MemoryOK
<1>6. CASE SelectResumes
  BY <1>6, Reselected DEF TypeOK, SelectResumes, Selects, MemoryOK, Kinds
<1>7. CASE SelectAccess
  BY <1>7, Reselected DEF TypeOK, SelectAccess, Selects, MemoryOK, PendingOK
<1>8. ASSUME NEW k \in OffDevice, ConfigureClears(k) PROVE MemoryOK'
  <2>1. deployment' \in Configs
    BY <1>8, Parts, Repointed DEF TypeOK, ConfigureClears, MemoryOK, Kinds, HostOrNone
  <2> QED BY <1>8, <2>1 DEF TypeOK, ConfigureClears, MemoryOK
<1>9. ASSUME NEW k \in OffDevice, NEW h \in Hosts, ConfigureSets(k, h) PROVE MemoryOK'
  BY <1>9, Parts, Repointed
     DEF TypeOK, ConfigureSets, DropHealth, NoHealth, Healths, MemoryOK, Kinds, HostOrNone
<1>10. ASSUME NEW k \in OffDevice, NEW on \in BOOLEAN, SetToken(k, on) PROVE MemoryOK'
  <2>1. OriginOf(k) \in Hosts
    BY <1>10, Parts DEF TypeOK, MemoryOK, SetToken, OriginOf, Kinds, HostOrNone
  <2> QED BY <1>10, <2>1 DEF TypeOK, SetToken, MemoryOK
<1>11. CASE ServerOriginEmpty
  BY <1>11, Reselected DEF TypeOK, ServerOriginEmpty, MemoryOK, Kinds
<1>12. ASSUME NEW h \in Hosts, ServerOrigin(h) PROVE MemoryOK'
  BY <1>12, Parts, Repointed, DeploymentAssumption
     DEF TypeOK, ServerOrigin, DropHealth, NoHealth, Healths, MemoryOK, Kinds, HostOrNone
<1>13. ASSUME NEW h \in Hosts, ChangePermission(h) PROVE MemoryOK'
  BY <1>13 DEF TypeOK, ChangePermission, MemoryOK
<1>14. ASSUME NEW k \in OffDevice, HealthAsked(k) PROVE MemoryOK'
  BY <1>14 DEF TypeOK, HealthAsked, MemoryOK
<1>15. CASE HealthResumes
  <2>1. lastHealth' \in [OffDevice -> Healths]
    BY <1>15, Dropped DEF TypeOK, MemoryOK, HealthResumes
  <2> QED BY <1>15, <2>1 DEF TypeOK, HealthResumes, MemoryOK
<1>16. ASSUME NEW reachable \in BOOLEAN, NEW auth \in BOOLEAN, HealthAnswered(reachable, auth)
       PROVE  MemoryOK'
  BY <1>16 DEF TypeOK, HealthAnswered, Healths, MemoryOK, PendingOK
<1>17. ASSUME NEW task \in BOOLEAN, RunAsked(task) PROVE MemoryOK'
  BY <1>17 DEF TypeOK, RunAsked, MemoryOK
<1>18. CASE RunStarts
  BY <1>18 DEF TypeOK, RunStarts, MemoryOK
<1>19. CASE EnsureWindow
  BY <1>19 DEF TypeOK, EnsureWindow, MemoryOK
<1>20. ASSUME NEW reachable \in BOOLEAN, NEW auth \in BOOLEAN, WindowAnswered(reachable, auth)
       PROVE  MemoryOK'
  BY <1>20 DEF TypeOK, WindowAnswered, Healths, MemoryOK, PendingOK
<1>21. CASE BuildBackend
  BY <1>21 DEF TypeOK, BuildBackend, MemoryOK
<1>22. ASSUME NEW reached \in BOOLEAN, Plan(reached) PROVE MemoryOK'
  BY <1>22 DEF TypeOK, Plan, MemoryOK
<1>23. CASE RunEnds
  BY <1>23 DEF TypeOK, RunEnds, MemoryOK
<1> QED BY <1>1, <1>2, <1>3, <1>4, <1>5, <1>6, <1>7, <1>8, <1>9, <1>10, <1>11, <1>12, <1>13,
           <1>14, <1>15, <1>16, <1>17, <1>18, <1>19, <1>20, <1>21, <1>22, <1>23, Choices

LEMMA NobodyRuns ==
    ASSUME Ended
    PROVE  /\ run' = NoRun /\ run'.at = "off" /\ run'.used = {}
           /\ loopRunning' = (run'.at # "off" /\ run'.task)
           /\ run' \in [at : {"off", "starting", "started", "window", "preparing", "planning"},
                       task : BOOLEAN, told : HostOrNone, kind : Kinds, host : HostOrNone,
                       used : SUBSET Hosts]
BY DEF Ended, NoRun, Kinds, HostOrNone

LEMMA AskedRun ==
    /\ NoRun.at = "off"
    /\ \A task \in BOOLEAN : LET asked == [NoRun EXCEPT !.at = "starting", !.task = task] IN
          /\ asked.at = "starting" /\ asked.used = {} /\ asked.task = task
<1>1. NoRun \in [at : {"off"}, task : {FALSE}, told : {NoHost}, kind : {Device},
                host : {NoHost}, used : {{}}]
  BY DEF NoRun
<1> QED BY <1>1

LEMMA PendingType ==
    ASSUME TypeOK, Client, Next PROVE PendingOK'
<1> USE DEF config, storage, notes
<1>1. CASE RestoreConfig
  BY <1>1 DEF TypeOK, RestoreConfig, PendingOK
<1>2. CASE RestoreAccess
  BY <1>2 DEF TypeOK, RestoreAccess, PendingOK
<1>3. CASE RestoreTokens
  BY <1>3 DEF TypeOK, RestoreTokens, PendingOK
<1>4. CASE Restart
  BY <1>4 DEF Restart, PendingOK, NoSelect, NoProbe, NoRun, Kinds, HostOrNone
<1>5. ASSUME NEW k \in Kinds, SelectAsked(k) PROVE PendingOK'
  <2>1. OriginOf(k) \in HostOrNone
    BY Parts DEF TypeOK, MemoryOK, OriginOf
  <2> QED BY <1>5, <2>1 DEF TypeOK, SelectAsked, PendingOK
<1>6. CASE SelectResumes
  BY <1>6 DEF TypeOK, SelectResumes, Selects, NoSelect, PendingOK, Kinds, HostOrNone
<1>7. CASE SelectAccess
  BY <1>7 DEF TypeOK, SelectAccess, Selects, NoSelect, PendingOK, Kinds, HostOrNone
<1>8. ASSUME NEW k \in OffDevice, ConfigureClears(k) PROVE PendingOK'
  BY <1>8 DEF TypeOK, ConfigureClears, PendingOK
<1>9. ASSUME NEW k \in OffDevice, NEW h \in Hosts, ConfigureSets(k, h) PROVE PendingOK'
  BY <1>9 DEF TypeOK, ConfigureSets, PendingOK
<1>10. ASSUME NEW k \in OffDevice, NEW on \in BOOLEAN, SetToken(k, on) PROVE PendingOK'
  BY <1>10 DEF TypeOK, SetToken, PendingOK
<1>11. CASE ServerOriginEmpty
  BY <1>11 DEF TypeOK, ServerOriginEmpty, PendingOK
<1>12. ASSUME NEW h \in Hosts, ServerOrigin(h) PROVE PendingOK'
  BY <1>12 DEF TypeOK, ServerOrigin, PendingOK
<1>13. ASSUME NEW h \in Hosts, ChangePermission(h) PROVE PendingOK'
  BY <1>13 DEF TypeOK, ChangePermission, PendingOK
<1>14. ASSUME NEW k \in OffDevice, HealthAsked(k) PROVE PendingOK'
  BY <1>14 DEF TypeOK, HealthAsked, NoProbe, PendingOK, Kinds, HostOrNone
<1>15. CASE HealthResumes
  <2>1. OriginOf(probe.kind) \in HostOrNone
    BY Parts DEF TypeOK, MemoryOK, PendingOK, OriginOf
  <2>2. probe' \in [at : {"idle", "waiting", "asked"}, kind : Kinds, host : HostOrNone]
    <3>1. CASE probe' = NoProbe
      BY <3>1 DEF NoProbe, Kinds, HostOrNone
    <3>2. CASE probe' = [probe EXCEPT !.at = "asked", !.host = OriginOf(probe.kind)]
      BY <2>1, <3>2 DEF TypeOK, PendingOK
    <3> QED BY <1>15, <3>1, <3>2 DEF HealthResumes
  <2> QED BY <1>15, <2>2 DEF TypeOK, HealthResumes, PendingOK
<1>16. ASSUME NEW reachable \in BOOLEAN, NEW auth \in BOOLEAN, HealthAnswered(reachable, auth)
       PROVE  PendingOK'
  BY <1>16 DEF TypeOK, HealthAnswered, NoProbe, PendingOK, Kinds, HostOrNone
<1>17. ASSUME NEW task \in BOOLEAN, RunAsked(task) PROVE PendingOK'
  BY <1>17 DEF TypeOK, RunAsked, NoRun, PendingOK, Kinds, HostOrNone
<1>a. ActiveOrigin \in HostOrNone /\ deployment.backend \in Kinds
  BY Parts DEF TypeOK, MemoryOK, ActiveOrigin
<1>18. CASE RunStarts
  <2>1. CASE Ended
    BY <1>18, <2>1, NobodyRuns DEF TypeOK, RunStarts, PendingOK
  <2>2. CASE UNCHANGED loopRunning /\ run' = [run EXCEPT !.at = "started", !.told = ActiveOrigin]
    BY <1>18, <1>a, <2>2 DEF TypeOK, RunStarts, PendingOK
  <2> QED BY <1>18, <2>1, <2>2 DEF RunStarts
<1>19. CASE EnsureWindow
  BY <1>19, <1>a DEF TypeOK, EnsureWindow, PendingOK
<1>20. ASSUME NEW reachable \in BOOLEAN, NEW auth \in BOOLEAN, WindowAnswered(reachable, auth)
       PROVE  PendingOK'
  BY <1>20 DEF TypeOK, WindowAnswered, PendingOK
<1>21. CASE BuildBackend
  <2>1. CASE Ended
    BY <1>21, <2>1, NobodyRuns DEF TypeOK, BuildBackend, PendingOK
  <2>2. CASE /\ UNCHANGED loopRunning
             /\ run' = [run EXCEPT !.at = "planning", !.kind = deployment.backend,
                                   !.host = ActiveOrigin]
    BY <1>21, <1>a, <2>2 DEF TypeOK, BuildBackend, PendingOK
  <2> QED BY <1>21, <2>1, <2>2 DEF BuildBackend
<1>22. ASSUME NEW reached \in BOOLEAN, Plan(reached) PROVE PendingOK'
  BY <1>22 DEF TypeOK, Plan, Used, Client, PendingOK
<1>23. CASE RunEnds
  BY <1>23, NobodyRuns DEF TypeOK, RunEnds, PendingOK
<1> QED BY <1>1, <1>2, <1>3, <1>4, <1>5, <1>6, <1>7, <1>8, <1>9, <1>10, <1>11, <1>12, <1>13,
           <1>14, <1>15, <1>16, <1>17, <1>18, <1>19, <1>20, <1>21, <1>22, <1>23, Choices

(* Only these steps store: the rest leave what is stored as it is.           *)
LEMMA StoredType ==
    ASSUME TypeOK, Next PROVE StoredOK'
<1> USE DEF config, storage, notes
<1>1. MemoryOK'
  BY MemoryType
<1>2. ASSUME Persist, UNCHANGED <<savedTokens, permitted>> PROVE StoredOK'
  BY <1>1, <1>2 DEF TypeOK, Persist, MemoryOK, StoredOK
<1>3. ASSUME UNCHANGED <<savedConfig, savedIntent, savedTokens, permitted>> PROVE StoredOK'
  BY <1>3 DEF TypeOK, StoredOK
<1>4. CASE RestoreConfig \/ RestoreAccess \/ RestoreTokens \/ Restart
  BY <1>3, <1>4 DEF RestoreConfig, RestoreAccess, RestoreTokens, Restart
<1>5. CASE \E k \in Kinds : SelectAsked(k)
  BY <1>3, <1>5 DEF SelectAsked
<1>6. CASE SelectResumes \/ SelectAccess
  BY <1>2, <1>3, <1>6 DEF SelectResumes, SelectAccess, Selects
<1>7. CASE \E k \in OffDevice : ConfigureClears(k)
  BY <1>2, <1>7 DEF ConfigureClears
<1>8. CASE \E k \in OffDevice, h \in Hosts : ConfigureSets(k, h)
  BY <1>2, <1>8 DEF ConfigureSets
<1>9. CASE \E k \in OffDevice, on \in BOOLEAN : SetToken(k, on)
  BY <1>1, <1>9 DEF TypeOK, SetToken, MemoryOK, StoredOK
<1>10. CASE ServerOriginEmpty \/ \E h \in Hosts : ServerOrigin(h)
  BY <1>2, <1>10 DEF ServerOriginEmpty, ServerOrigin
<1>11. CASE \E h \in Hosts : ChangePermission(h)
  BY <1>11 DEF TypeOK, ChangePermission, StoredOK
<1>12. CASE \E k \in OffDevice : HealthAsked(k)
  BY <1>3, <1>12 DEF HealthAsked
<1>13. CASE HealthResumes \/ \E reachable, auth \in BOOLEAN : HealthAnswered(reachable, auth)
  BY <1>3, <1>13 DEF HealthResumes, HealthAnswered
<1>14. CASE \E task \in BOOLEAN : RunAsked(task)
  BY <1>3, <1>14 DEF RunAsked
<1>15. CASE RunStarts \/ EnsureWindow \/ BuildBackend \/ RunEnds
  BY <1>3, <1>15 DEF RunStarts, EnsureWindow, BuildBackend, RunEnds
<1>16. CASE \E reachable, auth \in BOOLEAN : WindowAnswered(reachable, auth)
  BY <1>3, <1>16 DEF WindowAnswered
<1>17. CASE \E reached \in BOOLEAN : Plan(reached)
  BY <1>3, <1>17 DEF Plan
<1> QED BY <1>4, <1>5, <1>6, <1>7, <1>8, <1>9, <1>10, <1>11, <1>12, <1>13, <1>14, <1>15,
           <1>16, <1>17, Choices

LEMMA ObservedType ==
    ASSUME TypeOK, Client, Next PROVE ObservedOK'
<1> USE DEF config, storage, notes
<1>a. /\ commands' \in 0..MaxCommands /\ restarts' \in 0..MaxRestarts
      /\ plans' \in 0..MaxPlans
  <2>1. /\ commands' = commands \/ Commanded
        /\ restarts' = restarts \/ (restarts < MaxRestarts /\ restarts' = restarts + 1)
        /\ plans' = plans \/ (plans < MaxPlans /\ plans' = plans + 1)
    BY Choices
       DEF RestoreConfig, RestoreAccess, RestoreTokens, Restart, SelectAsked, SelectResumes,
           SelectAccess, ConfigureClears, ConfigureSets, SetToken, ServerOriginEmpty,
           ServerOrigin, ChangePermission, HealthAsked, HealthResumes, HealthAnswered, RunAsked,
           RunStarts, EnsureWindow, WindowAnswered, BuildBackend, Plan, RunEnds, Commanded
  <2> QED BY <2>1, DeploymentAssumption DEF TypeOK, ObservedOK, Commanded
<1>b. alternatives' \subseteq Kinds
  <2>1. alternatives' = alternatives \/ alternatives' = Alternatives(run.kind)
    BY Choices
       DEF RestoreConfig, RestoreAccess, RestoreTokens, Restart, SelectAsked, SelectResumes,
           SelectAccess, ConfigureClears, ConfigureSets, SetToken, ServerOriginEmpty,
           ServerOrigin, ChangePermission, HealthAsked, HealthResumes, HealthAnswered, RunAsked,
           RunStarts, EnsureWindow, WindowAnswered, BuildBackend, Plan, RunEnds
  <2> QED BY <2>1 DEF TypeOK, ObservedOK, Alternatives
<1>c. sent' \in [to : HostOrNone, token : HostOrNone]
  <2>1. \/ sent' = sent \/ sent' = NoSent
        \/ sent' = [to |-> run.host, token |-> TokenFor(run.kind)]
    BY Choices
       DEF RestoreConfig, RestoreAccess, RestoreTokens, Restart, SelectAsked, SelectResumes,
           SelectAccess, ConfigureClears, ConfigureSets, SetToken, ServerOriginEmpty,
           ServerOrigin, ChangePermission, HealthAsked, HealthResumes, HealthAnswered, RunAsked,
           RunStarts, EnsureWindow, WindowAnswered, BuildBackend, Plan, RunEnds
  <2>2. TokenFor(run.kind) \in HostOrNone
    BY Parts DEF TypeOK, MemoryOK, PendingOK, TokenFor, OriginOf, HostOrNone
  <2> QED BY <2>1, <2>2 DEF TypeOK, PendingOK, ObservedOK, NoSent, HostOrNone
<1>d. wanted' \in [OffDevice -> HostOrNone]
  <2>1. \/ wanted' = wanted
        \/ \E k \in OffDevice, h \in HostOrNone : wanted' = [wanted EXCEPT ![k] = h]
    BY Choices, DeploymentAssumption
       DEF RestoreConfig, RestoreAccess, RestoreTokens, Restart, SelectAsked, SelectResumes,
           SelectAccess, ConfigureClears, ConfigureSets, SetToken, ServerOriginEmpty,
           ServerOrigin, ChangePermission, HealthAsked, HealthResumes, HealthAnswered, RunAsked,
           RunStarts, EnsureWindow, WindowAnswered, BuildBackend, Plan, RunEnds, HostOrNone
  <2> QED BY <2>1 DEF TypeOK, ObservedOK
<1>e. early' \in BOOLEAN /\ crossed' \subseteq OffDevice /\ switched' \in BOOLEAN
  <2>1. /\ early' = early \/ \E k \in OffDevice \cup {"none"} : Noted(k)
        /\ crossed' \in {crossed, {}} \/ \E k \in OffDevice \cup {"none"} : Noted(k)
        /\ switched' \in {switched, FALSE} \/ \E k \in OffDevice \cup {"none"} : Noted(k)
    BY Choices, DeploymentAssumption
       DEF RestoreConfig, RestoreAccess, RestoreTokens, Restart, SelectAsked, SelectResumes,
           SelectAccess, Selects, ConfigureClears, ConfigureSets, SetToken, ServerOriginEmpty,
           ServerOrigin, ChangePermission, HealthAsked, HealthResumes, HealthAnswered, RunAsked,
           RunStarts, EnsureWindow, WindowAnswered, BuildBackend, Plan, RunEnds
  <2>2. probe.kind # "none" /\ run.kind # "none"
    BY DeploymentAssumption DEF TypeOK, PendingOK
  <2>3. ASSUME NEW k \in OffDevice \cup {"none"}, Noted(k)
        PROVE  early' \in BOOLEAN /\ crossed' \subseteq OffDevice /\ switched' \in BOOLEAN
    BY <2>2, <2>3 DEF TypeOK, ObservedOK, Noted
  <2> QED BY <2>1, <2>3 DEF TypeOK, ObservedOK
<1> QED BY <1>a, <1>b, <1>c, <1>d, <1>e DEF ObservedOK

(* A client is built from a usable endpoint only.                            *)
LEMMA ClientKept ==
    ASSUME TypeOK, Client, Next PROVE Client'
<1> USE DEF config, storage, notes
<1>1. CASE UNCHANGED run
  BY <1>1 DEF Client
<1>2. CASE run'.at # "planning"
  BY <1>2 DEF Client
<1>3. CASE BuildBackend
  <2>1. CASE Ended
    BY <1>2, <2>1, NobodyRuns
  <2>2. CASE ~Ended
    BY <1>3, <2>2 DEF BuildBackend, Usable, TypeOK, PendingOK, Client
  <2> QED BY <2>1, <2>2
<1>4. CASE \E reached \in BOOLEAN : Plan(reached)
  BY <1>4 DEF Plan, Used, TypeOK, PendingOK, Client
<1>5. CASE RunStarts \/ EnsureWindow \/ RunEnds
  <2>1. \/ Ended
        \/ run' = [run EXCEPT !.at = "started", !.told = ActiveOrigin]
        \/ run' = [run EXCEPT !.at = "window", !.kind = deployment.backend,
                              !.host = ActiveOrigin]
        \/ run' = [run EXCEPT !.at = "preparing"]
    BY <1>5 DEF RunStarts, EnsureWindow, RunEnds
  <2>2. run'.at # "planning"
    BY <2>1, NobodyRuns DEF TypeOK, PendingOK
  <2> QED BY <1>2, <2>2
<1>6. CASE \E reachable, auth \in BOOLEAN : WindowAnswered(reachable, auth)
  BY <1>2, <1>6 DEF WindowAnswered, TypeOK, PendingOK
<1>7. CASE Restart \/ \E task \in BOOLEAN : RunAsked(task)
  <2>1. run' = NoRun \/ \E task \in BOOLEAN : run' = [NoRun EXCEPT !.at = "starting", !.task = task]
    BY <1>7 DEF Restart, RunAsked
  <2>2. run'.at # "planning"
    BY <2>1, AskedRun
  <2> QED BY <1>2, <2>2
<1>8. \/ UNCHANGED run
      \/ BuildBackend \/ \E reached \in BOOLEAN : Plan(reached)
      \/ RunStarts \/ EnsureWindow \/ RunEnds
      \/ \E reachable, auth \in BOOLEAN : WindowAnswered(reachable, auth)
      \/ Restart \/ \E task \in BOOLEAN : RunAsked(task)
  BY Choices
     DEF RestoreConfig, RestoreAccess, RestoreTokens, SelectAsked, SelectResumes, SelectAccess,
         ConfigureClears, ConfigureSets, SetToken, ServerOriginEmpty, ServerOrigin,
         ChangePermission, HealthAsked, HealthResumes, HealthAnswered
<1> QED BY <1>1, <1>3, <1>4, <1>5, <1>6, <1>7, <1>8

LEMMA InitClient == Init => Client
BY DEF Init, Client, NoRun

LEMMA StepType ==
    ASSUME TypeOK, Client, [Next]_vars PROVE TypeOK' /\ Client'
<1>1. CASE Next
  BY <1>1, MemoryType, PendingType, StoredType, ObservedType, ClientKept DEF TypeOK
<1>2. CASE UNCHANGED vars
  <2>1. MemoryOK' /\ PendingOK'
    BY <1>2 DEF vars, config, TypeOK, MemoryOK, PendingOK
  <2>2. StoredOK' /\ ObservedOK'
    BY <1>2 DEF vars, storage, notes, TypeOK, StoredOK, ObservedOK
  <2> QED BY <1>2, <2>1, <2>2 DEF TypeOK, Client, vars
<1> QED BY <1>1, <1>2

(* Every variable of the deployment stays in its type, whichever commands,   *)
(* answers and evictions come in whatever order; and a client that plans off *)
(* the device was built for a server.                                        *)
THEOREM DeploymentTyped == Spec => [](TypeOK /\ Client)
<1>1. Init => TypeOK /\ Client
  BY InitType, InitClient
<1>2. TypeOK /\ Client /\ [Next]_vars => (TypeOK /\ Client)'
  BY StepType
<1> QED BY <1>1, <1>2, PTL DEF Spec

-----------------------------------------------------------------------------
(* The inductive invariant.                                                  *)

(* A command that changes the deployment: it is stored and noted, the        *)
(* endpoint of one kind at most changes, as the user entered it, and with it *)
(* what was known of that kind is dropped, unless nothing is left to ask.    *)
Rewrites(kind) ==
    /\ deployment' \in Configs
    /\ Persist
    /\ Noted(kind)
    /\ deployment.endpoint = wanted => deployment'.endpoint = wanted'
    /\ \A k \in OffDevice \ {kind} : /\ deployment'.endpoint[k] = deployment.endpoint[k]
                                     /\ lastHealth'[k] = lastHealth[k]
    /\ kind \in OffDevice => \/ lastHealth'[kind].of = NoHost
                             \/ /\ deployment'.endpoint[kind] = NoHost
                                /\ lastHealth' = lastHealth
    /\ UNCHANGED <<ready, probe, run, sent>>

(* A step that changes nothing the invariant is about, but that the tokens   *)
(* are there or a probe waits.                                               *)
Quiet ==
    /\ UNCHANGED <<deployment, intendedBackend, lastHealth, run, savedConfig, sent, wanted,
                   early, crossed, switched>>
    /\ ready' = ready \/ (ready = "tokens" /\ ready' = "done")
    /\ probe' = probe \/ probe'.at = "waiting"

LEMMA SelectsRewrites ==
    ASSUME TypeOK, NEW k \in Kinds, Selects(k),
           UNCHANGED <<lastHealth, wanted, ready, probe, run, sent>>
    PROVE  Rewrites("none")
<1>1. /\ deployment' \in Configs
      /\ deployment'.endpoint = deployment.endpoint
  BY Reselected DEF TypeOK, MemoryOK, Selects
<1>2. "none" \notin OffDevice
  BY DeploymentAssumption DEF Kinds
<1> QED BY <1>1, <1>2 DEF Selects, Rewrites

LEMMA CommandsRewrite ==
    ASSUME TypeOK, NEW k \in OffDevice, NEW h \in HostOrNone,
           ConfigureClears(k) \/ ConfigureSets(k, h) \/ ServerOrigin(h)
    PROVE  \E j \in OffDevice : Rewrites(j)
<1> USE DEF TypeOK, MemoryOK
<1>1. deployment.backend \in Kinds /\ deployment.endpoint \in [OffDevice -> HostOrNone]
  BY Parts
<1>2. h \in HostOrNone /\ NoHost \in HostOrNone /\ Device \in Kinds
  BY DEF HostOrNone, Kinds
<1>3. CASE ConfigureClears(k)
  <2>1. deployment'.endpoint = [deployment.endpoint EXCEPT ![k] = NoHost]
    BY <1>3 DEF ConfigureClears
  <2>2. deployment' \in Configs
    BY <1>1, <1>2, <1>3, Repointed DEF ConfigureClears
  <2> QED BY <1>1, <1>3, <2>1, <2>2 DEF ConfigureClears, Rewrites
<1>4. CASE ConfigureSets(k, h)
  <2>1. /\ deployment' \in Configs
        /\ deployment'.endpoint = [deployment.endpoint EXCEPT ![k] = h]
    <3>1. deployment' = [deployment EXCEPT !.endpoint[k] = h]
      BY <1>4 DEF ConfigureSets
    <3>2. deployment \in Configs
      OBVIOUS
    <3> QED BY <1>1, <1>2, <3>1, <3>2, Repointed
  <2>2. \A j \in OffDevice : lastHealth'[j] = IF j = k THEN NoHealth ELSE lastHealth[j]
    BY <1>4, Dropped DEF ConfigureSets
  <2>3. \A j \in OffDevice \ {k} : /\ deployment'.endpoint[j] = deployment.endpoint[j]
                                   /\ lastHealth'[j] = lastHealth[j]
    BY <1>1, <2>1, <2>2
  <2>4. lastHealth'[k].of = NoHost
    BY <2>2 DEF NoHealth
  <2>5. Rewrites(k)
    BY <1>4, <2>1, <2>3, <2>4 DEF ConfigureSets, Rewrites
  <2> QED BY <2>5
<1>5. CASE ServerOrigin(h)
  <2>1. "local" \in OffDevice /\ "local" \in Kinds
    BY DeploymentAssumption DEF Kinds
  <2>2. deployment'.endpoint = [deployment.endpoint EXCEPT !["local"] = h]
    BY <1>5 DEF ServerOrigin
  <2>3. deployment' \in Configs
    BY <1>1, <1>2, <1>5, <2>1, Repointed DEF ServerOrigin
  <2>4. \A j \in OffDevice : lastHealth'[j] = IF j = "local" THEN NoHealth ELSE lastHealth[j]
    BY <1>5, Dropped DEF ServerOrigin
  <2>5. \A j \in OffDevice \ {"local"} : /\ deployment'.endpoint[j] = deployment.endpoint[j]
                                         /\ lastHealth'[j] = lastHealth[j]
    BY <1>1, <2>1, <2>2, <2>4
  <2>6. lastHealth'["local"].of = NoHost
    BY <2>1, <2>4 DEF NoHealth
  <2>7. Rewrites("local")
    BY <1>5, <2>2, <2>3, <2>5, <2>6 DEF ServerOrigin, Rewrites
  <2> QED BY <2>1, <2>7
<1> QED BY <1>3, <1>4, <1>5

LEMMA Steps ==
    ASSUME TypeOK, Next
    PROVE  \/ Quiet \/ \E k \in OffDevice \cup {"none"} : Rewrites(k)
           \/ RestoreConfig \/ RestoreAccess \/ Restart
           \/ HealthResumes
           \/ \E reachable, auth \in BOOLEAN : HealthAnswered(reachable, auth)
           \/ \E task \in BOOLEAN : RunAsked(task)
           \/ RunStarts \/ EnsureWindow
           \/ \E reachable, auth \in BOOLEAN : WindowAnswered(reachable, auth)
           \/ BuildBackend
           \/ \E reached \in BOOLEAN : Plan(reached)
           \/ RunEnds
<1> USE DEF config, storage, notes
<1>1. RestoreTokens => Quiet
  BY DEF RestoreTokens, Quiet
<1>2. \A k \in Kinds : SelectAsked(k) => Quiet
  BY DEF SelectAsked, Quiet
<1>3. SelectResumes => Quiet \/ Rewrites("none")
  BY SelectsRewrites DEF SelectResumes, Quiet, Kinds
<1>4. SelectAccess => Quiet \/ Rewrites("none")
  BY SelectsRewrites DEF SelectAccess, Quiet, TypeOK, PendingOK
<1>5. \A k \in OffDevice, h \in HostOrNone :
          ConfigureClears(k) \/ ConfigureSets(k, h) \/ ServerOrigin(h)
              => \E j \in OffDevice : Rewrites(j)
  BY CommandsRewrite
<1>6. \A k \in OffDevice, on \in BOOLEAN : SetToken(k, on) => Quiet
  BY DEF SetToken, Quiet
<1>7. ServerOriginEmpty => Rewrites("none")
  <2>1. ASSUME ServerOriginEmpty
        PROVE  deployment' \in Configs /\ deployment'.endpoint = deployment.endpoint
    BY <2>1, Reselected DEF TypeOK, MemoryOK, ServerOriginEmpty, Kinds
  <2>2. "none" \notin OffDevice
    BY DeploymentAssumption DEF Kinds
  <2> QED BY <2>1, <2>2 DEF ServerOriginEmpty, Rewrites
<1>8. \A h \in Hosts : ChangePermission(h) => Quiet
  BY DEF ChangePermission, Quiet
<1>9. \A k \in OffDevice : HealthAsked(k) => Quiet
  BY DEF HealthAsked, Quiet, NoProbe
<1>10. "local" \in OffDevice /\ Hosts \subseteq HostOrNone /\ NoHost \in HostOrNone
  BY DeploymentAssumption DEF HostOrNone
<1> QED BY <1>1, <1>2, <1>3, <1>4, <1>5, <1>6, <1>7, <1>8, <1>9, <1>10, Choices

LEMMA InitIInv == Init => IInv
<1> SUFFICES ASSUME Init PROVE IInv
    OBVIOUS
<1>1. Awake /\ Remembered
  BY DEF Init, Awake, Remembered, NoRun, NoProbe, NoSelect, Working
<1>2. HealthKept
  BY DEF Init, HealthKept, NoHealth, NoProbe, NoRun
<1>3. Bound
  BY DEF Init, Bound, TokenToItsHost, NoRun, NoSent, Working
<1> QED BY <1>1, <1>2, <1>3 DEF IInv

(* What is under way after a step waits behind the restore, is over, or was  *)
(* past it before.                                                           *)
LEMMA AwakeKept ==
    ASSUME TypeOK, Awake, Next PROVE Awake'
<1> USE DEF config, storage, notes, TypeOK, PendingOK, Awake, Working
<1>1. \/ ready' = "done" \/ ready = ready'
      \/ ready \in {"config", "access", "tokens"} /\ UNCHANGED <<select, probe, run>>
      \/ Restart
  BY Choices
     DEF RestoreConfig, RestoreAccess, RestoreTokens, SelectAsked, SelectResumes, SelectAccess,
         ConfigureClears, ConfigureSets, SetToken, ServerOriginEmpty, ServerOrigin,
         ChangePermission, HealthAsked, HealthResumes, HealthAnswered, RunAsked, RunStarts,
         EnsureWindow, WindowAnswered, BuildBackend, Plan, RunEnds
<1>2. CASE Restart
  BY <1>2 DEF Restart, NoSelect, NoProbe, NoRun
<1>3. CASE ready' = ready /\ ~Restart
  <2>1. select'.at = "access" => ready = "done"
    <3>1. \/ select' = select \/ select' = NoSelect \/ ready = "done"
          \/ \E k \in Kinds : SelectAsked(k)
      BY <1>3, Choices
         DEF RestoreConfig, RestoreAccess, RestoreTokens, SelectResumes, SelectAccess, Selects,
             ConfigureClears, ConfigureSets, SetToken, ServerOriginEmpty, ServerOrigin,
             ChangePermission, HealthAsked, HealthResumes, HealthAnswered, RunAsked, RunStarts,
             EnsureWindow, WindowAnswered, BuildBackend, Plan, RunEnds
    <3>2. NoSelect.at # "access" /\ \A k \in Kinds : SelectAsked(k) => select'.at # "access"
      BY DEF NoSelect, SelectAsked
    <3> QED BY <3>1, <3>2
  <2>2. probe'.at = "asked" => ready = "done"
    BY <1>3, Choices
       DEF RestoreConfig, RestoreAccess, RestoreTokens, SelectAsked, SelectResumes,
           SelectAccess, ConfigureClears, ConfigureSets, SetToken,
           ServerOriginEmpty, ServerOrigin, ChangePermission, HealthAsked, HealthResumes,
           HealthAnswered, NoProbe, RunAsked, RunStarts, EnsureWindow, WindowAnswered,
           BuildBackend, Plan, RunEnds
  <2>3. run'.at \in Working => ready = "done"
    <3>1. run' = run \/ run.at \in Working \/ ready = "done" \/ \E t \in BOOLEAN : RunAsked(t)
      BY <1>3, Choices
         DEF RestoreConfig, RestoreAccess, RestoreTokens, SelectAsked, SelectResumes,
             SelectAccess, ConfigureClears, ConfigureSets, SetToken, ServerOriginEmpty,
             ServerOrigin, ChangePermission, HealthAsked, HealthResumes, HealthAnswered,
             RunStarts, EnsureWindow, WindowAnswered, BuildBackend, Plan, RunEnds
    <3> QED BY <3>1, AskedRun DEF RunAsked
  <2> QED BY <1>3, <2>1, <2>2, <2>3
<1> QED BY <1>1, <1>2, <1>3

LEMMA RememberedKept ==
    ASSUME TypeOK, Awake, Remembered, Next PROVE Remembered'
<1> USE DEF config, storage, notes
<1>1. CASE UNCHANGED <<deployment, savedConfig, wanted, early>>
           /\ (ready' = ready \/ ready # "config")
  BY <1>1 DEF Remembered, RestoredConfig
<1>2. ASSUME NEW k \in OffDevice \cup {"none"}, Rewrites(k) PROVE Remembered'
  BY <1>2, PersistRestores DEF Rewrites, Noted, Remembered
<1>3. CASE RestoreConfig
  BY <1>3 DEF RestoreConfig, Remembered, RestoredConfig
<1>4. CASE RestoreAccess
  <2>1. deployment'.endpoint = deployment.endpoint
    BY <1>4, Reselected DEF TypeOK, MemoryOK, RestoreAccess, Kinds
  <2> QED BY <1>4, <2>1 DEF RestoreAccess, Remembered, RestoredConfig
<1>5. CASE Restart
  BY <1>5 DEF Restart, Remembered, RestoredConfig
<1>6. CASE Quiet
  BY <1>1, <1>6 DEF Quiet
<1>7. CASE HealthResumes \/ \E reachable, auth \in BOOLEAN : HealthAnswered(reachable, auth)
  BY <1>1, <1>7 DEF HealthResumes, HealthAnswered
<1>8. CASE \/ \E task \in BOOLEAN : RunAsked(task)
           \/ RunStarts \/ EnsureWindow \/ BuildBackend \/ RunEnds
  BY <1>1, <1>8 DEF RunAsked, RunStarts, EnsureWindow, BuildBackend, RunEnds
<1>9. CASE \E reachable, auth \in BOOLEAN : WindowAnswered(reachable, auth)
  BY <1>1, <1>9 DEF WindowAnswered
<1>10. CASE \E reached \in BOOLEAN : Plan(reached)
  BY <1>1, <1>10 DEF Plan
<1> QED BY <1>2, <1>3, <1>4, <1>5, <1>6, <1>7, <1>8, <1>9, <1>10, Steps

(* What is known is of the server that is configured: a step that changes    *)
(* neither, a command that re-points a kind, the restore, and the probes.    *)
LEMMA HealthUndisturbed ==
    ASSUME TypeOK, HealthKept,
           UNCHANGED <<deployment, lastHealth, crossed, ready>>,
           probe' = probe \/ probe'.at # "asked" \/ probe'.host = OriginOf(probe'.kind),
           run' = run \/ run'.at # "window" \/ run'.host = OriginOf(run'.kind)
    PROVE  HealthKept'
BY DEF HealthKept, OriginOf, EndpointOf

LEMMA HealthRewritten ==
    ASSUME TypeOK, Awake, HealthKept, NEW k \in OffDevice \cup {"none"}, Rewrites(k)
    PROVE  HealthKept'
<1> USE DEF TypeOK, PendingOK, ObservedOK
<1>1. "none" \notin Kinds /\ Device \notin OffDevice /\ "none" \notin OffDevice
  BY DeploymentAssumption DEF Kinds
<1>2. \A j \in OffDevice \ crossed' : j # k => j \notin crossed
  BY DEF Rewrites, Noted
<1>3. \A j \in Kinds \ {k} : EndpointOf(deployment', j) = EndpointOf(deployment, j)
  BY DEF Rewrites, EndpointOf, Kinds
<1>4. \A j \in OffDevice \ {k} : lastHealth'[j] = lastHealth[j]
  BY DEF Rewrites
<1>5. k \in OffDevice => \/ lastHealth'[k].of = NoHost
                         \/ EndpointOf(deployment', k) = NoHost /\ lastHealth' = lastHealth
  BY <1>1 DEF Rewrites, EndpointOf
<1>6. ready' = "config" => \A j \in OffDevice : lastHealth'[j].of = NoHost
  BY <1>4, <1>5 DEF Rewrites, HealthKept
<1>7. \A j \in OffDevice \ crossed' :
          \/ lastHealth'[j].of \in {NoHost, EndpointOf(deployment', j)}
          \/ EndpointOf(deployment', j) = NoHost
  BY <1>2, <1>3, <1>4, <1>5 DEF HealthKept, OriginOf, Kinds
<1>8. probe.at = "asked" /\ probe.kind \notin crossed'
          => probe.host = EndpointOf(deployment', probe.kind)
  <2>1. SUFFICES ASSUME probe.at = "asked", probe.kind \notin crossed'
                 PROVE  probe.host = EndpointOf(deployment', probe.kind)
    OBVIOUS
  <2>2. probe.kind # k /\ probe.kind \notin crossed
    BY <1>1, <2>1 DEF Rewrites, Noted
  <2> QED BY <1>3, <2>1, <2>2 DEF HealthKept, OriginOf
<1>9. run.at = "window" /\ run.kind \notin crossed'
          => run.host = EndpointOf(deployment', run.kind)
  <2>1. SUFFICES ASSUME run.at = "window", run.kind \notin crossed'
                 PROVE  run.host = EndpointOf(deployment', run.kind)
    OBVIOUS
  <2>2. run.kind # k /\ run.kind \notin crossed
    BY <1>1, <2>1 DEF Rewrites, Noted
  <2> QED BY <1>3, <2>1, <2>2 DEF HealthKept, OriginOf
<1>10. probe' = probe /\ run' = run
  BY DEF Rewrites
<1> QED BY <1>6, <1>7, <1>8, <1>9, <1>10 DEF HealthKept, OriginOf

LEMMA HealthKeptOn ==
    ASSUME TypeOK, Awake, HealthKept, Next PROVE HealthKept'
<1> USE DEF config, storage, notes
<1>1. CASE Quiet
  BY <1>1 DEF Quiet, HealthKept, OriginOf, EndpointOf
<1>2. CASE \E k \in OffDevice \cup {"none"} : Rewrites(k)
  BY <1>2, HealthRewritten
<1>3. CASE RestoreConfig
  <2>1. \A k \in OffDevice : lastHealth'[k].of = NoHost
    BY <1>3 DEF RestoreConfig, HealthKept
  <2>2. probe'.at # "asked" /\ run'.at # "window"
    BY <1>3 DEF RestoreConfig, Awake, Working
  <2> QED BY <2>1, <2>2 DEF HealthKept
<1>4. CASE RestoreAccess
  <2>1. deployment'.endpoint = deployment.endpoint
    BY <1>4, Reselected DEF TypeOK, MemoryOK, RestoreAccess, Kinds
  <2> QED BY <1>4, <2>1 DEF RestoreAccess, HealthKept, OriginOf, EndpointOf
<1>5. CASE Restart
  <2>1. \A k \in OffDevice : lastHealth'[k].of = NoHost
    BY <1>5 DEF Restart, NoHealth
  <2>2. probe'.at # "asked" /\ run'.at # "window"
    BY <1>5 DEF Restart, NoProbe, NoRun
  <2> QED BY <2>1, <2>2 DEF HealthKept
<1>6. CASE HealthResumes
  <2>1. CASE UNCHANGED lastHealth /\ probe' = [probe EXCEPT !.at = "asked", !.host = OriginOf(probe.kind)]
    <3>1. probe'.host = OriginOf(probe'.kind)
      BY <2>1 DEF TypeOK, PendingOK
    <3> QED BY <1>6, <2>1, <3>1, HealthUndisturbed DEF HealthResumes
  <2>2. CASE DropHealth(probe.kind) /\ probe' = NoProbe
    <3>1. \A k \in OffDevice : lastHealth'[k] = IF k = probe.kind THEN NoHealth ELSE lastHealth[k]
      BY <2>2, Dropped DEF TypeOK, MemoryOK
    <3>2. probe'.at # "asked"
      BY <2>2 DEF NoProbe
    <3> QED BY <1>6, <3>1, <3>2 DEF HealthResumes, HealthKept, OriginOf, EndpointOf, NoHealth
  <2> QED BY <1>6, <2>1, <2>2 DEF HealthResumes
<1>7. ASSUME NEW reachable \in BOOLEAN, NEW auth \in BOOLEAN, HealthAnswered(reachable, auth)
      PROVE  HealthKept'
  <2>1. \A k \in OffDevice : \/ lastHealth'[k] = lastHealth[k]
                             \/ k = probe.kind /\ lastHealth'[k].of = probe.host
    BY <1>7 DEF HealthAnswered, TypeOK, MemoryOK
  <2>2. probe.kind \notin crossed => probe.host = OriginOf(probe.kind)
    BY <1>7 DEF HealthAnswered, HealthKept
  <2>3. ready' # "config"
    BY <1>7 DEF HealthAnswered, Awake
  <2>4. probe'.at # "asked"
    BY <1>7 DEF HealthAnswered, NoProbe
  <2> QED BY <1>7, <2>1, <2>2, <2>3, <2>4 DEF HealthAnswered, HealthKept, OriginOf, EndpointOf
<1>8. CASE \E task \in BOOLEAN : RunAsked(task)
  <2>1. run'.at # "window"
    BY <1>8, AskedRun DEF RunAsked
  <2> QED BY <1>8, <2>1, HealthUndisturbed DEF RunAsked
<1>9. CASE RunStarts
  <2>1. run'.at # "window"
    BY <1>9, NobodyRuns DEF RunStarts, TypeOK, PendingOK
  <2> QED BY <1>9, <2>1, HealthUndisturbed DEF RunStarts
<1>10. CASE EnsureWindow
  <2>1. \/ run' = [run EXCEPT !.at = "window", !.kind = deployment.backend, !.host = ActiveOrigin]
        \/ run' = [run EXCEPT !.at = "preparing"]
    BY <1>10 DEF EnsureWindow
  <2>2. run'.at # "window" \/ run'.host = OriginOf(run'.kind)
    BY <2>1 DEF TypeOK, PendingOK, ActiveOrigin, OriginOf
  <2> QED BY <1>10, <2>2, HealthUndisturbed DEF EnsureWindow
<1>11. ASSUME NEW reachable \in BOOLEAN, NEW auth \in BOOLEAN, WindowAnswered(reachable, auth)
       PROVE  HealthKept'
  <2>1. \A k \in OffDevice : \/ lastHealth'[k] = lastHealth[k]
                             \/ k = run.kind /\ lastHealth'[k].of = run.host
    BY <1>11 DEF WindowAnswered, TypeOK, MemoryOK
  <2>2. run.kind \notin crossed => run.host = OriginOf(run.kind)
    BY <1>11 DEF WindowAnswered, HealthKept
  <2>3. ready' # "config"
    BY <1>11 DEF WindowAnswered, Awake, Working
  <2>4. run'.at # "window"
    BY <1>11 DEF WindowAnswered, TypeOK, PendingOK
  <2> QED BY <1>11, <2>1, <2>2, <2>3, <2>4 DEF WindowAnswered, HealthKept, OriginOf, EndpointOf
<1>12. CASE BuildBackend
  <2>1. run'.at # "window"
    BY <1>12, NobodyRuns DEF BuildBackend, TypeOK, PendingOK
  <2> QED BY <1>12, <2>1, HealthUndisturbed DEF BuildBackend
<1>13. ASSUME NEW reached \in BOOLEAN, Plan(reached) PROVE HealthKept'
  <2>1. run'.at # "window"
    BY <1>13 DEF Plan, Used, TypeOK, PendingOK
  <2> QED BY <1>13, <2>1, HealthUndisturbed DEF Plan
<1>14. CASE RunEnds
  <2>1. run'.at # "window"
    BY <1>14, NobodyRuns DEF RunEnds
  <2> QED BY <1>14, <2>1, HealthUndisturbed DEF RunEnds
<1> QED BY <1>1, <1>2, <1>3, <1>4, <1>5, <1>6, <1>7, <1>8, <1>9, <1>10, <1>11, <1>12, <1>13,
           <1>14, Steps

(* What a run is bound to: it is off, or nothing of the selection moved.     *)
LEMMA BoundUndisturbed ==
    ASSUME TypeOK, Bound,
           UNCHANGED <<deployment, intendedBackend, sent, switched>>, run' = run
    PROVE  Bound'
BY DEF Bound, Working, TokenToItsHost, ActiveOrigin, EndpointOf, BackendMismatch

LEMMA BoundOff ==
    ASSUME TokenToItsHost, Ended, \/ sent' = NoSent
                                  \/ sent' = sent /\ (switched' = switched \/ switched')
    PROVE  Bound'
<1>1. run'.at = "off" /\ run'.used = {}
  BY NobodyRuns
<1> QED BY <1>1 DEF Bound, Working, TokenToItsHost, NoSent

LEMMA BoundKept ==
    ASSUME TypeOK, Awake, Bound, Next PROVE Bound'
<1> USE DEF config, storage, notes
<1>1. CASE Quiet
  BY <1>1, BoundUndisturbed DEF Quiet
<1>2. ASSUME NEW k \in OffDevice \cup {"none"}, Rewrites(k) PROVE Bound'
  <2>1. run' = run /\ sent' = sent
    BY <1>2 DEF Rewrites
  <2>2. switched' = (switched \/ run.at # "off")
    BY <1>2 DEF Rewrites, Noted
  <2> QED BY <2>1, <2>2 DEF Bound, Working, TokenToItsHost
<1>3. CASE RestoreConfig \/ RestoreAccess
  <2>1. run.at \notin Working
    BY <1>3 DEF RestoreConfig, RestoreAccess, Awake
  <2>2. run' = run /\ sent' = sent /\ switched' = switched
    BY <1>3 DEF RestoreConfig, RestoreAccess
  <2> QED BY <2>1, <2>2 DEF Bound, Working, TokenToItsHost
<1>4. CASE Restart
  BY <1>4 DEF Restart, Bound, Working, TokenToItsHost, NoRun, NoSent
<1>5. CASE HealthResumes
  BY <1>5, BoundUndisturbed DEF HealthResumes
<1>6. CASE \E reachable, auth \in BOOLEAN : HealthAnswered(reachable, auth)
  BY <1>6, BoundUndisturbed DEF HealthAnswered
<1>7. CASE \E task \in BOOLEAN : RunAsked(task)
  <2>1. run'.at = "starting" /\ run'.used = {} /\ sent' = NoSent
    BY <1>7, AskedRun DEF RunAsked
  <2> QED BY <2>1 DEF Bound, Working, TokenToItsHost, NoSent
<1>8. CASE RunStarts
  <2>1. sent' = sent /\ sent = NoSent
    BY <1>8 DEF RunStarts, Bound
  <2>2. CASE Ended
    BY <2>1, <2>2, BoundOff DEF Bound
  <2>3. CASE ~Ended
    <3>1. ~BackendMismatch /\ run' = [run EXCEPT !.at = "started", !.told = ActiveOrigin]
      BY <1>8, <2>3 DEF RunStarts
    <3>2. run'.at = "started" /\ run'.told = ActiveOrigin /\ run'.used = {}
      BY <1>8, <3>1 DEF RunStarts, Bound, TypeOK, PendingOK
    <3>3. ActiveOrigin' = ActiveOrigin /\ BackendMismatch' = BackendMismatch
      BY <1>8 DEF RunStarts, ActiveOrigin, EndpointOf, BackendMismatch
    <3> QED BY <2>1, <3>1, <3>2, <3>3 DEF Bound, Working, TokenToItsHost, NoSent
  <2> QED BY <2>2, <2>3
<1>9. ASSUME UNCHANGED <<deployment, intendedBackend, sent, switched>>,
             run.at \in Working, run'.at \in {"window", "preparing"},
             run'.told = run.told, run'.used = {}
      PROVE  Bound'
  <2>1. ActiveOrigin' = ActiveOrigin /\ BackendMismatch' = BackendMismatch
    BY <1>9 DEF ActiveOrigin, EndpointOf, BackendMismatch
  <2> QED BY <1>9, <2>1 DEF Bound, Working, TokenToItsHost
<1>10. CASE EnsureWindow
  <2>1. \/ run' = [run EXCEPT !.at = "window", !.kind = deployment.backend, !.host = ActiveOrigin]
        \/ run' = [run EXCEPT !.at = "preparing"]
    BY <1>10 DEF EnsureWindow
  <2>2. run.at = "started" /\ run.used = {}
    BY <1>10 DEF EnsureWindow, Bound
  <2>3. /\ run'.at \in {"window", "preparing"}
        /\ run'.told = run.told /\ run'.used = {}
    BY <2>1, <2>2 DEF TypeOK, PendingOK
  <2> QED BY <1>9, <1>10, <2>2, <2>3 DEF EnsureWindow, Working
<1>11. ASSUME NEW reachable \in BOOLEAN, NEW auth \in BOOLEAN, WindowAnswered(reachable, auth)
       PROVE  Bound'
  <2>1. run.at = "window" /\ run.used = {}
    BY <1>11 DEF WindowAnswered, Bound
  <2>2. /\ run'.at \in {"window", "preparing"}
        /\ run'.told = run.told /\ run'.used = {}
    BY <1>11, <2>1 DEF WindowAnswered, TypeOK, PendingOK
  <2> QED BY <1>9, <1>11, <2>1, <2>2 DEF WindowAnswered, Working
<1>12. CASE BuildBackend
  <2>1. CASE Ended
    BY <1>12, <2>1, BoundOff DEF BuildBackend, Bound
  <2>2. CASE ~Ended
    <3>1. run' = [run EXCEPT !.at = "planning", !.kind = deployment.backend,
                             !.host = ActiveOrigin]
      BY <1>12, <2>2 DEF BuildBackend
    <3>2. run.at = "preparing" /\ run.used = {}
      BY <1>12 DEF BuildBackend, Bound
    <3>3. /\ run'.at = "planning" /\ run'.kind = deployment.backend /\ run'.host = ActiveOrigin
          /\ run'.told = run.told /\ run'.used = {}
      BY <3>1, <3>2 DEF TypeOK, PendingOK
    <3>4. UNCHANGED <<deployment, intendedBackend, sent, switched>>
      BY <1>12 DEF BuildBackend
    <3>5. ActiveOrigin' = ActiveOrigin /\ BackendMismatch' = BackendMismatch
      BY <3>4 DEF ActiveOrigin, EndpointOf, BackendMismatch
    <3> QED BY <3>2, <3>3, <3>4, <3>5 DEF Bound, Working, TokenToItsHost
  <2> QED BY <2>1, <2>2
<1>13. ASSUME NEW reached \in BOOLEAN, Plan(reached) PROVE Bound'
  <2>1. UNCHANGED <<deployment, intendedBackend, switched>>
    BY <1>13 DEF Plan
  <2>2. ActiveOrigin' = ActiveOrigin /\ BackendMismatch' = BackendMismatch
    BY <2>1 DEF ActiveOrigin, EndpointOf, BackendMismatch
  <2>3. run.at = "planning" /\ run' = [run EXCEPT !.used = @ \cup {run.host}]
    BY <1>13 DEF Plan, Used
  <2>4. /\ run'.at = "planning" /\ run'.kind = run.kind /\ run'.host = run.host
        /\ run'.told = run.told /\ run'.used = run.used \cup {run.host}
    BY <2>3 DEF TypeOK, PendingOK
  <2>5. sent'.to = run.host /\ sent'.token = TokenFor(run.kind)
    BY <1>13 DEF Plan
  <2>6. TokenToItsHost'
    BY <2>1, <2>3, <2>5 DEF Bound, TokenToItsHost, TokenFor, OriginOf, ActiveOrigin
  <2> QED BY <2>1, <2>2, <2>3, <2>4, <2>6 DEF Bound, Working
<1>14. CASE RunEnds
  BY <1>14, BoundOff DEF RunEnds, Bound
<1> QED BY <1>1, <1>2, <1>3, <1>4, <1>5, <1>6, <1>7, <1>8, <1>10, <1>11, <1>12, <1>13, <1>14,
           Steps

LEMMA StepIInv ==
    ASSUME TypeOK, IInv, [Next]_vars PROVE IInv'
<1>1. CASE Next
  BY <1>1, AwakeKept, RememberedKept, HealthKeptOn, BoundKept DEF IInv
<1>2. CASE UNCHANGED vars
  <2>1. UNCHANGED <<config, ready, select, probe, run, savedConfig, notes>>
    BY <1>2 DEF vars, storage
  <2>2. Awake' /\ Remembered'
    BY <2>1 DEF config, notes, IInv, Awake, Remembered, RestoredConfig
  <2>3. HealthKept'
    BY <2>1, HealthUndisturbed DEF config, notes, IInv
  <2>4. Bound'
    BY <2>1, BoundUndisturbed DEF config, notes, IInv
  <2> QED BY <2>2, <2>3, <2>4 DEF IInv
<1> QED BY <1>1, <1>2

(* What the checked properties say of a state follows from the invariant.    *)
LEMMA Implied ==
    ASSUME TypeOK, IInv
    PROVE  TokenToItsHost /\ RunOnOneHost /\ ServersRemembered
<1>1. TokenToItsHost
  BY DEF IInv, Bound
<1>2. RunOnOneHost
  <2>1. \A g, h \in run.used : g = h
    BY DEF IInv, Bound
  <2>2. run.at = "planning" /\ ~switched => run.host = run.told
    BY DEF IInv, Bound, Working
  <2>3. run.at \in {"started", "window", "preparing", "planning"} /\ ~switched
            => ~BackendMismatch
    BY DEF IInv, Bound, Working
  <2> QED BY <2>1, <2>2, <2>3 DEF RunOnOneHost
<1>3. ServersRemembered
  BY DEF IInv, Remembered, HealthKept, ServersRemembered
<1> QED BY <1>1, <1>2, <1>3

LEMMA Invariant == Spec => [](TypeOK /\ IInv)
<1>1. Init => TypeOK /\ Client /\ IInv
  BY InitType, InitClient, InitIInv
<1>2. TypeOK /\ Client /\ IInv /\ [Next]_vars => (TypeOK /\ Client /\ IInv)'
  BY StepType, StepIInv
<1> QED BY <1>1, <1>2, PTL DEF Spec

-----------------------------------------------------------------------------
(* The theorems.                                                             *)

(* A token is sent to the server it was set for, however the selection, the  *)
(* endpoints and the tokens are changed between the requests, unless the     *)
(* deployment changed under the run that sends it.                           *)
THEOREM TokenGoesToItsHost == Spec => []TokenToItsHost
BY Invariant, Implied, PTL

(* A run is planned on the one server it announced, which is of the kind the *)
(* user chose; nothing that fails leads it to another.                       *)
THEOREM RunStaysOnOneHost == Spec => []RunOnOneHost
BY Invariant, Implied, PTL

(* What is remembered of the servers is what the user entered, across any    *)
(* number of evictions, and what is known of a server is of the one that is  *)
(* configured.                                                               *)
THEOREM ServersAreRemembered == Spec => []ServersRemembered
BY Invariant, Implied, PTL

===============================================================================
