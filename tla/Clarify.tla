------------------------------- MODULE Clarify -------------------------------
(***************************************************************************)
(* The clarification conversation: a run or a single step may end with a   *)
(* question (ask_user), the panel shows it, the user's answer is recorded  *)
(* and the goal is run again with it. The background's half is             *)
(* src/src/entrypoints/background.ts, a service worker the browser may     *)
(* evict and restart at any moment; the panel's half is                    *)
(* src/src/entrypoints/sidepanel/main.tsx, a page the user may close and   *)
(* open again at any moment.                                               *)
(*                                                                         *)
(* A question is represented by the goal of the run that asked it, and the *)
(* clarifications by the set of questions answered, so that what is held   *)
(* can be compared with the goal it is used for. Texts are what a user can *)
(* type, as a goal or as an answer.                                        *)
(***************************************************************************)
EXTENDS Naturals, Sequences

CONSTANTS
    Texts,          \* what the user can type
    None,           \* null
    MaxSaid,        \* bound: lines of the user in the transcript
    MaxUpsets       \* bound: evictions of the worker and uses of "One step"

ASSUME ClarifyAssumption ==
    /\ None \notin Texts
    /\ MaxSaid \in Nat
    /\ MaxUpsets \in Nat

VARIABLES
    \* the worker's memory
    pendingQuestion, \* the question outstanding
    lastGoal,        \* the goal the conversation is about
    clarifications,  \* questions answered
    work,            \* the task and the single step under way
    \* the worker's life
    awake,           \* it has been started
    attachedReady,   \* how far its start-up restore has come
    fetched,         \* what the restore has read
    upsets,          \* evictions and single steps so far
    \* storage.session
    saved,
    \* the panel
    open,            \* it is open
    shown,           \* its pendingQuestion
    said,            \* the user's lines of the transcript
    waits,           \* the reply to its agent/run has not come yet
    refresh,         \* refreshQuestion is to be called
    running,         \* its state.loop.running
    ack,             \* reply to task/answer on its way
    \* observation
    kept,            \* questions whose answers this conversation must hold
    ours             \* the panel that is open started the last task

memoryVars == <<pendingQuestion, lastGoal, clarifications>>
lifeVars   == <<awake, attachedReady, fetched, upsets>>
panelVars  == <<open, shown, said, waits, refresh, running, ack>>
userVars   == <<kept, ours>>
clarifyVars == <<memoryVars, work, lifeVars, saved, panelVars, userVars>>

Callers   == {"task", "step"}
Nobody  == [question |-> None, goal |-> None, answered |-> {}]
Idle    == [at |-> "idle", goal |-> None, live |-> FALSE, held |-> {}]
NoAck   == [to |-> None, answer |-> None]
Busy(k) == work[k].at # "idle"

(* The clarifications an activity plans with: the array it was started with, *)
(* which answers are pushed to until the background replaces it.             *)
Given(k) == IF work[k].live THEN clarifications ELSE work[k].held

(* The conversation begins with a worker whose first start is long over.     *)
ClarifyInit ==
    /\ pendingQuestion = None
    /\ lastGoal = None
    /\ clarifications = {}
    /\ work = [k \in Callers |-> Idle]
    /\ awake = TRUE
    /\ attachedReady = "done"
    /\ fetched = Nobody
    /\ upsets = 0
    /\ saved = Nobody
    /\ open = TRUE
    /\ shown = None
    /\ said = <<>>
    /\ waits = FALSE
    /\ refresh = FALSE
    /\ running = FALSE
    /\ ack = NoAck
    /\ kept = {}
    /\ ours = TRUE

-----------------------------------------------------------------------------
(* The worker starts and restores; it can be evicted.                        *)

(* Any message finds the worker awake: an evicted one starts over first. Its *)
(* memory was cleared by Evict, its restore begins from nothing.             *)
Woken ==
    /\ awake' = TRUE
    /\ UNCHANGED <<attachedReady, fetched, upsets>>

(* Some other event of the extension wakes it.                               *)
Wakes ==
    /\ ~awake
    /\ Woken
    /\ UNCHANGED <<memoryVars, work, saved, panelVars, userVars>>

(* persistClarification                                                      *)
PersistClarification ==
    saved' = [question |-> pendingQuestion', goal |-> lastGoal', answered |-> clarifications']

(* attachedReady asks the session store for the conversation ...             *)
RestoreReads ==
    /\ awake
    /\ attachedReady = "before"
    /\ attachedReady' = "reading"
    /\ fetched' = saved
    /\ UNCHANGED <<memoryVars, work, awake, upsets, saved, panelVars, userVars>>

(* Mutant: the answers are not restored.                                     *)
RestoreForgets ==
    /\ awake
    /\ attachedReady = "reading"
    /\ attachedReady' = "done"
    /\ pendingQuestion' = fetched.question
    /\ lastGoal' = fetched.goal
    /\ clarifications' = {}
    /\ UNCHANGED <<work, awake, fetched, upsets, saved, panelVars, userVars>>

(* ... and overwrites what is in memory with what it got.                    *)
RestoreLands ==
    /\ awake
    /\ attachedReady = "reading"
    /\ attachedReady' = "done"
    /\ pendingQuestion' = fetched.question
    /\ lastGoal' = fetched.goal
    /\ clarifications' = fetched.answered
    /\ UNCHANGED <<work, awake, fetched, upsets, saved, panelVars, userVars>>

(* Everything in memory is lost; the panel's open requests are rejected.     *)
Evict ==
    /\ awake
    /\ upsets < MaxUpsets
    /\ upsets' = upsets + 1
    /\ awake' = FALSE
    /\ attachedReady' = "before"
    /\ fetched' = Nobody
    /\ pendingQuestion' = None
    /\ lastGoal' = None
    /\ clarifications' = {}
    /\ work' = [k \in Callers |-> Idle]
    /\ waits' = FALSE
    /\ UNCHANGED <<saved, open, shown, said, refresh, running, ack, userVars>>

-----------------------------------------------------------------------------
(* agent/run and agent/step: runTask and runOneStep.                         *)

(* Mutant: the conversation is not started over for another goal.            *)
IsNewNever(g) == FALSE

(* Mutant: it is started over every time.                                    *)
IsNewAlways(g) == TRUE

IsNew(g) == g # lastGoal

(* A different goal is a different conversation; this runs before            *)
(* attachedReady is awaited.                                                 *)
Converse(g) ==
    IF IsNew(g)
    THEN /\ pendingQuestion' = None
         /\ lastGoal' = g
         /\ clarifications' = {}
         /\ PersistClarification
    ELSE UNCHANGED <<memoryVars, saved>>

(* The user's own view of the conversation: an answer belongs to it until    *)
(* another goal is sent.                                                     *)
Observe(g) == kept' = kept \cap {g}

Freeze(k) == [work[k] EXCEPT !.live = FALSE, !.held = Given(k)]

Starts(k, g) ==
    /\ Converse(g)
    /\ Observe(g)
    /\ work' = [j \in Callers |->
                  IF j = k THEN [at |-> "waiting", goal |-> g, live |-> FALSE, held |-> {}]
                  ELSE IF IsNew(g) THEN Freeze(j) ELSE work[j]]

(* The panel's runTask: a second task is refused, and its reply fetches the  *)
(* question like any other's.                                                *)
RunTask(g) ==
    /\ Woken
    /\ IF Busy("task")
       THEN refresh' = TRUE /\ UNCHANGED <<memoryVars, saved, userVars, work, waits>>
       ELSE Starts("task", g) /\ waits' = TRUE /\ ours' = TRUE /\ UNCHANGED refresh

(* The rest of the task's checks pass and its first step is about to plan;   *)
(* a run's steps tell the panel, if it is open, that it is running.          *)
Launch(k) ==
    /\ work[k].at = "waiting"
    /\ attachedReady = "done"
    /\ work' = [work EXCEPT ![k].at = "planning", ![k].live = TRUE]
    /\ running' = (running \/ (open /\ k = "task"))
    /\ UNCHANGED <<memoryVars, lifeVars, saved, userVars, open, shown, said, waits, refresh,
                   ack>>

(* The run takes another step: a panel opened since learns of it.            *)
GoesOn ==
    /\ work["task"].at = "planning"
    /\ open
    /\ running' = TRUE
    /\ UNCHANGED <<memoryVars, work, lifeVars, saved, userVars, open, shown, said, waits,
                   refresh, ack>>

(* Mutant: the question is fetched only after a run that asked none.         *)
RepliedToFailure(k, asked) ==
    /\ waits' = IF k = "task" THEN FALSE ELSE waits
    /\ refresh' = (refresh \/ (k = "task" /\ waits /\ ~asked))

(* The reply to agent/run fetches the question; that to agent/step does not. *)
Replied(k, asked) ==
    /\ waits' = IF k = "task" THEN FALSE ELSE waits
    /\ refresh' = (refresh \/ (k = "task" /\ waits))

(* A run that took a step tells the panel that it stopped.                   *)
Stopped(k) == running' = (running /\ ~(k = "task" /\ work[k].at = "planning"))

(* It ends with a question of its own.                                       *)
Asks(k) ==
    /\ work[k].at = "planning"
    /\ pendingQuestion' = work[k].goal
    /\ UNCHANGED <<lastGoal, clarifications>>
    /\ PersistClarification
    /\ work' = [work EXCEPT ![k] = Idle]
    /\ Replied(k, TRUE)
    /\ Stopped(k)
    /\ UNCHANGED <<lifeVars, open, shown, said, ack, userVars>>

(* It is refused, fails, or ends without a question; one that throws does    *)
(* not say that it stopped.                                                  *)
Ends(k) ==
    /\ Busy(k)
    /\ attachedReady = "done"
    /\ work' = [work EXCEPT ![k] = Idle]
    /\ Replied(k, FALSE)
    /\ Stopped(k) \/ UNCHANGED running
    /\ UNCHANGED <<memoryVars, lifeVars, saved, open, shown, said, ack, userVars>>

-----------------------------------------------------------------------------
(* The panel.                                                                *)

(* The user closes it: what it holds is its own page's and is lost, the      *)
(* replies to its requests with it. The worker goes on.                      *)
PanelCloses ==
    /\ open
    /\ open' = FALSE
    /\ shown' = None
    /\ said' = <<>>
    /\ waits' = FALSE
    /\ refresh' = FALSE
    /\ running' = FALSE
    /\ ack' = NoAck
    /\ ours' = FALSE
    /\ UNCHANGED <<memoryVars, work, lifeVars, saved, kept>>

(* It is opened again and asks for settings and status, which wakes the      *)
(* worker; the question is not among what it asks for.                       *)
PanelOpens ==
    /\ ~open
    /\ open' = TRUE
    /\ Woken
    /\ UNCHANGED <<memoryVars, work, saved, userVars, shown, said, waits, refresh, running,
                   ack>>

Said(t) == \E i \in 1 .. Len(said) : said[i] = t

(* With no question shown, what is typed is a goal.                          *)
SendGoal(g) ==
    /\ open
    /\ shown = None
    /\ Len(said) < MaxSaid
    /\ said' = IF Said(g) THEN said ELSE Append(said, g)
    /\ RunTask(g)
    /\ UNCHANGED <<open, shown, running, ack>>

(* "One step" is disabled while the panel knows of a run. Bound: one single   *)
(* step at a time, which the code does not enforce.                          *)
PressStep(g) ==
    /\ open
    /\ ~running
    /\ ~Busy("step")
    /\ upsets < MaxUpsets
    /\ upsets' = upsets + 1
    /\ awake' = TRUE
    /\ UNCHANGED <<attachedReady, fetched>>
    /\ Starts("step", g)
    /\ UNCHANGED <<panelVars, ours>>

(* refreshQuestion: task/question answers from memory at once. Replies come  *)
(* in the order they were sent, so one to an earlier answer is in by then.   *)
RefreshQuestion ==
    /\ refresh
    /\ ack = NoAck
    /\ refresh' = FALSE
    /\ Woken
    /\ shown' = pendingQuestion
    /\ UNCHANGED <<memoryVars, work, saved, open, said, waits, running, ack, userVars>>

Record == clarifications' = clarifications \cup {pendingQuestion}

(* With a question shown, what is typed is an answer: task/answer.           *)
SendAnswer(a) ==
    /\ shown # None
    /\ ack = NoAck
    /\ Len(said) < MaxSaid
    /\ Woken
    /\ IF pendingQuestion = None
       THEN /\ ack' = [to |-> None, answer |-> a]
            /\ UNCHANGED <<memoryVars, saved, kept>>
       ELSE /\ ack' = [to |-> pendingQuestion, answer |-> a]
            /\ Record
            /\ pendingQuestion' = None
            /\ UNCHANGED lastGoal
            /\ PersistClarification
            /\ kept' = kept \cup {pendingQuestion}
    /\ UNCHANGED <<work, open, shown, said, waits, refresh, running, ours>>

Refused ==
    /\ ack.answer # None
    /\ ack.to = None
    /\ ack' = NoAck
    /\ UNCHANGED <<memoryVars, work, lifeVars, saved, open, shown, said, waits, refresh,
                   running, userVars>>

(* The lines of the transcript that can be the goal: the last of the user's  *)
(* that is not the answer.                                                   *)
Originals(a) ==
    {i \in 1 .. Len(said) : said[i] # a /\ \A j \in i + 1 .. Len(said) : said[j] = a}

Accepted ==
    /\ ack.to # None
    /\ ack' = NoAck
    /\ shown' = None
    /\ UNCHANGED <<open, running>>
    /\ IF Originals(ack.answer) = {}
       THEN /\ said' = Append(said, ack.answer)
            /\ UNCHANGED <<memoryVars, work, lifeVars, saved, waits, refresh, userVars>>
       ELSE \E i \in Originals(ack.answer) :
               /\ said' = Append(said, ack.answer)
               /\ RunTask(said[i])

ClarifyNext ==
    \/ Wakes \/ RestoreReads \/ RestoreLands \/ Evict
    \/ \E k \in Callers : Launch(k) \/ Asks(k) \/ Ends(k)
    \/ \E t \in Texts : SendGoal(t) \/ PressStep(t) \/ SendAnswer(t)
    \/ RefreshQuestion \/ Refused \/ Accepted
    \/ GoesOn \/ PanelCloses \/ PanelOpens

ClarifySpec == ClarifyInit /\ [][ClarifyNext]_clarifyVars

-----------------------------------------------------------------------------
Records == [question : Texts \cup {None}, goal : Texts \cup {None}, answered : SUBSET Texts]
Works   == [at : {"idle", "waiting", "planning"}, goal : Texts \cup {None},
            live : BOOLEAN, held : SUBSET Texts]

ClarifyTypeOK ==
    /\ [question |-> pendingQuestion, goal |-> lastGoal, answered |-> clarifications] \in Records
    /\ work \in [Callers -> Works]
    /\ awake \in BOOLEAN
    /\ attachedReady \in {"before", "reading", "done"}
    /\ fetched \in Records /\ saved \in Records
    /\ upsets \in 0 .. MaxUpsets
    /\ shown \in Texts \cup {None}
    /\ said \in Seq(Texts)
    /\ waits \in BOOLEAN /\ refresh \in BOOLEAN /\ running \in BOOLEAN
    /\ ack \in [to : Texts \cup {None}, answer : Texts \cup {None}]
    /\ kept \subseteq Texts
    /\ open \in BOOLEAN /\ ours \in BOOLEAN
    /\ waits => Busy("task")

(* While there is one worker and only tasks, a plan for a goal is made with  *)
(* the answers to that goal's questions only (background.ts: stale ones      *)
(* would have the model act on a question nobody asked in this task), and    *)
(* with every one the user was told is recorded, until another goal is sent. *)
OwnAnswers ==
    upsets = 0 =>
        \A k \in Callers :
            work[k].at = "planning" =>
                kept \cap {work[k].goal} \subseteq Given(k) /\ Given(k) \subseteq {work[k].goal}

(* While there is one worker and only tasks, a question outstanding with     *)
(* nothing under way is in front of the user, provided the panel that        *)
(* started the last task has not been closed since: one opened later does    *)
(* not ask for the question of a task it has not started.                    *)
QuestionShown ==
    upsets = 0 /\ ours =>
        (/\ pendingQuestion # None
         /\ ~refresh
         /\ \A k \in Callers : ~Busy(k)
         => shown = pendingQuestion)

(* However often the worker is evicted, an answer that reached storage       *)
(* leaves it only when a goal is sent.                                       *)
AnswersDurable ==
    [][\/ saved.answered \subseteq saved'.answered
       \/ \E k \in Callers : ~Busy(k) /\ Busy(k)']_clarifyVars
=============================================================================
