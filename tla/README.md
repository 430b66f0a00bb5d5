# Privacy-Preserving Vision Agent: a TLA+ verification development

The program is a browser extension that carries out a goal on a web page. It
looks at the page (DOM snapshot, screen capture, a vision model run locally),
removes what is private from both, checks the result at a gate, sends it to a
planner on or off the device, validates the action the planner replies with
and performs it on the page, step after step until the task ends. Paths below
are relative to the repository.

This directory holds TLA+ modules that model the program, TLC configurations
that check them on small instances, and TLAPS proofs of what the checks agree
with.

## 1. Inventory

| Component | State it keeps | Operations | Talks to |
|---|---|---|---|
| Agent loop, `src/orchestrator/loop.ts` | step counter, history, repeat and stall counters | `runAgentLoop` | step, settle and fingerprint of the background |
| Agent step, `src/orchestrator/step.ts` | module-level `visionFailures`; otherwise locals of one call | `runAgentStep`, `resetVisionBreaker` | content script, capture, worker, DOM pipeline, planner |
| Attachment, `orchestrator/attach.ts`, `entrypoints/background.ts` | `attachedTab` and its copy in session storage | toolbar click, tab activated or updated, site access confirmed, restore | browser tabs, panel, run lock |
| Tasks and steps, `background.ts` | `loopRunning`, `stopRequested`, `history`, `step` | `agent/run`, `agent/step`, `agent/stop` | loop, step |
| Clarifications, `background.ts` | `pendingQuestion`, `lastGoal`, `clarifications`, and their copy in session storage | goal reset, `task/question`, `task/answer`, restore | panel, runs |
| Deployment, `background.ts`, `contracts/deployment.ts` | selected backend, intended backend, endpoint per backend, token per origin, health | `deployment/*`, `server/origin`, demotion, restore | planner client, panel, storage |
| Settings, `background.ts` | plan-only, vision, screenshot, prompt budget, and their copy in local storage | set, get, restore | runs, panel |
| Model loading, `background.ts`, `perception/engine.ts` | `modelState` | `initModel`, host status | inference host |
| Page requests, `background.ts` | none | `contentRequest`, `ensureContentScript`, `waitForTabReady` | content script |
| Content script, `entrypoints/content.ts`, `execution/actions.ts` | ref table of the last snapshot, the lens | snapshot, lens, execute, fingerprint | page |
| Inference hosts, `perception/host/*` | document or session, start in flight | `ensureStarted`, `request`, `stop` | worker |
| Inference worker, `perception/worker/runtime.ts` | loaded backend, decoded frames | init, retain, detect, bake, release, dispose | model, codec |
| DOM pipeline, `redaction/dom-pipeline.ts` | redacted documents | redact, sanitize | redaction |
| Capture, `perception/capture.ts` | queue, time of the last capture | capture | browser |
| Redaction and gates, `redaction/*`, `contracts/egress.ts`, `analysis/*` | none | scan, merge, redact, bake, analyse, sanitize, assert | - |
| Planner client, `agent-server/*` | none | plan, parse, validate | agent server |
| Agent server, `server/*`, `agent-server/server/*` | start-up checks, what is known of the model, in-flight count | HTTP handlers, start-up, keep-alive | model endpoint |
| Panel, `panel/*`, `entrypoints/sidepanel` | reducer state, transcript, settings shown | events and commands | background |
| Harness, sites, spikes, scripts | - | - | - |

Everything in the extension's background runs on one JavaScript thread; what
interleaves are the continuations of `await`. So the hard behaviour is what
another handler can change between two awaits of one function, what an
evicted and restarted service worker has forgotten, and what half of a step
that failed leaves behind. The other hard part is data: a value found by
several scanners in one text, boxes in three coordinate systems, a reference
that must mean the same element in the page, in what was sent and in what is
touched. `PROJECT.json` lists these under `hazards`, each at its line.

What makes each component correct, in a sentence each:

* loop: it ends; it stops for the reasons it names; Stop allows no further step;
* step: nothing unverified leaves, nothing unvalidated acts, the history says
  what happened, no frame is left behind;
* attachment: a run drives the tab it started on, the panel names it, and at
  rest it is the tab the user looks at;
* clarifications: an answer given to a question asked reaches the next plan of
  that goal and no other goal;
* deployment: a context and a token go to the host the user selected for them;
* plan-only: no step clicks while the user sees it checked;
* model loading and hosts: at most one model is loaded, and the reported state
  converges on the real one;
* page requests: an action is performed at most once; a page that comes back
  is reached again;
* worker and DOM pipeline: a frame or document is there until its step is done
  with it and gone after;
* redaction: what is said to be removed is gone from the text and the picture,
  and what is sent still leads back to the page;
* choosing: what is touched is what the plan meant, or nothing is;
* server: an ask ends, and is answered with what is true of the model;
* panel: a card is about one step, and says what that step did.

## 2. What is modelled

| Module | Models | Composed in | Status |
|---|---|---|---|
| `AgentTask` | what a run promises, abstractly | refined by `AgentLoop` | checked |
| `AgentStep`, `AgentLoop` | `runAgentStep`, and `runAgentLoop` around it, Stop | `MCAgentLoop` | checked, proved about |
| `Clarify` | questions, answers and goals between panel and background, across evictions | `MCClarify` | checked, proved about |
| `ContentRequest` | commands to the page: sending, resending, injecting, while the tab navigates | - | checked, proved about |
| `Attachment` | which tab the agent is attached to | `MCAttachment` | checked, proved about |
| `Deployment` | where planning goes: backend, endpoint, token, health, runs | - | checked, proved about |
| `Perception` | offscreen document, model, frames, held documents, capture queue | - | checked, proved about |
| `Selection` | what a filter leaves of a sequence | `PageScan`, `Ambiguity`, `ElementBudget` | checked, proved about |
| `PageScan`, `Findings`, `Redaction`, `PageAnalysis`, `SanitizedContext` | the pure stages from a page to what leaves the device | `RedactionPipeline`, `MCRedaction` | checked, proved about |
| `Ambiguity`, `Target`, `ElementBudget`, `LocalPlanner`, `Reply`, `Execution` | the pure decisions from what was sent to the element that is touched | `Choosing`, `MCChoosing` | checked, proved about |
| `PlanServer` | what the agent server concludes from its environment and its checks | `PlanExchange` | checked |
| `PlanExchange` | client, server and planner exchanging one plan | `MCPlanExchange` | checked, proved about |
| `PanelState` | the panel's reducer | `PanelReceipts` | checked |
| `PanelReceipts` | tasks, single steps and plan-only, and the panel that hears of them | - | checked, proved about |
| `AgentLoopProofs`, `BackgroundProofs` (conversation, deployment), `TabProofs` (attachment, page requests), `PerceptionProofs` (offscreen document, pipeline), `RedactionProofs` (what the pipeline leaves of texts and tables), `PlanningProofs` (choosing, exchange), `PanelProofs` | theorems | - | proved |
| `FoldFacts` | what a fold over a list comes to, for any operation | `PerceptionProofs`, `RedactionProofs`, `PlanningProofs` | proved |

The modules that share a function with another cut it where their question
does: `runTask` and `runOneStep` are in `Attachment` for the tab and the
origins, in `Deployment` for the backend and the token, in `PanelReceipts` for
the lock, the numbering and plan-only, in `AgentLoop` for what follows.

### `AgentStep` and `AgentLoop`

`runAgentStep` is one async function. The model cuts it at its awaits: the
variable `stage` says which await the function is suspended in, and one action
takes it from there to the next, one action or disjunct per way the awaited
promise can settle. `Return` is the `finally` block every exit goes through.
The loop's own awaits are the values of `at`: before a step (`top`), in a step
(`stepping`), in `settle` (`settling`) and in `pageFingerprint` (`probing`).
`PressStop` is the `agent/stop` message, which can arrive in any of them.

Data are reduced to what the control flow reads: a redaction is `uncovered`
(an applied entry that owes a pixel op has none) and the number of pixel ops;
an outbound context is whether the gate passes it and its image, for which
`ImageOf` gives the truth from what was painted and `Keeps` the code's decision
from the counters the bake returns; an action is its type, its identity (`key`,
the `JSON.stringify` the loop compares) and the verdict of `validateAction`.
Two refusal codes stand for the two classes the code has, correctable ones and
the others. What these data are in full is the subject of `RedactionPipeline`
and `Choosing`.

`wire`, `executed`, `captured`, `released`, `flagged`, `probes`, `detects` and
`asks` are observations: they record calls the code makes, and no guard of a
modelled decision reads them except `probes` and the `asks` bound proved for
them. The planner replies anything at any attempt, including nothing that
parses; the page, the worker and the DOM pipeline answer or reject.

### `Clarify`

The background's variables are those of the same names; `saved` is the copy in
`storage.session` that `persistClarification` writes. A question is represented
by the goal of the run that asked it and the clarifications by the set of
questions answered, which is what lets a property compare what is held with the
goal it is used for. The code hands a run the `clarifications` array itself, so
answers given during the run reach it until a reset replaces the array: `live`
and `held` keep that apart (`Given`).

`Evict` empties the memory at any moment and rejects the panel's open requests;
the next message wakes the worker (`Woken`) and is handled BEFORE its restore
has come anywhere (`attachedReady` is `before`, `reading` or `done`). The
handlers that await `attachedReady` are guarded by `done`; those that do not,
`task/question`, `task/answer` and the reset in `runTask` and `runOneStep`, are
not. The panel's half is the composer (a text is an answer while the panel
holds a question, else a goal), the transcript (`said`), the round trip that
fetches the question after a run (`refresh`), the reply to an answer (`ack`),
and `running`. All of it is held by the panel's page: `PanelCloses` loses it,
with the replies on their way, at any moment, `PanelOpens` loads a blank one,
which asks for settings and status (`main.tsx:838-905`) but not for the
question, and learns of a run from its next step (`GoesOn`). `ours` observes
whether the panel that is open started the last task. Evictions and single
steps are counted by `upsets`; what the code keeps only without them is stated
for `upsets = 0`.

### `ContentRequest`

`doc` numbers the documents the tab commits; `listeners` is how many content
scripts listen in the present one: zero after a navigation, one more with each
injection. A caller is suspended at one await of `contentRequest` (`sending`,
`replying`, `waiting`, then `pinging` and `injecting` in
`ensureContentScript`); callers of `ensureContentScript` alone (toolbar button,
tab following, start of a run) are the `Openers`. A command is performed by
every listener in the moment it is received. `PortCloses` is the browser's
"message port closed before a response was received", which `isNoReceiver`
takes for nobody having listened.

### `Attachment`

The browser is the environment: tabs, the active one, the origin each shows,
host permissions and the activeTab grant. `followActiveTab` is `follow`, cut at
its four awaits (read the active tab, ask for access, read it again, inject),
with follows that were asked for meanwhile counted, as the code coalesces them.
A task reads the attachment, the access and the origins at three awaits, and
the check before a picture (`CaptureAsked`, `CaptureChecked`, `CaptureTaken`)
is apart from the picture. `slips` notes the three ways in which the code
attaches to what it should not (section 5), so that the property can be
stated for everything else.

### `Deployment`

Handlers that run to their end without an await are one action; those that
await (`deployment/select`, `deployment/health`, the start of a run) are cut
there. The restore has three parts (configuration, access, tokens), and an
eviction may come between any two. A token IS the host it was set for, which
makes "a token goes to the right host" a comparison. The endpoint of a kind is
a host or none; the client of a run has its host from when it was built, and
reads the token at every plan.

### `Perception`

The offscreen document outlives the background that started it; a request
waits for it, is received by it, and ends, or throws as a decode, a redact and
a load do. Two steps and the background's own
`init` use it side by side. A frame, a redacted document and the step they are
for have one name. The number of frames and documents kept is a constant, one
here and four and two in the code, so that two steps are enough for one to
push the other out; `full` notes when that was so.

### `RedactionPipeline` and the modules below it

`PageScan` finds values by the attributes that declare them, by the types and
names of fields and by patterns in texts; `Findings` filters and suppresses
what a model saw and merges both, once by the code's indexes (`MergeIndexed`)
and once by comparing each pair (`MergePairs`), the reference definition;
`Redaction` rewrites the document, computes the rectangles to paint and the
pixels painted; `PageAnalysis` reads the largest table of the redacted
document; `SanitizedContext` says which elements, names, groups, values and
selectors leave, with the title and what earlier steps of the task left in the
context (names and notes of the history, questions asked: `earlier`, any of the
instance's), and what the two gates let pass. Whether the budget sheds the
picture is left open (`Sanitize`): its sizes are counted in `ElementBudget`. `RedactionPipeline` runs a
page through them in the order of `step.ts`.

A page is a sequence of element records and a text a sequence of tokens. A
value of interest is a run of tokens and matches a pattern only when whole,
which is how a half-rewritten value can be told from a removed one. Regular
expressions and check digits are a table, `Rules`, from value to the patterns
that match it and how surely. Selectors, canonical paths, spans, css and device
pixels are computed as the code does, on integers.

### `Choosing` and the modules below it

What the page shows is narrowed by the user's answers, cut to the budget,
numbered, and sent; the local question is asked if the goal does not tell the
candidates apart, unless the plan is made in the cloud (`backend`, with a
private one counted as cloud), whose model is left to ask for itself
(`step.ts:1019`): a local server's model is not, so it is asked about first and
then replies what it likes; a planner without a model (`LocalPlanner`) or with one
(`Reply`, any of the instance's replies) names an element; `Target` finds it
and validates the action; the content script looks the element up by its path
and compares role and name (`NamesAgree`); the page makes something of it
(`Execution`). The page may be replaced by another at any moment. A text is a
sequence of words, a size a number of words. What was sent is a set of elements,
ordered by ref: the first of several is the one with the least.

### `PlanServer` and `PlanExchange`

An ask is in flight, timed out, aborted or answered; the server goes on with a
plan whose client has left, which is how two plans meet although the client
asks one at a time. The start-up checks (model, list of models, context window,
loading) are requests that end separately and in any order, beside plans, and
are forgotten by a restart. What the planner learns about the `reasoning` field
is `thinkingRefused`, shared by its plans as in the code.

### `PanelState` and `PanelReceipts`

`PanelState` is the reducer, one operator per event. `PanelReceipts` runs steps
of tasks and single steps, which nothing but the panel's button keeps apart,
records in `steps` what each really did, and sends the panel the events while
it is open. What a step did is recorded where it does it, before any event and
apart from it: `left` when the request goes out (`Requests`), `answered` when a
plan comes back, `built` by the gate, `verdict` by the validation, `act` when
the page is asked (`CallsExecute`) and again when it replies. A step may throw
at any of these places. A receipt carries `by`, the steps whose events it holds, and `of`,
the one it was sealed for; nothing the reducer decides reads them. Plan-only is
in the worker's memory, in storage and in the panel's box, and is set, asked
for and restored as the code does: setting and asking do not wait for the
restore. Left out of the panel: banners, timeline, metrics, and the warning
shade of the redact stage.

## 3. What is checked

| Run | Question | Properties |
|---|---|---|
| `loop_deciding` | whatever the planner replies: what reaches the page, what the history says, when the run ends | `ActsValidated`, `HistoryTruthful`, `CirclesEndRun`, `DoneNotAtOnce` |
| `loop_perceiving` | whatever perception does: what leaves, when vision is given up, whether frames are dropped, whether the run is an `AgentTask` and ends | `EgressSafe`, `VisionBreaker`, `FramesDropped`, `TaskRefined`, `RunEnds` |
| `clarify` | until the first eviction or single step: own answers, and, as long as the panel that started the last task is open, the outstanding question in front of the user; always: answers are durable | `OwnAnswers`, `QuestionShown`, `AnswersDurable` |
| `content_request` | is a command performed twice or given up too early, does a request end | `PerformedOnce`, `LostToNavigation`, `RequestEnds` |
| `attachment` | is the attachment the active tab at rest, named by the panel, and the run's own while it runs | `FollowsTheUser`, `RunKeepsItsBounds` |
| `deployment` | whose token goes where, on how many hosts a run plans, what is remembered | `TokenToItsHost`, `RunOnOneHost`, `ServersRemembered` |
| `perception` | whose pixels are held, who finds what it left, what is loaded and shown | `FramesOwned`, `HeldStays`, `OneModelAsShown`, `LoadSettles` |
| `redaction` | is the merge right, is what is removed gone, is what is sent clean and still good for finding the page | `IndexedMerge`, `AppliedIsGone`, `PictureCovered`, `SentClean`, `RefsLeadHome`, `TableTold` |
| `choosing` | is what is touched what was meant | `ActsOnTheOneMeant`, `AnswerSettles`, `NeverTwice` |
| `planning` | what the server says of its model, which plans are lost, does an ask end | `MissingIsMissing`, `NoPlanLostToReasoning`, `AsksSettle` |
| `panel` | is a card of one step, and true; does plan-only hold | `ReceiptOfOneStep`, `SaysWhatHappened`, `ShieldAgreesWithReceipt`, `PlanOnlyHolds` |
| `panel_stuck` | expected to fail: is a task shown only while one runs | `ShownWhileRunning` |

Every property of a passing run has at least one mutant in `PROJECT.json`: a
definition of the model changed the way a plausible bug would change the code,
under which TLC finds that property violated.

Many properties carry an excuse ("unless ..."), kept as an observation in the
model: `slips`, `switched`, `crossed`, `early`, `clicked`, `swapped`, `untold`,
`cutoff`, `moved`, `toggled`. An excuse is a behaviour TLC shows the code to have; each is
listed in section 5, so that the property says exactly what the code does keep.

### Bounds

* Loop: three steps, the least in which an action is planned three times in a
  row (which trips a repeat limit of two), in which a stall of two follows a
  baseline, and in which a breaker of two failures is tempted a third time.
  `loop_deciding` fixes perception and `loop_perceiving` leaves deciding free
  but with a single page action: the halves of a step meet only in the context,
  whose every value each run produces. The limits are as large as the steps in
  `loop_perceiving`, where circles are not the question.
* Conversation: three texts, of which any can be a goal or an answer, three
  lines of the user (a goal, its answer, a second goal), two upsets, so that a
  restore can be interrupted by another.
* Page requests: one caller beside two openers; four documents, one more than
  it takes to lose a request; three requests, so that a document with a script
  in it, or with two, is met by the next one. The proofs have any number.
* Attachment: two tabs and two origins, which are interchangeable; three events
  of the browser, enough to switch, navigate and switch back or revoke during
  one follow; one eviction; one task.
* Deployment: two off-device kinds, two hosts of which one is loopback, four
  commands, one eviction, one plan, each of which may fall between any two
  awaits: switching a host needs configure, token, select and run.
* Perception: two steps, one frame and one document kept, one closed document,
  one eviction.
* Redaction: every page of one or two elements from a catalogue of fields,
  texts, containers, forgeries and images; sections and headings with elements
  in and after them, three in all; tables of one and two columns, cells with a field
  that is replaced or cleared, cells with the pieces of a placeholder; three values
  (sure, failing its check digit, weak), a title with the latter two and the pieces
  of a placeholder, an earlier step that named a sure one, up to three boxes of
  the model, labelled face, person, card or something of no interest, a frame of
  8 by 8 device pixels at two per css pixel, so that boxes reach outside it.
  Three elements are what nested rewriting, a shared name and a sibling with the
  same selector need; larger pages repeat these relations.
* Choosing: seven pages (repeated names, two, three and four candidates, some
  sharing a word that others have not, regions, links, redacted and cut names, a
  page over budget), questions of up to three candidates, some thirty replies, the
  planner on the device, and the baseline and a model on a local server and in
  the cloud, one move of the page, one answer, three steps.
* Planning: two asks, five environments, three endpoints, one restart.
* Panel: four steps, three receipts kept, so that one is pushed out; tasks of
  two steps; the on-device planner and one on a local server, of which one in the
  cloud differs only in that its steps do not end with a question; one upset, at
  any moment of any of them. What takes more upsets than one, and all three
  backends together, is left to the theorems, which have no bound.

State counts reach four million (`attachment`); `redaction` has sixty thousand,
where the work is in evaluating a page. Deadlock is not checked: in
every model something legitimately comes to rest (a run that stopped, a
transcript that is full, a browser out of events).

### Fairness

* `AgentLoop`: `WF_vars(Progress)`. Every promise the loop awaits settles:
  planner requests are aborted by their time-out (`agent-server/client.ts:146`),
  `settle` by its own timer; calls into the page, the worker and the browser
  settle with an answer or the loss of their receiver, an assumption, as no
  timer bounds them. Stop is not assumed ever to be pressed.
* `ContentRequest`: every caller's next step; nothing of navigations.
* `Perception`: the document is created, an init is received and its backend
  created or refused, and the loss of the document is noticed. Nothing of
  steps, captures or evictions.
* `PlanExchange`: the client's timer, the planner's timer and the start of a
  stopped server. Nothing is asked of the network or the endpoint, so
  `AsksSettle` rests on the timers alone.

## 4. What is proved

Proved with TLAPS, for every value of the constants that satisfies the named
assumptions: `LoopAssumption`, `NoKeyAssumption`, `RefusalAssumption`,
`LimitAssumption` and `InputAssumption` of the loop and the step,
`ClarifyAssumption`, `RequestAssumption`, `AttachmentAssumption`,
`DeploymentAssumption`, `PerceptionAssumption`, `ExchangeAssumption`,
`ChoosingAssumption`, `PanelAssumption` and `SessionAssumption`, and, of the
pipeline, `RulesAssumption`, `MergeAssumption`, `RedactionAssumption`,
`AnalysisAssumption`, `OffscreenAssumption`, `PipelineAssumption`,
`EarlierAssumption` and `NonceAssumption`. They say of which type a constant is, that the values that
stand for "none" are not among the others, and that a page is a sequence of
elements. Those of the pipeline say besides that an element comes after
the one it is in (document order), that a value is longer than one token, that
no value on a page is one of the two nonces that mark placeholders and no
pattern's kind is named like one (`RulesAssumption`), and that a page from which
forged placeholders were stripped holds no part of one with the nonce of this
session (`NonceAssumption`: the nonce is drawn at random for a session and kept
in the worker, `background.ts:2028-2038`, so a page can have it at most in
placeholders it was shown, which `stripForgedPlaceholders` takes out whole).

| Theorem | Module | Establishes |
|---|---|---|
| `TypeCorrect` | `AgentLoopProofs` | `TypeOK`: types, and at most three plan calls a step |
| `EgressIsSafe` | `AgentLoopProofs` | `EgressSafe`: what is on the wire passed the gate and exposes nothing the text redaction removed |
| `ActsAreValidated` | `AgentLoopProofs` | `ActsValidated`: only accepted actions reach the page, none under planOnly |
| `FramesAreDropped` | `AgentLoopProofs` | `FramesDropped`: no raw frame outlives its step |
| `StopIsFinal` | `AgentLoopProofs` | `NoStepAfterStop` |
| `DoneIsNotAtOnce` | `AgentLoopProofs` | `DoneNotAtOnce` |
| `RunIsATask` | `AgentLoopProofs` | `TaskRefined`: the detailed run implements `AgentTask` |
| `HistoryIsTruthful` | `AgentLoopProofs` | `HistoryTruthful`: a page action the history calls ok was validated and performed |
| `CirclesAreEnded` | `AgentLoopProofs` | `CirclesEndRun`, for every value of the two limits |
| `VisionBreaks` | `AgentLoopProofs` | `VisionBreaker`, for every value of the limit |
| `ConversationTyped` | `BackgroundProofs` | `ClarifyTypeOK` of the conversation |
| `AnswersAreDurable` | `BackgroundProofs` | `AnswersDurable`, whatever the evictions |
| `PlansGetTheirAnswers` | `BackgroundProofs` | `OwnAnswers` |
| `QuestionIsShown` | `BackgroundProofs` | `QuestionShown` |
| `TypeCorrect` | `TabProofs` | `TypeOK` of page requests |
| `LostOnlyToNavigation` | `TabProofs` | `LostToNavigation`, for any number of callers, documents and requests |
| `PerformedAtMostOnce` | `TabProofs` | `PerformedOnce`, likewise |
| `AttachmentTyped` | `TabProofs` | `TypeOK`; a follower past its query means a page in a tab |
| `RunIsBounded` | `TabProofs` | `RunKeepsItsBounds`, for any number of tabs, origins, events and evictions |
| `UserIsFollowed` | `TabProofs` | `FollowsTheUser`, likewise |
| `DeploymentTyped` | `BackgroundProofs` | `TypeOK`; a client that plans off the device has a server |
| `TokenGoesToItsHost` | `BackgroundProofs` | `TokenToItsHost`, for any number of servers and changes |
| `RunStaysOnOneHost` | `BackgroundProofs` | `RunOnOneHost`, likewise |
| `ServersAreRemembered` | `BackgroundProofs` | `ServersRemembered`, across any number of evictions |
| `PerceptionTyped` | `PerceptionProofs` | `TypeOK`: never more frames and documents than there is room for |
| `FramesAreOwned` | `PerceptionProofs` | `FramesOwned`, for any number of steps side by side |
| `WhatIsHeldStays` | `PerceptionProofs` | `HeldStays`, for any capacities |
| `OneModelIsLoaded` | `PerceptionProofs` | `OneModelAsShown` |
| `IndexesAgree` | `PerceptionProofs` | a merge by indexes and one by comparing each pair give one list, for any findings in any order |
| `IndexesLeadToTheSame` | `PerceptionProofs` | `IndexedMerge`, for all pages, visions and rules |
| `PictureIsCovered` | `PerceptionProofs` | `PictureCovered`, for any frame, ratio and margin |
| `SelectorsLeadHome` | `PerceptionProofs` | `RefsLeadHome`, for pages of any size and depth |
| `RemovedIsGone` | `RedactionProofs` | `AppliedIsGone`, for all pages, texts, matches and overlaps |
| `TableIsTold` | `RedactionProofs` | `TableTold`, for tables of any size and nesting, and readings that stop anywhere |
| `SentIsClean` | `PerceptionProofs` | `SentClean`, for all texts, patterns and ways of putting a text together |
| `ExchangeTyped` | `PlanningProofs` | `TypeOK` of the exchange |
| `OnlyTheMissingAreMissing` | `PlanningProofs` | `MissingIsMissing`, for any number of restarts |
| `ReasoningCostsNoPlan` | `PlanningProofs` | `NoPlanLostToReasoning`, for any number of asks |
| `ChosenInvariant` | `PlanningProofs` | the inductive invariant of a run's choices |
| `TouchesTheOneMeant` | `PlanningProofs` | `ActsOnTheOneMeant`, for all pages, goals, replies and answers, however often the page moves |
| `NothingTwice` | `PlanningProofs` | `NeverTwice`, for runs of any length |
| `AnswerIsFollowed` | `PlanningProofs` | `AnswerSettles`, for all pages, questions of any size and any answers after the first |
| `PanelTyped` | `PanelProofs` | `TypeOK`, and the order of the steps of a session |
| `PlanOnlyIsKept` | `PanelProofs` | `PlanOnlyHolds`, for any number of tasks, evictions and panels |
| `ReceiptsAreOfOneStep` | `PanelProofs` | `ReceiptOfOneStep`, for any number of steps and receipts kept |
| `ReceiptsAreTrue` | `PanelProofs` | `SaysWhatHappened`, also where steps run beside one another and fail at any stage |
| `ShieldIsTheReceipt` | `PanelProofs` | `ShieldAgreesWithReceipt` |

Each proof has the same three parts: the initial states satisfy an inductive
invariant, every action keeps it (one lemma or step per action), and it implies
the property. TLC checked each invariant below on the instance of the
component's run before it was proved. What the invariants add to the
properties, and why none is inductive without it:

The loop. `TypeOK` is not inductive by itself: the counters keep their types
only because of where the loop and the step are (`repeats < MaxRepeats` outside
`stopped`, `asks` by stage, `actionsTaken < step` while stepping). `Control`
says so and is proved with it; `TypeInv == TypeOK /\ Control`. The other
theorems use it. `EgressInv` adds to `EgressSafe` that the context of a step
past the gate is itself safe, so the re-plan and the correction, which send it
again, are too; `ActInv` that an action on its way to `execute` was accepted
and that a plan is judged before it gets there; `FrameInv` that a step owes
the worker at most the release of its own frame. `TruthInv` adds to
`HistoryTruthful` that a step which returns without a miss holds an action
that `Landed`, before the loop writes it down. `Counted` compares every run of
equal plans, and of equal fingerprints, with the counter that is reset and
incremented two awaits away from it: no run is longer than `repeats`, or
`stalls`, plus one. `BreakerInv` does so for failed detections and
`visionFailures`, which is kept across runs and put back at the start of one.
Each is proved for the steps of `AgentStep` once, and lifted to the loop. The
refinement maps the program counters of loop and step to the phase of the
abstract task (`TaskPhase`) and needs `ActInv` and `EgressSafe`: a step of the
loop that sends or acts without them would be no step of the task.

The conversation. `Restored` relates storage and memory by how far the restore
has come: over, memory has every answer storage has; reading, what was read
has; and there is no question in memory and no plan before it is over. It is
what makes every write of storage but the reset keep the answers.
`PlansGetTheirAnswers` and `QuestionIsShown` are about behaviours up to the
first eviction or single step: the invariant `IInv` is stated under
`upsets = 0`, and is the conjunction of `Alone` (one task, for the goal of the
conversation), `Conversation` (answers and question belong to that goal,
storage equals memory) and `Visible` (if the panel that started the last task is open, a
question is asked by a task it still waits for, is about to be fetched, or is
shown and not being answered),
which are inductive together and none of them alone. After the first upset TLC
refutes both properties (section 5).

Page requests. `Passed` counts documents against resends: a request on its
n-th resend has come past n - 1 documents, and past n once it finds nobody
listening or its receiver gone. `Counted` says that a request that is going to
be sent has not been performed, unless excused.

Attachment. `Bounds` ties a task to its tab from the end of the restore on,
and the origin the panel may be about to confirm to origins that were once
granted. For `FollowsTheUser` the state at rest is not enough: `Followed` says
that outside a task either a follow is still owed, or one is under way that
means the active tab as it is now (`UpToDate`), or the attachment is already
right (`Settled`). `Restorable` says that while a restore is under way
whatever is attached has been stored and announced, so that the restore cannot
undo it silently; it is where the slip `restore` is needed.

Deployment. `Awake` says that nothing passes the await of `attachedReady`
before it is over; `Remembered` that what would be restored is what the user
entered; `HealthKept` that a probe under way asks the server now configured,
unless the kind was re-pointed (`crossed`); `Bound` that a run's client, built
when it started, has the host that was announced and is still the endpoint of
its kind unless the deployment was `switched`. Each command is shown either to
rewrite the endpoint of one kind (`Rewrites`) or to be `Quiet`.

Perception. `StepsPlaced` says where a step is while it is queued, asks, has a
frame or a document, or is being released; `Owned` that frames are decoded
only for a step that waits for one; `Loaded` counts the loads under way and
the backends created against what the background believes. Both caches are
insertion-ordered maps that drop their oldest entry when full; lemmas about
them say what an insertion keeps, and that it drops nothing but what `full`
notes.

The pipeline. Its stages are folds over lists of any length and functions
computed by recursion on a page, so most of the work is induction. The
library's induction principles take an operator, which the provers cannot
instantiate; `FoldFacts` therefore proves once, with the operation as a CONSTANT,
that a fold ends in the last of the states it passes through (`Folded`,
`Passes`), and induction over numbers for a SET (`Induction`). Each fold of the
model is an instance of it. What is then shown of them, each a lemma per
function:

* `IndexesAgree`: `Indexed` relates list and indexes after every finding. Each
  kept finding is registered under its target, with the lowest place, and in
  every cell it lies over or among the oversized. Two rectangles that share
  area share a cell (`SharedCell`, by monotonicity of the integer division),
  so the indexes lead to every duplicate, and the first of them is taken.
* `SelectorsLeadHome`: rewriting keeps of each element its tag, id, name and
  place (`Documents`), whatever it does to texts. So a selector that is unique
  in the redacted document can be ambiguous in the live one only through
  elements the redaction took out.
* `PictureIsCovered`: ids are given once, and sorting, keeping, suppressing and
  merging repeat none (`Own`), so an op with a finding's id is for that finding;
  every op is the padded rectangle of one (`Ops`), padding and scaling lose no
  pixel of it inside the frame (`MarginHolds`), and a picture is made only when no
  id is left without op.
* `RemovedIsGone`: the matches of one scan are apart (`ScanApart`), and merging
  keeps of two findings that name the same span one, so spans that are edited
  in one text are apart (`SpansApart`) and edited from the end of the text
  backwards (`Backwards`). Between two edits a text is therefore its untouched
  start, followed by placeholders and what was left between them (`Split`): an
  edit finds its span where the scan saw it, and disturbs no edit before it
  (`SplitStep`). An edit without a span fills the whole text with a placeholder,
  and a text with one is `Filled` whatever follows. So every token of a span
  that the log calls applied is gone, the others are there in their order, and
  no token of the nonce is one of them.
* `TableIsTold`: a text that the redaction wrote holds a placeholder, and goes on
  holding one whatever is written there later, until its field is cleared; a text
  that holds one and was not written holds a piece that the page put there
  (`Marked`, from edit to edit: `RewriteMarks`, `ApplyMarks`, `RedactMarks`). The text of
  a cell is the texts of the elements in it, in the order of the walk (`Climb`,
  `LineOf`, `CellParts`: places below a cell are found by climbing from a leaf, which
  ends because a parent comes before its children), so a cell counts as redacted
  where something in it was written, and else only where the page put pieces
  (`CellMarked`, `KindMarked`). The rows of a reading are in ascending order and each
  is counted under one kind (`KeptAscending`, `SummedCounts`), and the header row is
  the first that is one (`HeaderIsFirst`). `Counting` is the invariant: what is
  `Marked` stays so, and the analysis in the context is of that document.
* `SentIsClean`: every text of a context is a sequence of tokens (`Worded`, from
  document to names, groups, attributes and headings), each of its texts is
  among the fields the gate looks at (`FieldsLookedAt`), a text with a whole
  value keeps it when placeholders are blanked (`BlankedKeeps`: two that overlap
  would need a token that is of both), and the scan keeps at least one of the
  matches of a text (`ScanFinds`: which matches give way is a recursion that is
  well founded by `Rank`, and the strongest gives way to none).

`Leading`, `Covering`, `Leaving` and `Telling` are the inductive invariants: what
the redaction stage leaves behind, from when on, beside the property.

Planner and server. `ListAfterMiss` orders the start-up checks: the catalogue
is asked for only after the model was not found. `Crossing` says that two plans
under way with the reasoning field know of each other, and that one which still
carries it after it was refused was under way beside another.

Choosing. A step that plans ends in one of two ways, whatever the planner says
(`Planning`): nothing is accepted, or an action that was `Checked` is. From the
verdict it follows that the ref is one of those sent and that nothing was
guessed (`Validated`: a target that two sent elements fit is accepted only
where they are one link). `ChoosingInv` keeps this from the verdict to the
execution (`OnItsWay`), which later reads the page anew. `NeverTwice` needs
`Still`: what was touched is in the history, which an answer empties, so it
must be shown that the user is asked before anything is touched, or never; and
the two planners name only what the history does not (`Plain`). Least elements
exist by the library's minimum theorem for well-founded relations, which takes
a set and not an operator. `AnswerSettles` rests on what a page of which all was
sent says: the question was asked of the very elements (`AskedOfAll`: as many
refs as elements are all of them), so it is found again when the step reads with
the answer; what the answer tells apart from the one picked is taken away
(`AnswerNarrows`), and the budget sends of what is left and nothing else
(`SentOfLeft`). `Answering` keeps this over the run: the page's own question is
the first, so its answer is the only one until the planner asks, which forgets
the candidates; the page is the one asked about while none has moved since; and
what was sent was narrowed by the answers there are.

Panel. `Order` has the steps of a task follow one another, the last being the
one the task waits for or compares. `Setting` is the invariant of plan-only: what
runs goes by memory, and once a panel has set or asked for it after the restore,
box, memory and storage agree. The receipts need what a step has done so far,
by where it is (`Course`: nothing leaves before the gate, the page is not asked
before the verdict), the words there are for what it did (`ContextOf`,
`PictureOf`, `ValidationOf`, `ExecutionOf`), and that a receipt of it alone
`KeepsUp` with it (`Written`), for any interleaving; a sealed receipt is of a step that is done and does not
change any more (`Sealed`). The rest holds as long as no two steps met
(`Met`): the open receipt is of the one step past its capture (`Owned`), those
sealed are of one step each (`OfOne`), and the proof above them agrees
(`Proof`). The moves of steps and tasks are first shown to be of a few forms
(`BeginsAs`, `GoesOn`, `EndsFor`), and the invariants are proved for the forms.

The proofs changed the model. In the pure stages, the stable selection
from a list is now an operator of its own (`Those`), and assumptions that the
instance satisfied without saying so are named (`RulesAssumption`,
`PipelineAssumption`, `NonceAssumption`). Where the code tests conditions in order,
some definitions had used CASE with arms that overlap, which TLA+ leaves
undetermined though TLC takes the first: `ShieldStages`, `VerdictOn`,
`SelectPlanner`, `ExtractJson` and `NamesAgree` now state the order. The proof of
`TouchesTheOneMeant` found a case the first instance did not have, an element
sent without a name (section 5), and that of `NothingTwice` pages on which one
path leads to two elements; both properties and the instance now have them.
That of `TableIsTold` found three things the property had left out. The text of a
textarea is its value, so that a finding in the value writes what the table
reads. A field that is cleared leaves no placeholder, so its cell is counted by
what else is in it. And a page can write a placeholder in pieces over several
texts of one cell, each harmless to `stripForgedPlaceholders`, which looks at one
text at a time: the table joins them and counts a cell as redacted in which
nothing was. `TableTold` says so, and the instance has such fields and pieces.
That of `AnswerIsFollowed` found that the property was false beyond two
candidates: of "add pro laptop", "add pro gaming laptop" and "add used laptop"
the answer "add pro laptop" takes away the last one only, and one that adds no
word of its own takes away none (section 5). `AnswerSettles` now says which
candidates are out (`ToldApart`), and the instance has such a page.

Model-checked only:

* liveness (`RunEnds`, `RequestEnds`, `LoadSettles`, `AsksSettle`), which is
  out of the prover's reach;
* `ShownWhileRunning`, which does not hold.

## 5. Where code and comments disagree

One disagreement has a run of its own, `panel_stuck`: what the loop awaits
between two steps may throw, and the worker may be evicted; `loop/stopped` is
sent from `loop.ts:199` only, so the panel goes on showing a task, and locks
the backend and the single step, after the task has ended.

The others were seen on the way. They are excuses in properties, or conditions
on them, or were shown by TLC on a property that is not among the runs.

Steps and loop

* `step.ts:333-336` says a refusal outside `CORRECTABLE_REFUSALS` ends the task.
  On the reply to a correction only `second.ok` is read (1235): the step returns
  with the first refusal and the run asks the same planner again.
* `loop.ts:59` says `actionsTaken` counts actions that touched the page; it is
  incremented for refused ones too (251).
* `step.ts:421` says `done` cannot be reported before an action was performed;
  a refused first step is enough (414).
* A step with vision, begun while the model is loading, counts a vision failure
  (`background.ts:2433-2443`, `step.ts:616-623`).

Conversation

* `background.ts:1262-1264` says the restore lets an answer land instead of
  being refused. `task/answer` does not wait for the restore: the answer that
  wakes the worker is refused (2872).
* `background.ts:756-758` says `lastGoal` is stored so that a restored answer
  is not discarded by the reset of the next run. The reset (2345) runs before
  the restore: when the run itself wakes the worker, it is.
* `sidepanel/main.tsx:804` says an answer resumes the original goal. It resumes
  the last line of the user that differs from the answer: after a second
  question, the first answer.
* `sidepanel/main.tsx:796` tells the user to send the goal again. The panel
  still holds the question, and sends the goal as an answer.
* `background.ts:2340-2341` says answers of one task are not fed to another. A
  single step may be started while a run is starting, each for its own goal,
  and gets the answer to the run's question.
* `background.ts:2715-2724` says a single step's question can now be answered;
  `runStep` in the panel does not fetch it.
* `background.ts:745-764` keeps a question across evictions so that it can be
  answered. A panel closed and opened again does not ask for it
  (`main.tsx:838-905`; only the reply to a task the same page started does,
  478): the question stays outstanding out of the user's sight, and what is
  typed next is sent as a goal. `QuestionShown` says `ours` for that reason.

Page requests

* `background.ts:2135-2137` says a command is sent again only when nobody
  received it. A closed port counts as nobody (2090), and closes after the
  command was performed; `PerformedOnce` excuses it.
* `background.ts:1556-1560` calls `ensureContentScript` idempotent by ping. Two
  at once both find nobody and both inject (`crowded`).

Attachment

* `background.ts:1795-1804` says the follower derives the answer from the tab's
  current url. `onUpdated` ignores a navigation of any tab but the attached one
  (1805), and the active tab is not that while a follow is on its way to it:
  the agent attaches under the origin the tab no longer shows (`slips`).
* The restore assigns the saved tab after an await (1282): what the user
  attached to meanwhile is overwritten, and the panel not told.
* `site/access-confirmed` writes the origin it was asked about into whatever is
  attached when it arrives (3398).

Deployment

* `deployment/configure` does not wait for the restore: the first one after the
  worker wakes stores the seeded default over the rest (3189), against
  894-897 (`early`).
* `background.ts:1041-1043` and 1893-1895 say a token stays with its origin.
  `tokenFor` reads the endpoint of the moment, the client was built before
  (`switched`).
* A health answer is stored by kind though the kind was re-pointed while the
  probe was out (3192-3203; `crossed`).
* `background.ts:3066-3075` calls `deployment/select` the only way the selection
  changes; `server/origin` is another, and takes no lock.

Perception

* The worker checks for a result, awaits the backend and assigns
  (`runtime.ts:183-184`): after an eviction in the middle of a load, a second
  load runs beside the first.
* After an eviction the frames of the step that was cut off stay until others
  push them out (`cutoff`), and the worker keeps the salt of the earlier session
  (`background.ts:411-418`).
* `host/firefox-bgpage.ts:93` sets its session also when `stop` came while the
  start was outstanding. The Firefox host is not modelled.

Redaction and analysis

* `merge.ts:254-256` says a merge must never discard a real detection.
  `sameTarget` (83) leaves the span out: of two values of one kind in one text
  the second is merged into the first and not rewritten. The outbound gate then
  refuses the step, which is what `SentClean` shows.
* The boxes of two inputs that overlap and are of one kind merge as well. An
  input declared sensitive keeps its value attribute. A value that is put
  together from several texts is caught by the gate only.
* A selector is made unique on the redacted document (`sanitize.ts:488-494`);
  `RefsLeadHome` says how far it leads in the live one.
* Correlations pair values by their place in each column after missing cells
  were left out, though `analyze.ts:205-209` speaks of rows both have.
* The refusal `timed-out` is never set (`analyze.ts:180`, 200, 257), though
  `prompt.ts:418-429` has a text for it.
* `timeSeriesFeatures` publishes a mean from two values and a trend from three;
  `stats.ts:84-98` says that below five a summary is republication.
* Cells beyond the width of the header are not read and `truncated` is not set
  (`table.ts:266-271`, against 226); the comment at 236 ("or failing that the
  first row") is not what the code below it does.

Choosing

* `content.ts:242` has the check of the live element catch a path that now leads
  to another one. An element sent without a name is compared by its role alone
  (line 252), as is one whose name is nothing but a placeholder; the comment
  names only the latter. `ActsOnTheOneMeant` claims the name of named ones.
* `local-planner.ts:128` says the set of what was tried keeps the baseline from
  clicking for ever. It compares refs, and a ref is a place in one walk of the
  page: when the page changes, the same element is clicked again. `NeverTwice`
  is about a page that stands still.
* The answer removes candidates before the budget is applied, the question was
  asked after it (`sanitize.ts:728`): `AnswerSettles` is about pages that fit.
* `ambiguity.ts:326-330` says of the answer that it narrows "only when the answer
  names exactly one of them. An answer that matches none, or several, leaves the
  page untouched". The code at 379-390 also narrows when several candidates are
  matched, but not all, and the name of a candidate matches every other that
  shares with it a word which some third one has not; the name of one whose words
  all the others have matches none. So the name the user picks may leave other
  candidates in: `AnswerSettles` claims that those go which share none of the
  words that set the picked one apart.
* Questions asked through the background carry no candidates at all.
* A date or number field that the browser empties on a bad text is reported as
  done (`actions.ts:133-137`), against the comment at 66-76.

Planner and server

* When the endpoint refuses the `reasoning` field while two plans are under way,
  the second fails (`vlm-planner.ts:466-473`; `crossed` in `PlanExchange`).

Panel and settings

* Plan-only is read when a task or step starts (`background.ts:2498`, 2678).
  Ticking "Plan only - decide, but never click" (`App.tsx:1627`) during a task
  is confirmed by a notice (2892) and lets the task go on clicking (`toggled`).
* `plan-only/get` answers before the restore (2903): a panel whose opening wakes
  the worker shows the default while the stored setting comes into force; a
  setting made during the restore can be overwritten by the older one (1150)
  (`early`). When the restore has read the old value before a setting is made,
  memory ends with the old value and storage with the new one: a panel opened
  then shows what is in memory, and the next eviction brings the other back.
  `vision/get` and `budget/get` are alike.
* A snapshot that fails replaces the receipt by an empty one, and leaves the
  proof above it at the previous step's (`state.ts:335-346`).
* `backend/selected` rewrites the backend of a card already sealed
  (`state.ts:846`).
* After a request that timed out or was refused, the card says of the context
  "not checked" and the panel that nothing was sent anywhere (`App.tsx:384`,
  `selectors.ts:113`), though it was: `context/transmitted` is sent only when a
  plan came back (`step.ts:1066-1096`). `SaysWhatHappened` says `answered`.
* A step evicted midway lends its receipt to the next one that fails before its
  capture, under that one's number (`crossed`).
* When the reply to `execute` is lost, or the request throws, the card says not
  reached of the validation, which had passed, and of the execution, though the
  page may have been touched (`step.ts:1323-1368`). `SaysWhatHappened` says
  `act = "asked"`.
* `session/start` is never sent, so a page check finds its receipt by step
  number alone.

## 6. Plan

Done: the inventory's components but those in section 7, and the safety
properties of every component with state of its own and of the pipeline: all
that hold are proved.

Next: the Firefox host beside Chrome's, both against one abstract host;
the settings other than plan-only.

## 7. Not modelled, and why

* Model backends, letterboxing, decoding of tensors, the detection of charts and
  the arithmetic of `stats.ts`: numeric code without control state. What their
  results are used for is modelled (`Findings`, `PageAnalysis`).
* Regular expressions and check digits: a table of what they match.
* The wording of prompts, questions, notices and errors; how numbers are
  written.
* The Firefox host; `vision`, `screenshot` and `budget` settings, which are set
  and restored as plan-only is.
* What scrolling and keys do to a page, and where a link that was clicked opens.
* The DOM snapshot and the screen capture as two looks at a page that may move
  between them.
* Time: intervals, the eight seconds of `waitForTabReady`, the time budget of an
  analysis. Each is "at some point", or "any prefix".
* A session store that fails or is absent; writes take effect when they are
  made. Replies to one sender come in the order they were sent. One window.
* Redaction strategies other than the defaults, which no caller selects.
* Server metrics, tracing, the summary of a plan and the demo pages it serves.
* The bench harness, demo sites, spikes and scripts: not part of the running
  agent. Rendering of the panel.
