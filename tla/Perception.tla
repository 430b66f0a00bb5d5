----------------------------- MODULE Perception -----------------------------
(***************************************************************************)
(* The offscreen document: who starts it, the model loaded in it, the      *)
(* frames and the redacted documents it holds for steps that run side by   *)
(* side, and the queue of captures. src/src/perception (host/chrome-       *)
(* offscreen.ts, worker/runtime.ts, worker/dispatch.ts, capture.ts),       *)
(* src/src/redaction/dom-pipeline.ts, the steps of orchestrator/step.ts    *)
(* that call them and modelState of src/src/entrypoints/background.ts.     *)
(*                                                                         *)
(* A request waits for the document (ensureStarted), is received by it     *)
(* (asked), and is answered when its handler ends. A step, the frame it    *)
(* captured and the document it redacts have one name: frame.frameId is    *)
(* the handle of all three. The browser delivers replies in order, so that *)
(* an answer is taken in when it is given. Loader stands for the           *)
(* background's own init request.                                          *)
(***************************************************************************)
EXTENDS Naturals, FiniteSets, SequencesExt

CONSTANTS
    Steps,         \* agent steps, of tasks and single ones
    Loader,
    MaxRetained,   \* DEFAULT_MAX_RETAINED of runtime.ts (4)
    MaxHeld,       \* DEFAULT_MAX_HELD of dom-pipeline.ts (2)
    MaxStops,      \* bound: host/stop, or the browser closes the document
    MaxRestarts    \* bound: evictions of the background

ASSUME PerceptionAssumption ==
    /\ IsFiniteSet(Steps) /\ Loader \notin Steps
    /\ {MaxRetained, MaxHeld} \subseteq Nat \ {0}
    /\ MaxStops \in Nat /\ MaxRestarts \in Nat

VARIABLES
    \* the background
    phase,      \* modelState.phase
    loading,    \* modelLoading: the init request is out
    status,     \* hostStatusEvent is out, past isRunning
    step,       \* where each step is
    mode,       \* what each asks of its frame: "detect", "retain" or "none"
    retained,   \* the steps that take their frame for held by the worker
    releasing,  \* the releases sent and forgotten
    asked,      \* who has a request in the document
    cut,        \* whose request was cut off by the closing of the document
    \* capture
    queue,      \* the captures asked for, the first under way
    \* the document
    document,   \* "none", "creating", "up"
    loads,      \* calls of createBackend under way
    loaded,     \* #initResult is set
    frames,     \* #frames, oldest first
    held,       \* the redacted documents, oldest first
    decoding,   \* frames whose decode is awaited
    \* the panel and observations
    shown,      \* modelLoaded of the last host/status event
    untold,     \* the document was closed since
    backends,   \* backends created in this document
    cutoff,     \* steps that ended with an eviction of the background
    full,       \* MaxRetained frames were not enough, MaxHeld documents
    stops, restarts

background == <<phase, loading, status>>
actors     == <<step, mode, retained, releasing>>
requests   == <<asked, cut>>
model      == <<loads, loaded, backends>>
buffers    == <<frames, held, decoding, full>>
panel      == <<shown, untold>>
bounds     == <<stops, restarts>>
vars == <<background, actors, requests, queue, document, model, buffers, panel,
          cutoff, bounds>>

Waiting == {"accept", "redact", "bake", "sanitize"}   \* in a request of the step

(* The background with its requests, the steps, the document, the rest.      *)
BackgroundOK ==
    /\ phase \in {"idle", "loading", "loaded", "failed"}
    /\ (phase = "loading" => loading) /\ loading \in BOOLEAN /\ status \in BOOLEAN
    /\ asked \subseteq Steps \cup {Loader} /\ cut \subseteq Steps \cup {Loader}

StepsOK ==
    /\ step \in [Steps -> {"off", "capture", "done", "plan"} \cup Waiting]
    /\ mode \in [Steps -> {"detect", "retain", "none"}]
    /\ retained \subseteq Steps /\ releasing \subseteq Steps
    /\ queue \in Seq(Steps) /\ IsInjective(queue)

DocumentOK ==
    /\ document \in {"none", "creating", "up"}
    /\ loads \in Nat /\ loaded \in BOOLEAN /\ backends \in Nat
    /\ frames \in Seq(Steps) /\ IsInjective(frames) /\ Len(frames) <= MaxRetained
    /\ held \in Seq(Steps) /\ IsInjective(held) /\ Len(held) <= MaxHeld
    /\ decoding \subseteq Steps

ObservedOK ==
    /\ shown \in BOOLEAN /\ untold \in BOOLEAN /\ cutoff \subseteq Steps
    /\ full \subseteq {"frames", "docs"}
    /\ stops \in 0..MaxStops /\ restarts \in 0..MaxRestarts

TypeOK == BackgroundOK /\ StepsOK /\ DocumentOK /\ ObservedOK

Init ==
    /\ phase = "idle" /\ loading = FALSE /\ status = FALSE
    /\ step = [s \in Steps |-> "off"] /\ mode = [s \in Steps |-> "none"]
    /\ retained = {} /\ releasing = {} /\ asked = {} /\ cut = {}
    /\ queue = <<>>
    /\ document = "none" /\ loads = 0 /\ loaded = FALSE
    /\ frames = <<>> /\ held = <<>> /\ decoding = {}
    /\ shown = FALSE /\ untold = FALSE /\ backends = 0 /\ cutoff = {} /\ full = {}
    /\ stops = 0 /\ restarts = 0
-----------------------------------------------------------------------------
(* chrome-offscreen.ts.                                                      *)

Requesters ==
    {s \in Steps : step[s] \in Waiting} \cup (IF loading THEN {Loader} ELSE {})

(* ensureStarted: one creation for everyone who waits for the document.      *)
EnsureStarted ==
    /\ document = "none"
    /\ (Requesters \ (asked \cup cut)) \cup releasing # {} \/ status
    /\ document' = "creating"
    /\ UNCHANGED <<background, actors, requests, queue, model, buffers, panel, cutoff,
                   bounds>>

DocumentCreated ==
    /\ document = "creating"
    /\ document' = "up"
    /\ UNCHANGED <<background, actors, requests, queue, model, buffers, panel, cutoff,
                   bounds>>

(* Mutant: a request whose channel closed is awaited for ever.               *)
CutNobody == UNCHANGED requests

CutRequests == cut' = cut \cup asked /\ asked' = {}

(* host/stop: closeDocument, with everything in it. Nobody is told.          *)
StopHost ==
    /\ stops < MaxStops /\ document = "up"
    /\ stops' = stops + 1
    /\ document' = "none"
    /\ CutRequests
    /\ loads' = 0 /\ loaded' = FALSE /\ backends' = 0
    /\ frames' = <<>> /\ held' = <<>> /\ decoding' = {}
    /\ untold' = TRUE
    /\ UNCHANGED <<background, actors, queue, shown, cutoff, full, restarts>>
-----------------------------------------------------------------------------
(* The model.                                                                *)

(* Mutant: every call of initModel asks for a load of its own.               *)
StartLoadAgain ==
    /\ phase' = "loading" /\ loading' = TRUE
    /\ asked' = asked \ {Loader}

(* host/status, as broadcast to the panel.                                   *)
Tell(isLoaded) == shown' = isLoaded /\ untold' = FALSE

(* initModel: a load under way is shared.                                    *)
StartLoad ==
    IF loading THEN UNCHANGED <<phase, loading, asked>>
    ELSE /\ phase' = "loading" /\ loading' = TRUE
         /\ UNCHANGED asked

InitAsked ==
    /\ StartLoad
    /\ UNCHANGED <<status, actors, cut, queue, document, model, buffers, panel, cutoff,
                   bounds>>

(* runtime.init: done before, or createBackend is awaited.                   *)
InitReceived ==
    /\ loading /\ document = "up" /\ Loader \notin asked \cup cut
    /\ IF loaded
       THEN /\ phase' = "loaded" /\ loading' = FALSE
            /\ Tell(TRUE)
            /\ UNCHANGED <<asked, loads>>
       ELSE /\ asked' = asked \cup {Loader}
            /\ loads' = loads + 1
            /\ UNCHANGED <<phase, loading, panel>>
    /\ UNCHANGED <<status, actors, cut, queue, document, loaded, backends, buffers,
                   cutoff, bounds>>

(* The backend is there, or is not: the last request of the background       *)
(* learns of it, those of an evicted one are answered to nobody.             *)
BackendCreated(ok) ==
    /\ loads > 0
    /\ loads' = loads - 1
    /\ loaded' = (loaded \/ ok)
    /\ backends' = IF ok THEN backends + 1 ELSE backends
    /\ \/ /\ Loader \in asked
          /\ asked' = asked \ {Loader}
          /\ phase' = IF ok THEN "loaded" ELSE "failed"
          /\ loading' = FALSE
          /\ Tell(ok)
       \/ /\ loads > (IF Loader \in asked THEN 1 ELSE 0)
          /\ UNCHANGED <<asked, phase, loading, panel>>
    /\ UNCHANGED <<status, actors, cut, queue, document, buffers, cutoff, bounds>>

LoadCut ==
    /\ Loader \in cut
    /\ cut' = cut \ {Loader}
    /\ phase' = "failed" /\ loading' = FALSE
    /\ Tell(FALSE)
    /\ UNCHANGED <<status, actors, asked, queue, document, model, buffers, cutoff,
                   bounds>>

(* hostStatusEvent: without a document no model is loaded, else it is asked. *)
StatusAsked ==
    /\ ~status
    /\ IF document = "up"
       THEN status' = TRUE /\ UNCHANGED <<phase, panel>>
       ELSE /\ phase' = IF phase = "loaded" THEN "idle" ELSE phase
            /\ Tell(FALSE)
            /\ UNCHANGED status
    /\ UNCHANGED <<loading, actors, requests, queue, document, model, buffers, cutoff,
                   bounds>>

(* Mutant: only good news is taken from the document.                        *)
ReconcileUp == phase' = IF loaded THEN "loaded" ELSE phase

ReconcileModelState ==
    phase' = IF loaded THEN "loaded" ELSE IF phase = "loaded" THEN "idle" ELSE phase

StatusAnswered ==
    /\ status /\ document = "up"
    /\ status' = FALSE
    /\ ReconcileModelState
    /\ Tell(phase' = "loaded")
    /\ UNCHANGED <<loading, actors, requests, queue, document, model, buffers, cutoff, bounds>>

(* The question is lost with the document: what was believed is told again.  *)
StatusCut ==
    /\ status /\ document # "up"
    /\ status' = FALSE
    /\ shown' = (phase = "loaded")
    /\ UNCHANGED <<phase, loading, actors, requests, queue, document, model, buffers,
                   untold, cutoff, bounds>>
-----------------------------------------------------------------------------
(* capture.ts: one capture at a time, in the order they were asked for (the  *)
(* interval between them and the retry for the quota take time only).        *)

StepBegins(s) ==
    /\ step[s] = "off"
    /\ step' = [step EXCEPT ![s] = "capture"]
    /\ \E m \in {"detect", "retain", "none"} : mode' = [mode EXCEPT ![s] = m]
    /\ queue' = Append(queue, s)
    /\ UNCHANGED <<background, retained, releasing, requests,
                   document, model, buffers, panel, cutoff, bounds>>

CaptureAnswered(ok) ==
    /\ queue # <<>>
    /\ LET s == Head(queue) IN
       step' = [step EXCEPT ![s] = IF ~ok THEN "done"
                                   ELSE IF mode[s] = "none" THEN "redact" ELSE "accept"]
    /\ queue' = Tail(queue)
    /\ UNCHANGED <<background, mode, retained, releasing, requests,
                   document, model, buffers, panel, cutoff, bounds>>
-----------------------------------------------------------------------------
(* A step with its frame: runtime.ts and dom-pipeline.ts behind step.ts.     *)

Live == {s \in Steps : step[s] \in {"accept", "redact", "bake", "sanitize", "plan"}}

(* Map#delete of a Map in the order its entries were set.                    *)
Without(seq, s) ==
    IF Contains(seq, s) THEN RemoveAt(seq, CHOOSE i \in 1..Len(seq) : seq[i] = s) ELSE seq

(* Deleted and set again, the latest, in a Map that is cut back to n.        *)
Pushed(seq, s, n) ==
    LET added == Append(Without(seq, s), s) IN
    IF Len(added) > n THEN Tail(added) ELSE added

Received(s, at) == step[s] = at /\ document = "up" /\ s \notin asked \cup cut

(* Mutant: the step goes on while its frame is still being decoded.          *)
AcceptUnawaited(s) ==
    /\ Received(s, "accept")
    /\ step' = [step EXCEPT ![s] = "redact"]
    /\ retained' = retained \cup {s}
    /\ decoding' = decoding \cup {s}
    /\ UNCHANGED <<background, mode, releasing, requests, queue, document, model, frames,
                   held, full, panel, cutoff, bounds>>

(* detect without a model fails before its frame is looked at.               *)
AcceptReceived(s) ==
    /\ Received(s, "accept")
    /\ IF mode[s] = "detect" /\ ~loaded
       THEN /\ step' = [step EXCEPT ![s] = "redact"]
            /\ retained' = retained \cup {s}
            /\ UNCHANGED <<asked, decoding>>
       ELSE /\ asked' = asked \cup {s}
            /\ decoding' = decoding \cup {s}
            /\ UNCHANGED <<step, retained>>
    /\ UNCHANGED <<background, mode, releasing, cut, queue, document, model, frames,
                   held, full, panel, cutoff, bounds>>

(* #accept: the decoded frame is kept, the oldest one goes.                  *)
Decoded(s, ok) ==
    /\ s \in decoding
    /\ decoding' = decoding \ {s}
    /\ frames' = IF ok THEN Pushed(frames, s, MaxRetained) ELSE frames
    /\ full' = IF ok /\ Len(frames) = MaxRetained THEN full \cup {"frames"} ELSE full
    /\ asked' = asked \ {s}
    /\ IF s \in asked
       THEN /\ step' = [step EXCEPT ![s] = "redact"]
            /\ retained' = IF ok \/ mode[s] = "detect" THEN retained \cup {s} ELSE retained
       ELSE UNCHANGED <<step, retained>>
    /\ UNCHANGED <<background, mode, releasing, cut, queue, document, model, held,
                   panel, cutoff, bounds>>

(* Mutant: a step that fails keeps its frame.                                *)
EndKeepingFrame(s) ==
    /\ step' = [step EXCEPT ![s] = "done"]
    /\ releasing' = IF step[s] = "plan" THEN releasing \cup {s} ELSE releasing

(* The finally of runAgentStep.                                              *)
End(s) ==
    /\ step' = [step EXCEPT ![s] = "done"]
    /\ releasing' = releasing \cup {s}

(* The document is held for the next request. A redact that throws, before    *)
(* it sets anything, fails the step.                                         *)
RedactReceived(s) ==
    /\ Received(s, "redact")
    /\ \/ /\ held' = Pushed(held, s, MaxHeld)
          /\ full' = IF Len(held) = MaxHeld THEN full \cup {"docs"} ELSE full
          /\ \E at \in {"sanitize"} \cup (IF s \in retained THEN {"bake"} ELSE {}) :
                 step' = [step EXCEPT ![s] = at]
          /\ UNCHANGED releasing
       \/ /\ End(s)
          /\ UNCHANGED <<held, full>>
    /\ UNCHANGED <<background, mode, retained, requests, queue, document, model,
                   frames, decoding, panel, cutoff, bounds>>

(* Whatever comes of the bake, the step goes on, with the image or without.  *)
BakeReceived(s) ==
    /\ Received(s, "bake")
    /\ step' = [step EXCEPT ![s] = "sanitize"]
    /\ UNCHANGED <<background, mode, retained, releasing, requests, queue, document,
                   model, buffers, panel, cutoff, bounds>>

(* The held document is used up, whatever comes of it; there may be none.    *)
SanitizeReceived(s) ==
    /\ Received(s, "sanitize")
    /\ held' = Without(held, s)
    /\ \/ /\ Contains(held, s)
          /\ step' = [step EXCEPT ![s] = "plan"]
          /\ UNCHANGED releasing
       \/ End(s)
    /\ UNCHANGED <<background, mode, retained, requests, queue, document, model, frames,
                   decoding, full, panel, cutoff, bounds>>

(* A request whose document went: accept and bake are survived, the other    *)
(* two end the step.                                                         *)
StepCut(s) ==
    /\ s \in cut
    /\ cut' = cut \ {s}
    /\ IF step[s] = "accept"
       THEN /\ step' = [step EXCEPT ![s] = "redact"]
            /\ retained' = IF mode[s] = "detect" THEN retained \cup {s} ELSE retained
            /\ UNCHANGED releasing
       ELSE End(s) /\ UNCHANGED retained
    /\ UNCHANGED <<background, mode, asked, queue, document, model, buffers, panel,
                   cutoff, bounds>>

(* The rest of the step, or a failure between two requests.                  *)
StepEnds(s) ==
    /\ step[s] = "plan"
    /\ End(s)
    /\ UNCHANGED <<background, mode, retained, requests, queue, document, model,
                   buffers, panel, cutoff, bounds>>

(* Mutant: a release empties the document.                                   *)
ReleaseAll(s) ==
    /\ s \in releasing /\ document = "up"
    /\ releasing' = releasing \ {s}
    /\ frames' = <<>> /\ held' = <<>>
    /\ UNCHANGED <<background, step, mode, retained, requests, queue, document, model,
                   decoding, full, panel, cutoff, bounds>>

ReleaseReceived(s) ==
    /\ s \in releasing /\ document = "up"
    /\ releasing' = releasing \ {s}
    /\ frames' = Without(frames, s)
    /\ UNCHANGED <<background, step, mode, retained, requests, queue, document, model,
                   held, decoding, full, panel, cutoff, bounds>>
-----------------------------------------------------------------------------
(* The background is evicted: the document outlives it, with what it holds.  *)
Restart ==
    /\ restarts < MaxRestarts
    /\ restarts' = restarts + 1
    /\ phase' = "idle" /\ loading' = FALSE /\ status' = FALSE
    /\ cutoff' = cutoff \cup Live \cup releasing
    /\ step' = [s \in Steps |-> IF step[s] = "off" THEN "off" ELSE "done"]
    /\ retained' = {} /\ releasing' = {}
    /\ asked' = {} /\ cut' = {}
    /\ queue' = <<>>
    /\ document' = IF document = "creating" THEN "none" ELSE document
    /\ UNCHANGED <<mode, model, buffers, panel, stops>>
-----------------------------------------------------------------------------
ModelNext ==
    \/ EnsureStarted \/ DocumentCreated \/ StopHost
    \/ InitAsked \/ InitReceived \/ LoadCut
    \/ \E ok \in BOOLEAN : BackendCreated(ok)
    \/ StatusAsked \/ StatusAnswered \/ StatusCut

CaptureNext ==
    \/ \E s \in Steps : StepBegins(s)
    \/ \E ok \in BOOLEAN : CaptureAnswered(ok)

FrameNext ==
    \E s \in Steps :
        \/ AcceptReceived(s)
        \/ \E ok \in BOOLEAN : Decoded(s, ok)
        \/ RedactReceived(s) \/ BakeReceived(s) \/ SanitizeReceived(s)
        \/ StepCut(s) \/ StepEnds(s) \/ ReleaseReceived(s)

Next == ModelNext \/ CaptureNext \/ FrameNext \/ Restart

(* The document is created and answers; a channel that closed rejects.       *)
Fairness ==
    /\ WF_vars(EnsureStarted) /\ WF_vars(DocumentCreated)
    /\ WF_vars(InitReceived) /\ WF_vars(LoadCut)
    /\ WF_vars(\E ok \in BOOLEAN : BackendCreated(ok))

Spec == Init /\ [][Next]_vars /\ Fairness
-----------------------------------------------------------------------------
(* Properties.                                                               *)

(* Unredacted pixels are held for a step that is under way or is being      *)
(* cleaned up after, and for no other (runtime.ts:107-116), unless the step  *)
(* was cut off by an eviction.                                               *)
FramesOwned == ToSet(frames) \subseteq Live \cup releasing \cup cutoff

(* A step that has its frame in the worker finds it there for its bake, and  *)
(* its redacted document when it comes back for it, as long as there was     *)
(* room for all.                                                             *)
HeldStays ==
    stops = 0 =>
        /\ "frames" \notin full =>
               \A s \in retained : step[s] \in {"redact", "bake"} /\ mode[s] = "retain" =>
                   Contains(frames, s)
        /\ "docs" \notin full =>
               \A s \in Steps : step[s] \in {"bake", "sanitize"} => Contains(held, s)

(* The weights are loaded once into a document, whoever asks and however     *)
(* often, as long as one background asks (runtime.ts:183-184); and the panel *)
(* says "loaded" of a model that is, so that a step that detects is not told *)
(* to wait for init (background.ts:361-374), unless the document was closed  *)
(* since.                                                                    *)
OneModelAsShown ==
    /\ restarts = 0 => loads + backends <= 1
    /\ shown /\ ~untold => loaded /\ document = "up"

(* A load ends, with a model or a failure: it is never under way for ever.   *)
LoadSettles == loading ~> ~loading
=============================================================================
