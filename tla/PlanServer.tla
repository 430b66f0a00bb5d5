------------------------------- MODULE PlanServer -------------------------------
(***************************************************************************)
(* What the agent server computes: the planner its environment asks for,   *)
(* what its startup checks conclude, and how a failure is reported.        *)
(* server/main.ts, server/agent-http.ts, agent-server/server/app.ts and    *)
(* vlm-planner.ts of src/src and src/server.                               *)
(*                                                                         *)
(* An environment is [endpoint, model, key, gemini, openai, reasoning,     *)
(* keepAlive, auth]: values or "" where nothing is set, and two switches.  *)
(***************************************************************************)
EXTENDS Naturals, FiniteSets

Unknown == "unknown"
FirstSet(a, b) == IF a # "" THEN a ELSE b

Ollama(endpoint) == endpoint = "ollama"
Catalogue(endpoint) == endpoint # "other"

Vlm(endpoint, model, key, keepAlive) ==
    [vlm |-> TRUE, endpoint |-> endpoint, model |-> model, key |-> key, keepAlive |-> keepAlive]

(* An endpoint with a model wins; then the key of a provider with its own    *)
(* endpoint and model for what is not set; then no model at all.             *)
SelectPlanner(env) ==
    IF env.endpoint # "" /\ env.model # ""
    THEN Vlm(env.endpoint, env.model, FirstSet(env.key, FirstSet(env.gemini, env.openai)),
             Ollama(env.endpoint) /\ env.keepAlive)
    ELSE IF env.gemini # ""
    THEN Vlm(FirstSet(env.endpoint, "gemini"), FirstSet(env.model, "flash"), env.gemini, FALSE)
    ELSE IF env.openai # ""
    THEN Vlm(FirstSet(env.endpoint, "openai"), FirstSet(env.model, "luna"), env.openai, FALSE)
    ELSE [vlm |-> FALSE, endpoint |-> "", model |-> "", key |-> "", keepAlive |-> FALSE]

-----------------------------------------------------------------------------
(* verifyModel asks for the model, and on a 404 for the whole catalogue.     *)
(* What a fetch brings: "found", "missing" (404), "refused", "unreachable".  *)
AfterModel(status) ==
    CASE status = "found" -> [verified |-> "yes", again |-> FALSE]
      [] status = "missing" -> [verified |-> Unknown, again |-> TRUE]
      [] OTHER -> [verified |-> Unknown, again |-> FALSE]

(* Mutant: a second failure is proof that the model is missing.             *)
AnyList(status) == "no"

(* A missing model is only missing when the catalogue itself can be read.    *)
AfterList(status) == IF status = "found" THEN "no" ELSE Unknown

(* probeContextWindow: what the model pins, or nothing.                      *)
WindowOf(choice, status, pinned) ==
    IF Ollama(choice.endpoint) /\ status = "found" THEN pinned ELSE 0

-----------------------------------------------------------------------------
(* What a model endpoint may answer: "ok", "cut" (at the token limit),       *)
(* "empty" (no content, or an error), "busy" (429), "quota" (429 without     *)
(* credits), "broken" (5xx), "bad" (4xx), "thinking" (4xx, the reasoning     *)
(* field is not known), "unreachable".                                       *)
Answers == {"ok", "cut", "empty", "busy", "quota", "broken", "bad", "thinking", "unreachable"}

(* An error that does not say is retryable.                                  *)
Retryable(answer) == answer \notin {"cut", "bad", "thinking", "quota"}

Failed(cause, kind, retryable) == [ok |-> FALSE, cause |-> cause, kind |-> kind, retryable |-> retryable]
Planned == [ok |-> TRUE, cause |-> "none", kind |-> "none", retryable |-> FALSE]

(* handlePlanRequest, as the client reads its reply: a failed plan keeps     *)
(* what the server says of trying again.                                     *)
ReplyOf(answer) == IF answer = "ok" THEN Planned ELSE Failed(answer, "protocol", Retryable(answer))

(* What is answered before anything is planned: a body that cannot be read   *)
(* (400), a wrong token (401), a request of the wrong version, shape, size   *)
(* or with placeholders of another page; none of it is worth trying again.   *)
Refused(request, auth) ==
    IF (request = "token" /\ auth) \/ request = "invalid" THEN Failed(request, "protocol", FALSE) ELSE Planned
=============================================================================
