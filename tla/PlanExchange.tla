------------------------------ MODULE PlanExchange ------------------------------
(***************************************************************************)
(* A step asks the agent server for a plan: HttpAgentClient.plan, the      *)
(* server that answers, restarts and checks its model, and the planner     *)
(* that asks a model endpoint.  agent-server/client.ts, vlm-planner.ts and *)
(* app.ts, server/agent-http.ts and main.ts.                               *)
(*                                                                         *)
(* The client asks once at a time, but an ask it gave up on is still       *)
(* planned: the server never learns that its client has gone.              *)
(***************************************************************************)
EXTENDS PlanServer

CONSTANTS
    Asks,          \* the asks of a session, 1..n
    Environments,  \* what the server may be started with
    Providers,     \* [key, listed, hides, thinks, pinned] of the model endpoint
    MaxRestarts    \* bound

ASSUME ExchangeAssumption == Asks \subseteq Nat /\ MaxRestarts \in Nat

(* A request is good, or one thing is wrong with it: what it would send must *)
(* not leave, it is too large, it has no valid token, or it is of another    *)
(* version or shape or holds the placeholders of another page.               *)
Requests == {"good", "leak", "large", "token", "invalid"}

VARIABLES
    env, provider,     \* what the server was started with, and its endpoint
    up,                \* the server runs
    verified, window,  \* modelVerified, contextWindowTokens (0 unknown)
    warm,              \* keepAliveWorks
    checks,            \* startup requests under way: "model", "list", "window", "load"
    thinkingRefused,   \* the planner's
    asks,              \* the client's side: "new", "out", "settled"
    outcome,           \* of the ask settled last
    plans,             \* the server's side: [at, request, effort, reply, crossed]
    restarts

exchangeVars == <<env, provider, up, verified, window, warm, checks, thinkingRefused, asks, outcome, plans, restarts>>
server == <<up, verified, window, warm, checks, thinkingRefused>>
fixed == <<env, provider>>

choice == SelectPlanner(env)
NoReply == Failed("unanswered", "none", FALSE)
Idle == [at |-> "none", request |-> "good", effort |-> FALSE, reply |-> NoReply, crossed |-> FALSE]

(* A server that has just begun to listen, and asks after its model.         *)
ChecksOf(c) ==
    (IF c.vlm THEN {"model", "window"} ELSE {}) \cup (IF c.keepAlive THEN {"load"} ELSE {})

ExchangeInit ==
    /\ env \in Environments /\ provider \in Providers
    /\ up = TRUE /\ verified = Unknown /\ window = 0 /\ warm = FALSE
    /\ checks = ChecksOf(choice) /\ thinkingRefused = FALSE
    /\ asks = [i \in Asks |-> "new"] /\ outcome = Planned
    /\ plans = [i \in Asks |-> Idle]
    /\ restarts = 0

-----------------------------------------------------------------------------
Settled(i, how) == asks' = [asks EXCEPT ![i] = "settled"] /\ outcome' = how

(* plan: a context that must not leave and a body that is too large are not  *)
(* sent; what is sent is on the wire.                                        *)
Ask(i, request) ==
    /\ asks[i] = "new" /\ \A j \in Asks : j < i => asks[j] = "settled"
    /\ CASE request = "leak" -> Settled(i, Failed("leak", "refused", FALSE)) /\ UNCHANGED plans
         [] request = "large" -> Settled(i, Failed("large", "protocol", FALSE)) /\ UNCHANGED plans
         [] OTHER -> /\ asks' = [asks EXCEPT ![i] = "out"]
                     /\ plans' = [plans EXCEPT ![i] = [Idle EXCEPT !.at = "wire", !.request = request]]
                     /\ UNCHANGED outcome
    /\ UNCHANGED <<fixed, server, restarts>>

(* A reply nobody waits for is not read.                                     *)
Unread(i) == plans' = [plans EXCEPT ![i] = IF @.at = "over" THEN Idle ELSE @]

(* Mutant: a request without a time limit.                                   *)
NeverGivesUp(i, cause) ==
    /\ asks[i] = "out" /\ cause # "timeout"
    /\ Settled(i, Failed(cause, "transport", TRUE)) /\ Unread(i)
    /\ UNCHANGED <<fixed, server, restarts>>

(* The client's own limit, a connection that breaks, or a run that is        *)
(* stopped: the server is told nothing, and may still get the request.       *)
GivesUp(i, cause) ==
    /\ asks[i] = "out"
    /\ Settled(i, Failed(cause, "transport", TRUE)) /\ Unread(i)
    /\ UNCHANGED <<fixed, server, restarts>>

Receives(i) ==
    /\ asks[i] = "out" /\ plans[i].at = "over" /\ plans[i].reply # NoReply
    /\ Settled(i, plans[i].reply) /\ Unread(i)
    /\ UNCHANGED <<fixed, server, restarts>>

-----------------------------------------------------------------------------
Thinking(i) == plans[i].at \in {"sent", "resent"}

RepliesWith(i, reply) ==
    plans' = [plans EXCEPT ![i] = IF asks[i] = "out" THEN [@ EXCEPT !.at = "over", !.reply = reply] ELSE Idle]

(* The request arrives; what is not refused is planned, with a model by      *)
(* asking its endpoint with the reasoning field unless it was refused once.  *)
Serves(i) ==
    /\ up /\ plans[i].at = "wire"
    /\ LET refusal == Refused(plans[i].request, env.auth)
       IN IF ~refusal.ok \/ ~choice.vlm THEN RepliesWith(i, refusal)
          ELSE plans' = [j \in Asks |->
                   IF j = i THEN [Idle EXCEPT !.at = "sent", !.effort = env.reasoning /\ ~thinkingRefused,
                                              !.crossed = \E k \in Asks : Thinking(k)]
                   ELSE [plans[j] EXCEPT !.crossed = @ \/ Thinking(j)]]
    /\ UNCHANGED <<fixed, server, asks, outcome, restarts>>

MayAnswer(i, answer) ==
    IF plans[i].effort /\ ~provider.thinks THEN answer # "ok" ELSE answer # "thinking"

(* Mutant: the planner that learns it is not asked again.                    *)
AnswersOnce(i, answer) ==
    /\ Thinking(i) /\ MayAnswer(i, answer)
    /\ thinkingRefused' = (thinkingRefused \/ answer = "thinking")
    /\ RepliesWith(i, ReplyOf(answer))
    /\ UNCHANGED <<fixed, up, verified, window, warm, checks, asks, outcome, restarts>>

(* The endpoint answers.  A refusal of the reasoning field is remembered and *)
(* the plan sent once more without it, unless it was known already.          *)
ProviderAnswers(i, answer) ==
    /\ Thinking(i) /\ MayAnswer(i, answer)
    /\ IF answer = "thinking" /\ ~thinkingRefused /\ plans[i].at = "sent"
       THEN /\ thinkingRefused' = TRUE
            /\ plans' = [plans EXCEPT ![i].at = "resent", ![i].effort = FALSE]
       ELSE RepliesWith(i, ReplyOf(answer)) /\ UNCHANGED thinkingRefused
    /\ UNCHANGED <<fixed, up, verified, window, warm, checks, asks, outcome, restarts>>

(* One limit for both sends of a plan.                                       *)
PlannerTimesOut(i) ==
    /\ Thinking(i)
    /\ RepliesWith(i, Failed("limit", "protocol", TRUE))
    /\ UNCHANGED <<fixed, server, asks, outcome, restarts>>

-----------------------------------------------------------------------------
(* The statuses an endpoint gives: one that hides says 404 for what a        *)
(* refused key may not see.                                                  *)
KeyTaken == choice.key = provider.key \/ Ollama(choice.endpoint)

Statuses(there) ==
    {"unreachable"} \cup IF KeyTaken THEN {IF there THEN "found" ELSE "missing"}
                         ELSE {IF provider.hides THEN "missing" ELSE "refused"}

ModelChecked(status) ==
    /\ up /\ "model" \in checks
    /\ LET after == IF Catalogue(choice.endpoint) THEN AfterModel(status)
                    ELSE [verified |-> Unknown, again |-> FALSE]
       IN /\ verified' = after.verified
          /\ checks' = (checks \ {"model"}) \cup (IF after.again THEN {"list"} ELSE {})
    /\ UNCHANGED <<fixed, up, window, warm, thinkingRefused, asks, outcome, plans, restarts>>

ListChecked(status) ==
    /\ up /\ "list" \in checks
    /\ verified' = AfterList(status)
    /\ checks' = checks \ {"list"}
    /\ UNCHANGED <<fixed, up, window, warm, thinkingRefused, asks, outcome, plans, restarts>>

WindowProbed(status) ==
    /\ up /\ "window" \in checks
    /\ window' = WindowOf(choice, status, provider.pinned)
    /\ checks' = checks \ {"window"}
    /\ UNCHANGED <<fixed, up, verified, warm, thinkingRefused, asks, outcome, plans, restarts>>

(* keepModelLoaded at the start; only where that worked is it asked for      *)
(* again after every plan, which changes nothing here.                       *)
ModelLoaded(status) ==
    /\ up /\ "load" \in checks
    /\ warm' = (status = "found")
    /\ checks' = checks \ {"load"}
    /\ UNCHANGED <<fixed, up, verified, window, thinkingRefused, asks, outcome, plans, restarts>>

(* The process ends, with every connection; what it learned is forgotten.    *)
Stops ==
    /\ up /\ restarts < MaxRestarts
    /\ up' = FALSE /\ restarts' = restarts + 1
    /\ verified' = Unknown /\ window' = 0 /\ warm' = FALSE /\ checks' = {} /\ thinkingRefused' = FALSE
    /\ plans' = [i \in Asks |-> IF plans[i].at = "wire" THEN plans[i] ELSE Idle]
    /\ UNCHANGED <<fixed, asks, outcome>>

Starts ==
    /\ ~up
    /\ up' = TRUE /\ checks' = ChecksOf(choice)
    /\ UNCHANGED <<fixed, verified, window, warm, thinkingRefused, asks, outcome, plans, restarts>>

ExchangeNext ==
    \/ \E i \in Asks :
         \/ \E request \in Requests : Ask(i, request)
         \/ Receives(i) \/ Serves(i) \/ PlannerTimesOut(i)
         \/ \E cause \in {"timeout", "network", "aborted"} : GivesUp(i, cause)
         \/ \E answer \in Answers : ProviderAnswers(i, answer)
    \/ \E status \in Statuses(provider.listed) : ModelChecked(status)
    \/ \E status \in Statuses(TRUE) : ListChecked(status)
    \/ \E status \in Statuses(provider.listed) : WindowProbed(status) \/ ModelLoaded(status)
    \/ Stops \/ Starts

(* Timers fire and a running server handles what it was sent; nothing is     *)
(* asked of the network or of the model endpoint.                            *)
Fairness ==
    /\ WF_exchangeVars(Starts)
    /\ \A i \in Asks : WF_exchangeVars(GivesUp(i, "timeout")) /\ WF_exchangeVars(PlannerTimesOut(i))

ExchangeSpec == ExchangeInit /\ [][ExchangeNext]_exchangeVars /\ Fairness

-----------------------------------------------------------------------------
(* A server that says its model is missing is right: the endpoint took the   *)
(* key and does not list the model.  An endpoint that hides behind 404 what  *)
(* a refused key may not see, or that fails between the two requests, is     *)
(* never taken for one that lacks the model.                                 *)
MissingIsMissing == verified = "no" => KeyTaken /\ ~provider.listed

(* An endpoint that does not know the reasoning field costs no plan, unless  *)
(* two plans were under way at once: the server plans on for a client that   *)
(* has gone.                                                                 *)
NoPlanLostToReasoning ==
    \A i \in Asks : plans[i].reply.cause = "thinking" => plans[i].crossed

(* Every ask is settled, and every plan the server began ends, whatever the  *)
(* network, the endpoint and the client that asked do.                       *)
AsksSettle ==
    \A i \in Asks : (asks[i] = "out" ~> asks[i] = "settled") /\ (Thinking(i) ~> ~Thinking(i))
=============================================================================
