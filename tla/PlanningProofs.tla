----------------------------- MODULE PlanningProofs -----------------------------
(***************************************************************************)
(* What of a step's plan holds in general: of the exchange it is asked for *)
(* in, for any number of asks, environments, endpoints and restarts; and   *)
(* of the choice of the element it acts on, for all pages, goals, replies  *)
(* and answers.                                                            *)
(***************************************************************************)
EXTENDS Choosing, PlanExchange, TLAPS, WellFoundedInduction, SequenceTheorems, FiniteSetTheorems

-----------------------------------------------------------------------------
(* The exchange with the agent server.                                       *)

Causes == Answers \cup {"none", "unanswered", "token", "invalid", "leak", "large", "limit",
                        "timeout", "network", "aborted"}
ReplyType ==
    [ok : BOOLEAN, cause : Causes, kind : {"none", "protocol", "refused", "transport"},
     retryable : BOOLEAN]
PlanType ==
    [at : {"none", "wire", "sent", "resent", "over"}, request : Requests, effort : BOOLEAN,
     reply : ReplyType, crossed : BOOLEAN]

TypeOK ==
    /\ verified \in {"yes", "no", Unknown}
    /\ checks \subseteq {"model", "list", "window", "load"}
    /\ thinkingRefused \in BOOLEAN
    /\ asks \in [Asks -> {"new", "out", "settled"}]
    /\ outcome \in ReplyType
    /\ plans \in [Asks -> PlanType]
    /\ restarts \in 0 .. MaxRestarts

(* The catalogue is asked for when an endpoint that takes the key has not    *)
(* the model, or when it hides what it has.                                  *)
ListAfterMiss == "list" \in checks => (KeyTaken => ~provider.listed)

(* Two plans under way at once know of each other; what was sent once more   *)
(* went without the reasoning field; and a plan that still carries it after  *)
(* it was refused was under way when another one was.                        *)
Crossing ==
    /\ \A i, j \in Asks : i # j /\ Thinking(i) /\ Thinking(j) => plans[i].crossed
    /\ \A i \in Asks : plans[i].at = "resent" => ~plans[i].effort
    /\ \A i \in Asks : plans[i].at = "sent" /\ plans[i].effort /\ thinkingRefused
                           => plans[i].crossed

ExchangeInv == ListAfterMiss /\ MissingIsMissing /\ Crossing /\ NoPlanLostToReasoning
-----------------------------------------------------------------------------
(* Replies.                                                                  *)

LEMMA RepliesTyped ==
    /\ NoReply \in ReplyType /\ Planned \in ReplyType
    /\ NoReply.cause # "thinking" /\ Planned.cause # "thinking"
    /\ \A c \in Causes, k \in {"protocol", "refused", "transport"}, r \in BOOLEAN :
           Failed(c, k, r) \in ReplyType /\ Failed(c, k, r).cause = c
BY DEF NoReply, Planned, Failed, ReplyType, Causes, Answers

LEMMA AnswerTyped ==
    ASSUME NEW answer \in Answers
    PROVE  /\ ReplyOf(answer) \in ReplyType
           /\ ReplyOf(answer).cause = "thinking" => answer = "thinking"
BY RepliesTyped DEF ReplyOf, Retryable, Causes

LEMMA RefusalTyped ==
    ASSUME NEW request \in Requests, NEW auth
    PROVE  /\ Refused(request, auth) \in ReplyType
           /\ Refused(request, auth).cause # "thinking"
<1>1. CASE request \in {"token", "invalid"}
  BY <1>1, RepliesTyped DEF Refused, Causes
<1>2. CASE request \notin {"token", "invalid"}
  BY <1>2, RepliesTyped DEF Refused
<1> QED BY <1>1, <1>2

LEMMA IdleTyped ==
    /\ Idle \in PlanType /\ Idle.at = "none" /\ Idle.reply = NoReply
    /\ ~Idle.effort /\ ~Idle.crossed
    /\ \A r \in Requests :
           LET p == [Idle EXCEPT !.at = "wire", !.request = r]
           IN p \in PlanType /\ p.at = "wire" /\ p.reply = NoReply
    /\ \A e, c \in BOOLEAN :
           LET p == [Idle EXCEPT !.at = "sent", !.effort = e, !.crossed = c]
           IN p \in PlanType /\ p.at = "sent" /\ p.effort = e /\ p.crossed = c
              /\ p.reply = NoReply
BY RepliesTyped DEF Idle, PlanType, Requests

(* What a reply makes of a plan: it is over, or of no use to anyone.         *)
LEMMA Replied ==
    ASSUME TypeOK, NEW i \in Asks, NEW r \in ReplyType, RepliesWith(i, r)
    PROVE  /\ plans' \in [Asks -> PlanType]
           /\ \A j \in Asks \ {i} : plans'[j] = plans[j]
           /\ \/ plans'[i] = Idle
              \/ /\ plans'[i].at = "over" /\ plans'[i].reply = r
                 /\ plans'[i].crossed = plans[i].crossed
<1>1. plans \in [Asks -> PlanType] /\ plans[i] \in PlanType
  BY DEF TypeOK
<1>2. CASE asks[i] = "out"
  <2> DEFINE p == [plans[i] EXCEPT !.at = "over", !.reply = r]
  <2>1. p \in PlanType /\ p.at = "over" /\ p.reply = r /\ p.crossed = plans[i].crossed
    BY <1>1 DEF PlanType
  <2>2. plans' = [plans EXCEPT ![i] = p]
    BY <1>2 DEF RepliesWith
  <2> HIDE DEF p
  <2> QED BY <1>1, <2>1, <2>2
<1>3. CASE asks[i] # "out"
  <2>1. plans' = [plans EXCEPT ![i] = Idle]
    BY <1>3 DEF RepliesWith
  <2> QED BY <1>1, <2>1, IdleTyped
<1> QED BY <1>2, <1>3

(* What nobody reads is dropped.                                             *)
LEMMA Dropped ==
    ASSUME TypeOK, NEW i \in Asks, Unread(i)
    PROVE  /\ plans' \in [Asks -> PlanType]
           /\ \A j \in Asks : plans'[j] = plans[j] \/ plans'[j] = Idle
BY IdleTyped DEF TypeOK, Unread

-----------------------------------------------------------------------------
(* Plans.                                                                    *)

(* A request that reaches a model: what it makes of the plans.               *)
LEMMA Sent ==
    ASSUME TypeOK, NEW i \in Asks, Serves(i)
    PROVE  \/ \E r \in ReplyType : r.cause # "thinking" /\ RepliesWith(i, r)
           \/ /\ plans[i].at = "wire"
              /\ plans' \in [Asks -> PlanType]
              /\ plans'[i].at = "sent" /\ plans'[i].reply = NoReply
              /\ plans'[i].effort => ~thinkingRefused
              /\ plans'[i].crossed = \E k \in Asks : Thinking(k)
              /\ \A j \in Asks \ {i} :
                     /\ plans'[j].at = plans[j].at /\ plans'[j].effort = plans[j].effort
                     /\ plans'[j].reply = plans[j].reply
                     /\ plans'[j].crossed = (plans[j].crossed \/ Thinking(j))
<1> DEFINE refusal == Refused(plans[i].request, env.auth)
           e == env.reasoning /\ ~thinkingRefused
           c == \E k \in Asks : Thinking(k)
           p == [Idle EXCEPT !.at = "sent", !.effort = e, !.crossed = c]
           q(j) == [plans[j] EXCEPT !.crossed = @ \/ Thinking(j)]
<1>1. plans \in [Asks -> PlanType] /\ \A j \in Asks : plans[j] \in PlanType
  BY DEF TypeOK
<1>2. CASE ~refusal.ok \/ ~choice.vlm
  <2>1. RepliesWith(i, refusal)
    BY <1>2 DEF Serves
  <2>2. plans[i].request \in Requests
    BY <1>1 DEF PlanType
  <2> QED BY <2>1, <2>2, RefusalTyped
<1>3. CASE ~(~refusal.ok \/ ~choice.vlm)
  <2>1. plans' = [j \in Asks |-> IF j = i THEN p ELSE q(j)] /\ plans[i].at = "wire"
    BY <1>3 DEF Serves
  <2>2. e \in BOOLEAN /\ c \in BOOLEAN /\ (e => ~thinkingRefused)
    OBVIOUS
  <2>3. p \in PlanType /\ p.at = "sent" /\ p.effort = e /\ p.crossed = c /\ p.reply = NoReply
    BY <2>2, IdleTyped
  <2>4. \A j \in Asks : /\ q(j) \in PlanType /\ q(j).at = plans[j].at
                        /\ q(j).effort = plans[j].effort /\ q(j).reply = plans[j].reply
                        /\ q(j).crossed = (plans[j].crossed \/ Thinking(j))
    BY <1>1 DEF PlanType
  <2> HIDE DEF p, q, e
  <2> QED BY <2>1, <2>2, <2>3, <2>4
<1> QED BY <1>2, <1>3

(* The endpoint's answer: the plan goes out once more, or there is a reply.  *)
LEMMA Answered ==
    ASSUME TypeOK, NEW i \in Asks, NEW answer \in Answers, ProviderAnswers(i, answer)
    PROVE  \/ /\ plans[i].at = "sent" /\ answer = "thinking" /\ plans[i].effort
              /\ ~thinkingRefused /\ thinkingRefused' = TRUE
              /\ plans' \in [Asks -> PlanType]
              /\ \A j \in Asks \ {i} : plans'[j] = plans[j]
              /\ plans'[i].at = "resent" /\ ~plans'[i].effort
              /\ plans'[i].reply = plans[i].reply /\ plans'[i].crossed = plans[i].crossed
           \/ /\ RepliesWith(i, ReplyOf(answer)) /\ thinkingRefused' = thinkingRefused
              /\ answer = "thinking" =>
                     plans[i].effort /\ (thinkingRefused \/ plans[i].at = "resent")
<1>1. plans \in [Asks -> PlanType] /\ plans[i] \in PlanType
  BY DEF TypeOK
<1>2. Thinking(i) /\ (answer = "thinking" => plans[i].effort)
  BY DEF ProviderAnswers, MayAnswer
<1>3. CASE answer = "thinking" /\ ~thinkingRefused /\ plans[i].at = "sent"
  <2> DEFINE p == [[plans[i] EXCEPT !.at = "resent"] EXCEPT !.effort = FALSE]
  <2>1. /\ p \in PlanType /\ p.at = "resent" /\ p.effort = FALSE
        /\ p.reply = plans[i].reply /\ p.crossed = plans[i].crossed
    BY <1>1 DEF PlanType
  <2>2. plans' = [plans EXCEPT ![i].at = "resent", ![i].effort = FALSE] /\ thinkingRefused' = TRUE
    BY <1>3 DEF ProviderAnswers
  <2>3. plans' = [plans EXCEPT ![i] = p]
    BY <1>1, <2>2
  <2> HIDE DEF p
  <2> QED BY <1>1, <1>2, <1>3, <2>1, <2>2, <2>3
<1>4. CASE ~(answer = "thinking" /\ ~thinkingRefused /\ plans[i].at = "sent")
  <2>1. RepliesWith(i, ReplyOf(answer)) /\ thinkingRefused' = thinkingRefused
    BY <1>4 DEF ProviderAnswers
  <2>2. answer = "thinking" => thinkingRefused \/ plans[i].at = "resent"
    BY <1>2, <1>4 DEF Thinking
  <2> QED BY <1>2, <2>1, <2>2
<1> QED BY <1>3, <1>4

(* What a restart leaves of the plans is what has not arrived.               *)
LEMMA Stopped ==
    ASSUME TypeOK, Stops
    PROVE  /\ plans' \in [Asks -> PlanType]
           /\ \A j \in Asks : plans'[j] = Idle \/ (plans'[j] = plans[j] /\ plans[j].at = "wire")
           /\ thinkingRefused' = FALSE
BY IdleTyped DEF TypeOK, Stops

LEMMA Asked ==
    ASSUME TypeOK, NEW i \in Asks, NEW r \in Requests, Ask(i, r)
    PROVE  /\ plans' \in [Asks -> PlanType]
           /\ \A j \in Asks : \/ plans'[j] = plans[j]
                              \/ plans'[j].at = "wire" /\ plans'[j].reply = NoReply
           /\ outcome' \in ReplyType
           /\ asks' \in [Asks -> {"new", "out", "settled"}]
<1> DEFINE p == [Idle EXCEPT !.at = "wire", !.request = r]
<1>0. TypeOK /\ p \in PlanType /\ p.at = "wire" /\ p.reply = NoReply
  BY IdleTyped
<1>1. CASE r \in {"leak", "large"}
  <2>1. \E how \in ReplyType : Settled(i, how) /\ UNCHANGED plans
    <3>1. CASE r = "leak"
      BY <3>1, RepliesTyped DEF Ask, Causes
    <3>2. CASE r = "large"
      BY <3>2, RepliesTyped DEF Ask, Causes
    <3> QED BY <1>1, <3>1, <3>2
  <2> QED BY <1>0, <2>1 DEF Settled, TypeOK
<1>2. CASE r \notin {"leak", "large"}
  <2>1. plans' = [plans EXCEPT ![i] = p] /\ asks' = [asks EXCEPT ![i] = "out"] /\ outcome' = outcome
    BY <1>2 DEF Ask
  <2> HIDE DEF p
  <2> QED BY <1>0, <2>1 DEF TypeOK
<1> QED BY <1>1, <1>2

(* The steps, one by one.                                                    *)
LEMMA ExchangeSteps ==
    ASSUME ExchangeNext
    PROVE  \/ \E i \in Asks, r \in Requests : Ask(i, r)
           \/ \E i \in Asks : Receives(i) \/ Serves(i) \/ PlannerTimesOut(i)
           \/ \E i \in Asks, cause \in {"timeout", "network", "aborted"} : GivesUp(i, cause)
           \/ \E i \in Asks, answer \in Answers : ProviderAnswers(i, answer)
           \/ \E status \in Statuses(provider.listed) :
                  ModelChecked(status) \/ WindowProbed(status) \/ ModelLoaded(status)
           \/ \E status \in Statuses(TRUE) : ListChecked(status)
           \/ Stops \/ Starts
BY DEF ExchangeNext

(* The steps of the server that are about its model and not about a plan.    *)
Checking ==
    \/ \E status \in Statuses(provider.listed) :
           ModelChecked(status) \/ WindowProbed(status) \/ ModelLoaded(status)
    \/ \E status \in Statuses(TRUE) : ListChecked(status)
    \/ Starts

LEMMA TypeStep ==
    ASSUME TypeOK, ExchangeNext
    PROVE  TypeOK'
<1>0. TypeOK /\ MaxRestarts \in Nat
  BY ExchangeAssumption
<1>1. plans' \in [Asks -> PlanType]
  <2>1. ASSUME NEW i \in Asks, NEW r \in Requests, Ask(i, r) PROVE plans' \in [Asks -> PlanType]
    BY <2>1, Asked
  <2>2. ASSUME NEW i \in Asks, Receives(i) \/ \E c \in {"timeout", "network", "aborted"} : GivesUp(i, c)
        PROVE  plans' \in [Asks -> PlanType]
    BY <2>2, Dropped DEF Receives, GivesUp
  <2>3. ASSUME NEW i \in Asks, Serves(i) PROVE plans' \in [Asks -> PlanType]
    BY <2>3, Sent, Replied
  <2>4. ASSUME NEW i \in Asks, PlannerTimesOut(i) PROVE plans' \in [Asks -> PlanType]
    BY <2>4, Replied, RepliesTyped DEF PlannerTimesOut, Causes
  <2>5. ASSUME NEW i \in Asks, NEW a \in Answers, ProviderAnswers(i, a)
        PROVE  plans' \in [Asks -> PlanType]
    BY <2>5, Answered, AnswerTyped, Replied
  <2>6. CASE Stops
    BY <2>6, Stopped
  <2>7. CASE Checking
    BY <1>0, <2>7 DEF Checking, ModelChecked, ListChecked, WindowProbed, ModelLoaded, Starts, TypeOK
  <2> QED BY ExchangeSteps, <2>1, <2>2, <2>3, <2>4, <2>5, <2>6, <2>7 DEF Checking
<1>2. asks' \in [Asks -> {"new", "out", "settled"}] /\ outcome' \in ReplyType
  <2>1. ASSUME NEW i \in Asks, NEW r \in Requests, Ask(i, r)
        PROVE  asks' \in [Asks -> {"new", "out", "settled"}] /\ outcome' \in ReplyType
    BY <2>1, Asked
  <2>2. ASSUME NEW i \in Asks, Receives(i)
        PROVE  asks' \in [Asks -> {"new", "out", "settled"}] /\ outcome' \in ReplyType
    <3>1. plans[i].reply \in ReplyType
      BY <1>0 DEF TypeOK, PlanType
    <3> QED BY <1>0, <2>2, <3>1 DEF Receives, Settled, TypeOK
  <2>3. ASSUME NEW i \in Asks, NEW c \in {"timeout", "network", "aborted"}, GivesUp(i, c)
        PROVE  asks' \in [Asks -> {"new", "out", "settled"}] /\ outcome' \in ReplyType
    <3>1. Failed(c, "transport", TRUE) \in ReplyType
      BY RepliesTyped DEF Causes
    <3> QED BY <1>0, <2>3, <3>1 DEF GivesUp, Settled, TypeOK
  <2>4. CASE UNCHANGED <<asks, outcome>>
    BY <1>0, <2>4 DEF TypeOK
  <2> QED BY ExchangeSteps, <2>1, <2>2, <2>3, <2>4
      DEF Serves, PlannerTimesOut, ProviderAnswers, ModelChecked, ListChecked, WindowProbed,
          ModelLoaded, Stops, Starts
<1>3. thinkingRefused' \in BOOLEAN
  <2>1. ASSUME NEW i \in Asks, NEW a \in Answers, ProviderAnswers(i, a)
        PROVE  thinkingRefused' \in {thinkingRefused, TRUE}
    BY <2>1, Answered
  <2>2. thinkingRefused' \in {thinkingRefused, TRUE, FALSE}
    BY ExchangeSteps, <2>1
    DEF Ask, Receives, GivesUp, Serves, PlannerTimesOut, ModelChecked, ListChecked,
        WindowProbed, ModelLoaded, Stops, Starts, server
  <2> QED BY <1>0, <2>2 DEF TypeOK
<1>4. checks' \subseteq {"model", "list", "window", "load"}
  BY <1>0, ExchangeSteps
  DEF TypeOK, Ask, Receives, GivesUp, Serves, PlannerTimesOut, ProviderAnswers, ModelChecked,
      ListChecked, WindowProbed, ModelLoaded, Stops, Starts, server, ChecksOf
<1>5. verified' \in {"yes", "no", Unknown}
  BY <1>0, ExchangeSteps
  DEF TypeOK, Ask, Receives, GivesUp, Serves, PlannerTimesOut, ProviderAnswers, ModelChecked,
      ListChecked, WindowProbed, ModelLoaded, Stops, Starts, server, AfterModel, AfterList
<1>6. restarts' \in 0 .. MaxRestarts
  <2>1. restarts' = restarts \/ (restarts < MaxRestarts /\ restarts' = restarts + 1)
    BY ExchangeSteps
    DEF Ask, Receives, GivesUp, Serves, PlannerTimesOut, ProviderAnswers, ModelChecked,
        ListChecked, WindowProbed, ModelLoaded, Stops, Starts
  <2> QED BY <1>0, <2>1 DEF TypeOK
<1> QED BY <1>1, <1>2, <1>3, <1>4, <1>5, <1>6 DEF TypeOK

(* Only the answer of the catalogue says that a model is missing.            *)
LEMMA MissingStep ==
    ASSUME TypeOK, ListAfterMiss, MissingIsMissing, ExchangeNext
    PROVE  ListAfterMiss' /\ MissingIsMissing'
<1>0. UNCHANGED fixed /\ UNCHANGED <<KeyTaken, provider>>
  BY ExchangeSteps
  DEF Ask, Receives, GivesUp, Serves, PlannerTimesOut, ProviderAnswers, ModelChecked,
      ListChecked, WindowProbed, ModelLoaded, Stops, Starts, fixed, KeyTaken, choice
<1>1. ASSUME NEW status \in Statuses(provider.listed), ModelChecked(status)
      PROVE  ListAfterMiss' /\ MissingIsMissing'
  <2>1. status = "missing" => (KeyTaken => ~provider.listed)
    BY DEF Statuses
  <2>2. verified' # "no"
    BY <1>1 DEF ModelChecked, AfterModel, Unknown
  <2>3. "list" \in checks' => "list" \in checks \/ status = "missing"
    BY <1>1 DEF ModelChecked, AfterModel
  <2> QED BY <1>0, <2>1, <2>2, <2>3 DEF ListAfterMiss, MissingIsMissing
<1>2. ASSUME NEW status \in Statuses(TRUE), ListChecked(status)
      PROVE  ListAfterMiss' /\ MissingIsMissing'
  <2>1. status = "found" => KeyTaken
    BY DEF Statuses
  <2>2. verified' = "no" => status = "found"
    BY <1>2 DEF ListChecked, AfterList, Unknown
  <2>3. "list" \in checks /\ "list" \notin checks'
    BY <1>2 DEF ListChecked
  <2> QED BY <1>0, <2>1, <2>2, <2>3 DEF ListAfterMiss, MissingIsMissing
<1>3. CASE Stops \/ Starts
  BY <1>0, <1>3 DEF Stops, Starts, ChecksOf, Unknown, ListAfterMiss, MissingIsMissing
<1>4. CASE verified' = verified /\ ("list" \in checks' => "list" \in checks)
  BY <1>0, <1>4 DEF ListAfterMiss, MissingIsMissing
<1> QED BY ExchangeSteps, <1>1, <1>2, <1>3, <1>4
    DEF Ask, Receives, GivesUp, Serves, PlannerTimesOut, ProviderAnswers, WindowProbed,
        ModelLoaded, server

(* A plan that is over, dropped or not yet served is not in another's way.   *)
LEMMA Aside ==
    ASSUME TypeOK, Crossing, NoPlanLostToReasoning,
           plans' \in [Asks -> PlanType],
           thinkingRefused' = thinkingRefused \/ thinkingRefused' = FALSE,
           \A j \in Asks :
               \/ plans'[j] = plans[j]
               \/ /\ plans'[j].at \notin {"sent", "resent"}
                  /\ plans'[j].reply.cause = "thinking" => plans'[j].crossed
    PROVE  Crossing' /\ NoPlanLostToReasoning'
BY DEF Crossing, NoPlanLostToReasoning, Thinking

LEMMA CrossingStep ==
    ASSUME TypeOK, Crossing, NoPlanLostToReasoning, ExchangeNext
    PROVE  Crossing' /\ NoPlanLostToReasoning'
<1>0. plans' \in [Asks -> PlanType] /\ \A j \in Asks : plans[j] \in PlanType
  BY TypeStep DEF TypeOK
<1>a. ASSUME NEW i \in Asks, NEW r \in ReplyType, RepliesWith(i, r),
             thinkingRefused' = thinkingRefused,
             r.cause = "thinking" => plans[i].crossed
      PROVE  Crossing' /\ NoPlanLostToReasoning'
  <2>1. /\ plans'[i].at \notin {"sent", "resent"}
        /\ plans'[i].reply.cause = "thinking" => plans'[i].crossed
    BY <1>a, Replied, IdleTyped, RepliesTyped, ZenonT(60)
  <2> QED BY <1>0, <1>a, <2>1, Replied, Aside
<1>1. ASSUME NEW i \in Asks, NEW r \in Requests, Ask(i, r)
      PROVE  Crossing' /\ NoPlanLostToReasoning'
  <2>1. thinkingRefused' = thinkingRefused
    BY <1>1 DEF Ask, server
  <2>2. \A j \in Asks : \/ plans'[j] = plans[j]
                        \/ plans'[j].at = "wire" /\ plans'[j].reply = NoReply
    BY <1>1, Asked
  <2> QED BY <1>0, <2>1, <2>2, RepliesTyped, Aside
<1>2. ASSUME NEW i \in Asks, Receives(i) \/ \E c \in {"timeout", "network", "aborted"} : GivesUp(i, c)
      PROVE  Crossing' /\ NoPlanLostToReasoning'
  <2>1. Unread(i) /\ thinkingRefused' = thinkingRefused
    BY <1>2 DEF Receives, GivesUp, server
  <2> QED BY <1>0, <2>1, Dropped, IdleTyped, RepliesTyped, Aside
<1>3. ASSUME NEW i \in Asks, PlannerTimesOut(i)
      PROVE  Crossing' /\ NoPlanLostToReasoning'
  <2> DEFINE r == Failed("limit", "protocol", TRUE)
  <2>1. RepliesWith(i, r) /\ thinkingRefused' = thinkingRefused
    BY <1>3 DEF PlannerTimesOut, server
  <2>2. r \in ReplyType /\ r.cause # "thinking"
    BY RepliesTyped DEF Causes
  <2> HIDE DEF r
  <2> QED BY <1>a, <2>1, <2>2
<1>4. ASSUME NEW i \in Asks, NEW answer \in Answers, ProviderAnswers(i, answer)
      PROVE  Crossing' /\ NoPlanLostToReasoning'
  <2>1. CASE /\ RepliesWith(i, ReplyOf(answer)) /\ thinkingRefused' = thinkingRefused
             /\ answer = "thinking" =>
                    plans[i].effort /\ (thinkingRefused \/ plans[i].at = "resent")
    <3>1. answer = "thinking" => plans[i].at = "sent" /\ plans[i].effort /\ thinkingRefused
      BY <1>4, <2>1 DEF ProviderAnswers, Thinking, Crossing
    <3>2. answer = "thinking" => plans[i].crossed
      BY <3>1 DEF Crossing
    <3> QED BY <1>a, <2>1, <3>2, AnswerTyped
  <2>2. CASE /\ plans[i].at = "sent" /\ answer = "thinking" /\ plans[i].effort
             /\ ~thinkingRefused /\ thinkingRefused' = TRUE
             /\ plans' \in [Asks -> PlanType]
             /\ \A j \in Asks \ {i} : plans'[j] = plans[j]
             /\ plans'[i].at = "resent" /\ ~plans'[i].effort
             /\ plans'[i].reply = plans[i].reply /\ plans'[i].crossed = plans[i].crossed
    <3>1. NoPlanLostToReasoning'
      BY <2>2 DEF NoPlanLostToReasoning
    <3>2. \A j \in Asks \ {i} : Thinking(j) => plans[j].crossed /\ plans[i].crossed
      BY <2>2 DEF Crossing, Thinking
    <3>3. Crossing'
      BY <2>2, <3>2 DEF Crossing, Thinking
    <3> QED BY <3>1, <3>3
  <2> QED BY <1>4, <2>1, <2>2, Answered
<1>5. ASSUME NEW i \in Asks, Serves(i)
      PROVE  Crossing' /\ NoPlanLostToReasoning'
  <2>1. thinkingRefused' = thinkingRefused
    BY <1>5 DEF Serves, server
  <2>2. ASSUME NEW r \in ReplyType, r.cause # "thinking", RepliesWith(i, r)
        PROVE  Crossing' /\ NoPlanLostToReasoning'
    BY <1>a, <2>1, <2>2
  <2>3. CASE /\ plans[i].at = "wire"
             /\ plans' \in [Asks -> PlanType]
             /\ plans'[i].at = "sent" /\ plans'[i].reply = NoReply
             /\ plans'[i].effort => ~thinkingRefused
             /\ plans'[i].crossed = \E k \in Asks : Thinking(k)
             /\ \A j \in Asks \ {i} :
                    /\ plans'[j].at = plans[j].at /\ plans'[j].effort = plans[j].effort
                    /\ plans'[j].reply = plans[j].reply
                    /\ plans'[j].crossed = (plans[j].crossed \/ Thinking(j))
    <3>1. \A j \in Asks \ {i} : plans[j].crossed => plans'[j].crossed
      BY <2>3
    <3>2. \A j \in Asks \ {i} : Thinking(j)' => Thinking(j) /\ plans'[j].crossed /\ plans'[i].crossed
      BY <2>3 DEF Thinking
    <3>3. NoPlanLostToReasoning'
      BY <2>3, <3>1, RepliesTyped DEF NoPlanLostToReasoning
    <3>4. Crossing'
      BY <2>1, <2>3, <3>1, <3>2 DEF Crossing, Thinking
    <3> QED BY <3>3, <3>4
  <2> QED BY <1>5, <2>2, <2>3, Sent
<1>6. CASE Stops
  BY <1>0, <1>6, Stopped, IdleTyped, RepliesTyped, Aside
<1>7. CASE Checking
  <2>1. plans' = plans /\ thinkingRefused' = thinkingRefused
    BY <1>7 DEF Checking, ModelChecked, ListChecked, WindowProbed, ModelLoaded, Starts
  <2> QED BY <1>0, <2>1, Aside
<1> QED BY ExchangeSteps, <1>1, <1>2, <1>3, <1>4, <1>5, <1>6, <1>7 DEF Checking

-----------------------------------------------------------------------------
LEMMA ExchangeInvInit == ExchangeInit => TypeOK /\ ExchangeInv
<1> SUFFICES ASSUME ExchangeInit PROVE TypeOK /\ ExchangeInv
  OBVIOUS
<1>1. TypeOK
  <2>1. plans \in [Asks -> PlanType] /\ asks \in [Asks -> {"new", "out", "settled"}]
    BY IdleTyped DEF ExchangeInit
  <2>2. outcome \in ReplyType /\ thinkingRefused \in BOOLEAN
    BY RepliesTyped DEF ExchangeInit
  <2>3. restarts \in 0 .. MaxRestarts
    BY ExchangeAssumption DEF ExchangeInit
  <2> QED BY <2>1, <2>2, <2>3 DEF ExchangeInit, TypeOK, ChecksOf
<1>2. ListAfterMiss /\ MissingIsMissing
  BY DEF ExchangeInit, ListAfterMiss, MissingIsMissing, ChecksOf, Unknown
<1>3. Crossing /\ NoPlanLostToReasoning
  BY IdleTyped, RepliesTyped DEF ExchangeInit, Crossing, Thinking, NoPlanLostToReasoning
<1> QED BY <1>1, <1>2, <1>3 DEF ExchangeInv

LEMMA ExchangeInvStep ==
    ASSUME TypeOK, ExchangeInv, [ExchangeNext]_exchangeVars
    PROVE  TypeOK' /\ ExchangeInv'
<1>1. CASE ExchangeNext
  BY <1>1, TypeStep, MissingStep, CrossingStep DEF ExchangeInv
<1>2. CASE UNCHANGED exchangeVars
  BY <1>2 DEF exchangeVars, TypeOK, ExchangeInv, ListAfterMiss, MissingIsMissing, Crossing, Thinking,
              NoPlanLostToReasoning, KeyTaken, choice
<1> QED BY <1>1, <1>2

LEMMA ExchangeInvariance == ExchangeSpec => [](TypeOK /\ ExchangeInv)
BY ExchangeInvInit, ExchangeInvStep, PTL DEF ExchangeSpec

(* Every variable of the exchange keeps its type, for any number of asks and *)
(* whatever the server is started with.                                      *)
THEOREM ExchangeTyped == ExchangeSpec => []TypeOK
BY ExchangeInvariance, PTL

(* MissingIsMissing: a server says its model is missing only of an endpoint  *)
(* that took the key and does not list it, however often it restarts.        *)
THEOREM OnlyTheMissingAreMissing == ExchangeSpec => []MissingIsMissing
<1>1. ExchangeInv => MissingIsMissing
  BY DEF ExchangeInv
<1> QED BY ExchangeInvariance, <1>1, PTL

(* NoPlanLostToReasoning: an endpoint that refuses the reasoning field costs *)
(* a plan only when two were under way at once, for any number of asks.      *)
THEOREM ReasoningCostsNoPlan == ExchangeSpec => []NoPlanLostToReasoning
<1>1. ExchangeInv => NoPlanLostToReasoning
  BY DEF ExchangeInv
<1> QED BY ExchangeInvariance, <1>1, PTL

-----------------------------------------------------------------------------
(* A set of numbers has a least one.                                         *)

Below == {p \in Nat \X Nat : p[1] < p[2]}

LEMMA WellFounded == IsWellFoundedOn(Below, Nat)
<1>1. OpToRel(<, Nat) = Below
  BY DEF OpToRel, Below
<1> QED BY <1>1, NatLessThanWellFounded

LEMMA Least ==
    ASSUME NEW S, S \subseteq Nat, S # {}
    PROVE  Min(S) \in S /\ \A m \in S : Min(S) <= m
<1>1. PICK n \in S : \A m \in S : <<m, n>> \notin Below
  BY WellFounded, WFMin
<1>2. \A m \in S : n <= m
  <2> SUFFICES ASSUME NEW m \in S PROVE n <= m
    OBVIOUS
  <2>1. m \in Nat /\ n \in Nat /\ <<m, n>> \notin Below
    BY <1>1
  <2> QED BY <2>1 DEF Below
<1> QED BY <1>2 DEF Min

-----------------------------------------------------------------------------
(* Sequences of anything.                                                    *)

IsList(s) == s \in Seq(ToSet(s))

LEMMA Appended ==
    ASSUME NEW s, IsList(s), NEW e
    PROVE  LET t == Append(s, e) IN
           /\ IsList(t) /\ t # <<>>
           /\ Len(s) \in Nat /\ DOMAIN s = 1 .. Len(s) /\ DOMAIN t = 1 .. Len(s) + 1
           /\ \A i \in DOMAIN s : i \in DOMAIN t /\ t[i] = s[i]
           /\ t[Len(s) + 1] = e
<1> DEFINE S == ToSet(s) \cup {e}
           t == Append(s, e)
<1>1. s \in Seq(S) /\ e \in S /\ Len(s) \in Nat /\ DOMAIN s = 1 .. Len(s)
  <2>1. s \in Seq(ToSet(s))
    BY DEF IsList
  <2> HIDE DEF S
  <2>2. ToSet(s) \subseteq S /\ e \in S
    BY DEF S
  <2> QED BY <2>1, <2>2
<1> HIDE DEF S
<1>2. /\ t \in Seq(S) /\ Len(t) = Len(s) + 1 /\ DOMAIN t = 1 .. Len(s) + 1
      /\ \A i \in 1 .. Len(s) : t[i] = s[i]
      /\ t[Len(s) + 1] = e
  BY <1>1
<1> HIDE DEF t
<1>3. t \in Seq(ToSet(t))
  BY <1>1, <1>2 DEF ToSet
<1>4. t # <<>>
  BY <1>1, <1>2
<1> QED BY <1>1, <1>2, <1>3, <1>4 DEF t, IsList

LEMMA NoneYet == IsList(<<>>) /\ DOMAIN <<>> = {}
<1>1. <<>> \in Seq(ToSet(<<>>)) /\ DOMAIN <<>> = {}
  OBVIOUS
<1> QED BY <1>1 DEF IsList

-----------------------------------------------------------------------------
(* The elements of a page, and those that were sent.                         *)

LEMMA Walked ==
    ASSUME NEW n \in DOMAIN Pages
    PROVE  /\ DOMAIN Numbered(n) \subseteq Nat \ {0}
           /\ \A i \in DOMAIN Numbered(n) : Numbered(n)[i].ref = i
<1>1. /\ DOMAIN Pages[n].elements \subseteq Nat \ {0}
      /\ \A i \in DOMAIN Pages[n].elements : "ref" \in DOMAIN Pages[n].elements[i]
  <2>1. Pages[n].elements \in Seq(ToSet(Pages[n].elements))
    BY ChoosingAssumption
  <2> QED BY <2>1, ChoosingAssumption
<1> QED BY <1>1 DEF Numbered

LEMMA Sends ==
    ASSUME NEW s, s.of \in DOMAIN Pages
    PROVE  /\ {e.ref : e \in SentElements(s)} \subseteq Nat
           /\ \A e \in SentElements(s) :
                  e.ref \in s.refs \cap DOMAIN Numbered(s.of) /\ e = Numbered(s.of)[e.ref]
<1> DEFINE N == Numbered(s.of)
<1>1. DOMAIN N \subseteq Nat \ {0} /\ \A i \in DOMAIN N : N[i].ref = i
  BY Walked
<1>2. SentElements(s) = {e \in {N[i] : i \in DOMAIN N} : e.ref \in s.refs}
  BY DEF SentElements, ToSet
<1> HIDE DEF N
<1>3. \A e \in SentElements(s) : e.ref \in s.refs \cap DOMAIN N /\ e = N[e.ref]
  <2> SUFFICES ASSUME NEW e \in SentElements(s) PROVE e.ref \in s.refs \cap DOMAIN N /\ e = N[e.ref]
    OBVIOUS
  <2>1. PICK i \in DOMAIN N : e = N[i] /\ e.ref \in s.refs
    BY <1>2
  <2> QED BY <1>1, <2>1
<1> QED BY <1>1, <1>3 DEF N

-----------------------------------------------------------------------------
(* What an accepted action addresses.                                        *)

ContextOf(s) == [elements |-> SentElements(s), containers |-> Pages[s.of].containers]

(* A verdict leads to an element that was sent.                              *)
LEMMA Judged ==
    ASSUME NEW a, NEW ref, NEW s, s.of \in DOMAIN Pages, a.type \in Addressing,
           VerdictOn(a, ref, ContextOf(s), AllowedOrigins) = "ok"
    PROVE  ref \in s.refs \cap DOMAIN Numbered(s.of)
<1>1. ContextOf(s).elements = SentElements(s)
  BY DEF ContextOf
<1>2. {e \in SentElements(s) : e.ref = ref} # {}
  BY <1>1 DEF VerdictOn
<1> QED BY <1>2, Sends

(* A target leads to one of those that it can mean; if there is another, all *)
(* are one link.                                                             *)
LEMMA OneMeant ==
    ASSUME NEW pool, {e.ref : e \in pool} \subseteq Nat, TheOneMeant(pool).code = "ok"
    PROVE  /\ \E d \in pool : d.ref = TheOneMeant(pool).ref
           /\ (\E e \in pool : pool = {e}) \/ SameLink(pool)
<1>1. pool # {} /\ ((\E e \in pool : pool = {e}) \/ SameLink(pool)) /\ TheOneMeant(pool).ref = FirstRef(pool)
  BY DEF TheOneMeant
<1>2. FirstRef(pool) \in {e.ref : e \in pool}
  <2> DEFINE R == {e.ref : e \in pool}
  <2>1. R \subseteq Nat /\ R # {} /\ FirstRef(pool) = Min(R)
    BY <1>1 DEF FirstRef
  <2> HIDE DEF R
  <2>2. Min(R) \in R
    BY <2>1, Least
  <2> QED BY <2>1, <2>2 DEF R
<1> QED BY <1>1, <1>2

LEMMA MeantAreSent ==
    ASSUME NEW t, NEW elements, NEW containers
    PROVE  Meant(t, elements, containers) \subseteq elements
BY DEF Meant, ByText, ByRegion, Closest

(* Without a region, what fits a target word for word is meant by it.        *)
LEMMA FittingAreMeant ==
    ASSUME NEW t, NEW elements, NEW containers, ~Given(t, "within"),
           NEW e \in elements, MatchesAttributes(e, t),
           Given(t, "text") => NormTarget(e.name) = NormTarget(t.text)
    PROVE  e \in Meant(t, elements, containers)
BY DEF Meant, ByText, Closest

LEMMA Resolved ==
    ASSUME NEW t, NEW s, s.of \in DOMAIN Pages,
           ResolveTarget(t, SentElements(s), Pages[s.of].containers).code = "ok"
    PROVE  Unguessed(s, ResolveTarget(t, SentElements(s), Pages[s.of].containers).ref, t)
<1> DEFINE pool == Meant(t, SentElements(s), Pages[s.of].containers)
           ref == TheOneMeant(pool).ref
<1>1. ResolveTarget(t, SentElements(s), Pages[s.of].containers) = TheOneMeant(pool)
  BY DEF ResolveTarget
<1>2. pool \subseteq SentElements(s)
  BY MeantAreSent
<1>3. \A e \in SentElements(s) :
          /\ ~Given(t, "within") /\ MatchesAttributes(e, t)
          /\ Given(t, "text") => NormTarget(e.name) = NormTarget(t.text)
          => e \in pool
  BY FittingAreMeant
<1> HIDE DEF pool
<1>4. {e.ref : e \in pool} \subseteq Nat
  BY <1>2, Sends
<1>5. PICK d \in pool : d.ref = ref
  BY <1>1, <1>4, OneMeant
<1>6. (\E e \in pool : pool = {e}) \/ SameLink(pool)
  BY <1>1, <1>4, OneMeant
<1>7. d = Numbered(s.of)[ref]
  BY <1>2, <1>5, Sends
<1> HIDE DEF ref
<1>8. ASSUME NEW e \in pool, e.ref # ref PROVE SameLink({e, d})
  <2>1. SameLink(pool)
    BY <1>5, <1>6, <1>8
  <2> QED BY <2>1, <1>5, <1>8 DEF SameLink
<1>9. Unguessed(s, ref, t)
  BY <1>3, <1>7, <1>8 DEF Unguessed
<1> QED BY <1>1, <1>9 DEF ref

(* What is needed of a ref and a target that are going to be acted on.       *)
Rightly(s, ref, target) ==
    /\ ref \in s.refs \cap DOMAIN Numbered(s.of)
    /\ Unguessed(s, ref, target)

TargetOf(a) == IF "target" \in DOMAIN a THEN a.target ELSE <<>>

LEMMA Validated ==
    ASSUME NEW a, NEW s, s.of \in DOMAIN Pages, a.type \in Addressing,
           ValidateAction(a, ContextOf(s), AllowedOrigins).code = "ok"
    PROVE  Rightly(s, ValidateAction(a, ContextOf(s), AllowedOrigins).ref, TargetOf(a))
<1> DEFINE context == ContextOf(s)
           found == IF "target" \in DOMAIN a
                    THEN ResolveTarget(a.target, context.elements, context.containers)
                    ELSE [code |-> "ok", ref |-> a.ref]
<1>1. /\ ValidateAction(a, context, AllowedOrigins).ref = found.ref
      /\ found.code = "ok" /\ VerdictOn(a, found.ref, context, AllowedOrigins) = "ok"
  BY DEF ValidateAction
<1>2. context.elements = SentElements(s) /\ context.containers = Pages[s.of].containers
  BY DEF ContextOf
<1>3. found.ref \in s.refs \cap DOMAIN Numbered(s.of)
  BY <1>1, Judged
<1>4. CASE "target" \in DOMAIN a
  BY <1>1, <1>2, <1>3, <1>4, Resolved DEF Rightly, TargetOf
<1>5. CASE "target" \notin DOMAIN a
  BY <1>1, <1>3, <1>5 DEF Rightly, TargetOf, Unguessed
<1> QED BY <1>4, <1>5

-----------------------------------------------------------------------------
(* Whatever a plan is, it is refused, or an action that is validated is      *)
(* accepted: the plan, or what the step found for a `done` nothing was done  *)
(* for.                                                                      *)

Checked(b) == ValidateAction(b, Context, AllowedOrigins)
Recovered == RecoverTextAction(Context.elements, goal)

LEMMA NotUnverified ==
    ASSUME NEW a, NEW context
    PROVE  ValidateAction(a, context, AllowedOrigins).code # "unverified-completion"
<1>1. ASSUME NEW ref PROVE VerdictOn(a, ref, context, AllowedOrigins) # "unverified-completion"
  BY DEF VerdictOn
<1>2. ASSUME NEW pool PROVE TheOneMeant(pool).code # "unverified-completion"
  BY DEF TheOneMeant
<1> DEFINE addressed == a.type \in Addressing
           found == IF addressed /\ "target" \in DOMAIN a
                    THEN ResolveTarget(a.target, context.elements, context.containers)
                    ELSE [code |-> "ok", ref |-> IF addressed THEN a.ref ELSE 0]
<1>3. found.code # "unverified-completion"
  BY <1>2 DEF ResolveTarget
<1>4. ValidateAction(a, context, AllowedOrigins).code =
          IF found.code # "ok" THEN found.code ELSE VerdictOn(a, found.ref, context, AllowedOrigins)
  BY DEF ValidateAction
<1> QED BY <1>1, <1>3, <1>4

LEMMA Judging ==
    ASSUME NEW a, Judge(a)
    PROVE  \/ \E b, verdict : Refuse(b, verdict)
           \/ \E b : /\ Accept(b, Checked(b).ref) /\ Checked(b).code = "ok"
                     /\ b = a \/ (b = Recovered /\ history = <<>>)
<1>1. JudgeBy(a, StepVerdict(a), Recovered)
  BY DEF Judge, Recovered
<1>2. CASE StepVerdict(a).code = "ok"
  <2>1. StepVerdict(a) = Checked(a)
    BY <1>2 DEF StepVerdict, Checked
  <2>2. Accept(a, StepVerdict(a).ref)
    BY <1>1, <1>2 DEF JudgeBy
  <2> QED BY <1>2, <2>1, <2>2
<1>3. CASE StepVerdict(a).code = "unverified-completion"
  <2>1. history = <<>>
    BY <1>3, NotUnverified DEF StepVerdict
  <2>2. JudgeDone(a, Recovered, Checked(Recovered))
    BY <1>1, <1>3 DEF JudgeBy, Checked
  <2>3. \/ Accept(Recovered, Checked(Recovered).ref) /\ Checked(Recovered).code = "ok"
        \/ Refuse(a, [code |-> "unverified-completion", ref |-> 0])
    BY <2>2 DEF JudgeDone
  <2> QED BY <2>1, <2>3
<1>4. CASE StepVerdict(a).code \notin {"ok", "unverified-completion"}
  <2>1. Refuse(a, StepVerdict(a))
    BY <1>1, <1>4 DEF JudgeBy
  <2> QED BY <2>1
<1> QED BY <1>2, <1>3, <1>4

(* A history that is as it was, or one entry longer.                         *)
Grows == UNCHANGED history \/ \E e : history' = Append(history, e)

LEMMA Refusing ==
    ASSUME NEW b, NEW verdict, Refuse(b, verdict), at = "planning"
    PROVE  at' \in {"planning", "ready", "ended"} /\ Grows /\ UNCHANGED asked
BY DEF Refuse, FirstRefusalStands, Remember, Grows

LEMMA Accepting ==
    ASSUME NEW b, NEW ref, Accept(b, ref)
    PROVE  /\ action'.type = b.type /\ action'.ref = ref /\ action'.target = TargetOf(b)
           /\ at' \in {"asked", "executing", "ended"} /\ (at' = "asked" <=> b.type = "ask_user")
           /\ UNCHANGED history
BY DEF Accept, TargetOf

-----------------------------------------------------------------------------
(* What holds of every state.                                                *)

(* What was sent is of the page that was read, which is the one that is      *)
(* there while none has moved.                                               *)
Form ==
    /\ page \in DOMAIN Pages /\ moves \in Nat
    /\ IsList(history) /\ IsList(touched) /\ IsList(clarifications)
    /\ at \in {"ready", "asked", "planning", "executing", "ended"}
    /\ at \in {"planning", "executing"} =>
           /\ sent.of \in DOMAIN Pages
           /\ moves = 0 => sent.of = page

(* What is going to be executed was validated against what was sent.         *)
OnItsWay ==
    at = "executing" /\ action.type \in Addressing => Rightly(sent, action.ref, action.target)

ChoosingInv == Form /\ OnItsWay /\ ActsOnTheOneMeant

(* What a page that stays has been asked of, and what was acted on in it:    *)
(* the user is asked before anything is touched; if the user was not asked,  *)
(* there was nothing to ask, or the backend's model would; what was touched  *)
(* is in the history, and is not addressed again.                            *)
NothingToAsk ==
    ~ModelAsksItself /\ clarifications = <<>> /\ (at \in {"planning", "executing"} \/ touched # <<>>) =>
        DetectAmbiguity(goal, ElementsOf(Sanitized(page, <<>>, goal))) = <<>>

Still ==
    moves = 0 /\ planner # "model" /\ Apart(page) =>
        /\ at = "asked" => touched = <<>>
        /\ NothingToAsk
        /\ \A i \in DOMAIN touched : touched[i].live \in Tried(history)
        /\ at = "executing" /\ action.type \in Addressing => action.ref \notin Tried(history)

StillInv == ChoosingInv /\ Still /\ NeverTwice

-----------------------------------------------------------------------------
(* A list that grows, or not.                                                *)
LEMMA Grown ==
    ASSUME IsList(history), Grows
    PROVE  IsList(history')
<1>1. CASE UNCHANGED history
  BY <1>1 DEF IsList
<1>2. CASE \E e : history' = Append(history, e)
  <2>1. PICK e : history' = Append(history, e)
    BY <1>2
  <2> QED BY <2>1, Appended
<1> QED BY <1>1, <1>2 DEF Grows

(* How a step that plans ends: nothing was accepted, or a validated action   *)
(* is.                                                                       *)
Plans(b) ==
    /\ Checked(b).code = "ok"
    /\ action'.type = b.type /\ action'.ref = Checked(b).ref /\ action'.target = TargetOf(b)
    /\ at' \in {"asked", "executing", "ended"} /\ (at' = "asked" <=> b.type = "ask_user")
    /\ UNCHANGED history

PlansNothing == at' \in {"planning", "ready", "ended"}

LEMMA Planning ==
    ASSUME NEW a, Judge(a), at = "planning"
    PROVE  /\ Grows
           /\ PlansNothing \/ \E b : Plans(b) /\ (b = a \/ (b = Recovered /\ history = <<>>))
<1>1. CASE \E b, verdict : Refuse(b, verdict)
  BY <1>1, Refusing DEF PlansNothing
<1>2. CASE \E b : /\ Accept(b, Checked(b).ref) /\ Checked(b).code = "ok"
                  /\ b = a \/ (b = Recovered /\ history = <<>>)
  <2>1. PICK b : /\ Accept(b, Checked(b).ref) /\ Checked(b).code = "ok"
                 /\ b = a \/ (b = Recovered /\ history = <<>>)
    BY <1>2
  <2>2. Plans(b) /\ UNCHANGED history
    BY <2>1, Accepting DEF Plans
  <2> QED BY <2>1, <2>2 DEF Grows
<1> QED BY <1>1, <1>2, Judging

LEMMA PlanIsRight ==
    ASSUME Form, at = "planning", NEW b, Plans(b), UNCHANGED sent
    PROVE  OnItsWay'
<1> SUFFICES ASSUME at' = "executing", action'.type \in Addressing
             PROVE  Rightly(sent', action'.ref, action'.target)
  BY DEF OnItsWay
<1>1. Checked(b) = ValidateAction(b, ContextOf(sent), AllowedOrigins)
  BY DEF Checked, Context, ContextOf
<1>2. Rightly(sent, Checked(b).ref, TargetOf(b))
  BY <1>1, Validated DEF Plans, Form
<1>3. Rightly(sent', action'.ref, action'.target)
  BY <1>2 DEF Plans
<1> QED BY <1>3

(* The page that is there, and what is there of what was addressed.          *)
Live == Min(Places(Addressed(action.ref)))
There == Numbered(page)[Live]

LEMMA Found ==
    ASSUME page \in DOMAIN Pages, NEW meant, Places(meant) # {}
    PROVE  LET m == Min(Places(meant)) IN
           /\ m \in DOMAIN Numbered(page) /\ m # 0
           /\ Numbered(page)[m].path = meant.path /\ Numbered(page)[m].ref = m
<1>1. /\ DOMAIN Numbered(page) \subseteq Nat \ {0}
      /\ \A i \in DOMAIN Numbered(page) : Numbered(page)[i].ref = i
  BY Walked
<1>2. Places(meant) \subseteq Nat /\ Places(meant) \subseteq DOMAIN Numbered(page)
  BY <1>1 DEF Places
<1>3. Min(Places(meant)) \in Places(meant)
  BY <1>2, Least
<1> QED BY <1>1, <1>2, <1>3 DEF Places

(* An action is executed on the element that is there, or nothing is touched.*)
Touching ==
    touched' = Append(touched,
        [sent |-> sent, ref |-> action.ref, now |-> page, live |-> There.ref,
         target |-> action.target, moved |-> moves, answered |-> clarifications # <<>>])

LEMMA Executing ==
    ASSUME Executes
    PROVE  /\ at = "executing" /\ at' = "ready"
           /\ \E e : history' = Append(history, e)
           /\ \/ UNCHANGED touched
              \/ /\ action.type \in Addressing /\ Places(Addressed(action.ref)) # {}
                 /\ There.role = Addressed(action.ref).role
                 /\ NamesAgree(Addressed(action.ref), There)
                 /\ \E ok : history' = Append(history, [type |-> action.type, ref |-> action.ref, ok |-> ok])
                 /\ Touching
BY DEF Executes, Touches, Remember, Touching, There, Live

LEMMA NameAsSent ==
    ASSUME NEW e, NEW live, NamesAgree(e, live)
    PROVE  e.name = <<>> \/ e.redacted \/ e.cut \/ live.shown = e.name
BY DEF NamesAgree

(* What ActsOnTheOneMeant says of one that was touched.                      *)
Right(t) ==
    /\ t.ref \in t.sent.refs
    /\ Numbered(t.now)[t.live].role = Numbered(t.sent.of)[t.ref].role
    /\ \/ Numbered(t.sent.of)[t.ref].name = <<>>
       \/ Numbered(t.sent.of)[t.ref].redacted \/ Numbered(t.sent.of)[t.ref].cut
       \/ Numbered(t.now)[t.live].shown = Numbered(t.sent.of)[t.ref].name
    /\ t.moved = 0 /\ Apart(t.now) => t.live = t.ref
    /\ Unguessed(t.sent, t.ref, t.target)

LEMMA AllRight == ActsOnTheOneMeant <=> \A i \in DOMAIN touched : Right(touched[i])
BY DEF ActsOnTheOneMeant, Right

LEMMA TouchedRight ==
    ASSUME Form, OnItsWay, ActsOnTheOneMeant, Executes, Touching, action.type \in Addressing,
           Places(Addressed(action.ref)) # {},
           There.role = Addressed(action.ref).role, NamesAgree(Addressed(action.ref), There)
    PROVE  ActsOnTheOneMeant'
<1> DEFINE new == [sent |-> sent, ref |-> action.ref, now |-> page, live |-> There.ref,
                   target |-> action.target, moved |-> moves, answered |-> clarifications # <<>>]
           meant == Addressed(action.ref)
<1>1. There = Numbered(page)[Live] /\ There.ref = Live /\ Live \in DOMAIN Numbered(page) /\ There.path = meant.path
  BY Found DEF There, Live, Form
<1>2. Rightly(sent, action.ref, action.target) /\ sent.of \in DOMAIN Pages /\ (moves = 0 => sent.of = page)
  BY DEF OnItsWay, Form, Executes
<1>3. meant = Numbered(sent.of)[action.ref]
  BY DEF Addressed
<1>4. moves = 0 /\ Apart(page) => Live = action.ref
  BY <1>1, <1>2, <1>3 DEF Apart, Rightly
<1>5. meant.name = <<>> \/ meant.redacted \/ meant.cut \/ There.shown = meant.name
  BY NameAsSent
<1>6. /\ new.sent = sent /\ new.ref = action.ref /\ new.now = page /\ new.live = Live
      /\ new.target = action.target /\ new.moved = moves
  BY <1>1
<1> HIDE DEF new
<1>7. Right(new)
  BY <1>1, <1>2, <1>3, <1>4, <1>5, <1>6 DEF Right, Rightly
<1>8. touched' = Append(touched, new)
  BY DEF Touching, new
<1>9. /\ Len(touched) \in Nat /\ DOMAIN touched = 1 .. Len(touched) /\ DOMAIN touched' = 1 .. Len(touched) + 1
      /\ \A i \in DOMAIN touched : touched'[i] = touched[i]
      /\ touched'[Len(touched) + 1] = new
  BY <1>8, Appended DEF Form
<1>10. \A i \in DOMAIN touched' : Right(touched'[i])
  <2>1. \A i \in DOMAIN touched : Right(touched[i])
    BY AllRight
  <2> SUFFICES ASSUME NEW i \in DOMAIN touched' PROVE Right(touched'[i])
    OBVIOUS
  <2>2. CASE i = Len(touched) + 1
    BY <2>2, <1>7, <1>9
  <2>3. CASE i \in DOMAIN touched
    BY <2>1, <2>3, <1>9
  <2> QED BY <1>9, <2>2, <2>3
<1>11. ActsOnTheOneMeant' <=> \A i \in DOMAIN touched' : Right(touched'[i])
  BY DEF ActsOnTheOneMeant, Right
<1> QED BY <1>10, <1>11

-----------------------------------------------------------------------------
(* Every action preserves the form.                                          *)

LEMMA PlanningForm ==
    ASSUME Form, at = "planning", Grows, at' \in {"asked", "planning", "ready", "executing", "ended"},
           UNCHANGED <<page, clarifications, sent, moves, touched>>
    PROVE  Form'
<1>1. IsList(history')
  BY Grown DEF Form
<1> QED BY <1>1 DEF Form, IsList

LEMMA FormStep ==
    ASSUME Form, [Next]_vars
    PROVE  Form'
<1>1. CASE UNCHANGED vars
  BY <1>1 DEF Form, IsList, vars
<1>2. CASE Reads
  <2>1. sent'.of = page
    BY <1>2 DEF Reads, Sanitized
  <2>2. at' \in {"asked", "planning"}
    BY <1>2 DEF Reads
  <2>3. UNCHANGED <<page, history, clarifications, moves, touched>>
    BY <1>2 DEF Reads
  <2> QED BY <2>1, <2>2, <2>3 DEF Form, IsList
<1>3. CASE PlansWithout
  <2>1. PICK a : Judge(a) /\ at = "planning"
    BY <1>3 DEF PlansWithout
  <2>2. Grows /\ at' \in {"asked", "planning", "ready", "executing", "ended"}
    BY <2>1, Planning DEF Plans, PlansNothing
  <2> QED BY <1>3, <2>1, <2>2, PlanningForm DEF PlansWithout
<1>4. CASE PageMoves
  BY <1>4 DEF PageMoves, Form, IsList
<1>5. CASE Executes
  <2>1. at' = "ready" /\ UNCHANGED <<page, clarifications, moves>>
    BY <1>5 DEF Executes, Touches, Remember
  <2>2. IsList(history')
    <3>1. PICK e : history' = Append(history, e)
      BY <1>5, Executing
    <3> QED BY <3>1, Appended DEF Form
  <2>3. IsList(touched')
    <3>1. UNCHANGED touched \/ \E e : touched' = Append(touched, e)
      BY <1>5, Executing DEF Touching
    <3>2. CASE UNCHANGED touched
      BY <3>2 DEF Form, IsList
    <3>3. CASE \E e : touched' = Append(touched, e)
      <4>1. PICK e : touched' = Append(touched, e)
        BY <3>3
      <4> QED BY <4>1, Appended DEF Form
    <3> QED BY <3>1, <3>2, <3>3
  <2> QED BY <2>1, <2>2, <2>3 DEF Form, IsList
<1>6. ASSUME NEW answer, UserAnswers(answer) PROVE Form'
  <2>1. at' = "ready" /\ history' = <<>> /\ UNCHANGED <<page, moves, touched>>
    BY <1>6 DEF UserAnswers
  <2>2. IsList(clarifications')
    <3>1. PICK e : clarifications' = Append(clarifications, e)
      BY <1>6 DEF UserAnswers
    <3> QED BY <3>1, Appended DEF Form
  <2> QED BY <2>1, <2>2, NoneYet DEF Form, IsList
<1>7. ASSUME NEW raw, ModelReplies(raw) PROVE Form'
  <2>1. CASE ParseAction(raw).code = "ok"
    <3>1. PICK a : Judge(a) /\ at = "planning"
      BY <1>7, <2>1 DEF ModelReplies
    <3>2. Grows /\ at' \in {"asked", "planning", "ready", "executing", "ended"}
      BY <3>1, Planning DEF Plans, PlansNothing
    <3> QED BY <1>7, <3>1, <3>2, PlanningForm DEF ModelReplies
  <2>2. CASE ParseAction(raw).code # "ok"
    <3>1. Grows /\ at' \in {"planning", "ready", "ended"} /\ at = "planning"
      BY <1>7, <2>2 DEF ModelReplies, FirstRefusalStands, Remember, Grows
    <3> QED BY <1>7, <3>1, PlanningForm DEF ModelReplies
  <2> QED BY <2>1, <2>2
<1> QED BY <1>1, <1>2, <1>3, <1>4, <1>5, <1>6, <1>7 DEF Next

-----------------------------------------------------------------------------
(* What is touched is what the plan meant.                                   *)

LEMMA ChoosingStep ==
    ASSUME ChoosingInv, [Next]_vars
    PROVE  ChoosingInv'
<1>1. Form'
  BY FormStep DEF ChoosingInv
<1>2. ASSUME UNCHANGED touched PROVE ActsOnTheOneMeant'
  BY <1>2 DEF ChoosingInv, ActsOnTheOneMeant
<1>3. ASSUME at' # "executing" PROVE OnItsWay'
  BY <1>3 DEF OnItsWay
<1>4. ASSUME NEW a, Judge(a), at = "planning", UNCHANGED <<sent, touched>> PROVE ChoosingInv'
  <2>1. OnItsWay'
    <3>1. PlansNothing \/ \E b : Plans(b)
      BY <1>4, Planning
    <3>2. CASE PlansNothing
      BY <3>2, <1>3 DEF PlansNothing
    <3>3. CASE \E b : Plans(b)
      <4>1. PICK b : Plans(b)
        BY <3>3
      <4> QED BY <4>1, <1>4, PlanIsRight DEF ChoosingInv
    <3> QED BY <3>1, <3>2, <3>3
  <2> QED BY <1>1, <1>2, <1>4, <2>1 DEF ChoosingInv
<1>5. CASE UNCHANGED vars
  BY <1>1, <1>2, <1>5 DEF ChoosingInv, OnItsWay, vars
<1>6. CASE Reads
  BY <1>1, <1>2, <1>3, <1>6 DEF Reads, ChoosingInv
<1>7. CASE PlansWithout
  <2>1. PICK a : Judge(a)
    BY <1>7 DEF PlansWithout
  <2> QED BY <1>4, <1>7, <2>1 DEF PlansWithout
<1>8. CASE PageMoves
  <2>1. UNCHANGED <<at, action, sent, touched>>
    BY <1>8 DEF PageMoves
  <2> QED BY <1>1, <1>2, <2>1 DEF ChoosingInv, OnItsWay
<1>9. CASE Executes
  <2>1. OnItsWay'
    BY <1>3, <1>9, Executing
  <2>2. ActsOnTheOneMeant'
    <3>1. CASE UNCHANGED touched
      BY <1>2, <3>1
    <3>2. CASE Touching
      <4>1. CASE UNCHANGED touched
        BY <1>2, <4>1
      <4>2. CASE ~UNCHANGED touched
        BY <1>9, <4>2, Executing, TouchedRight DEF ChoosingInv
      <4> QED BY <4>1, <4>2
    <3> QED BY <1>9, <3>1, <3>2, Executing
  <2> QED BY <1>1, <2>1, <2>2 DEF ChoosingInv
<1>10. ASSUME NEW answer, UserAnswers(answer) PROVE ChoosingInv'
  BY <1>1, <1>2, <1>3, <1>10 DEF UserAnswers, ChoosingInv
<1>11. ASSUME NEW raw, ModelReplies(raw) PROVE ChoosingInv'
  <2>1. CASE ParseAction(raw).code = "ok"
    <3>1. PICK a : Judge(a)
      BY <1>11, <2>1 DEF ModelReplies
    <3> QED BY <1>4, <1>11, <3>1 DEF ModelReplies
  <2>2. CASE ParseAction(raw).code # "ok"
    <3>1. at' # "executing" /\ UNCHANGED touched
      BY <1>11, <2>2 DEF ModelReplies, FirstRefusalStands, Remember
    <3> QED BY <1>1, <1>2, <1>3, <3>1 DEF ChoosingInv
  <2> QED BY <2>1, <2>2
<1> QED BY <1>5, <1>6, <1>7, <1>8, <1>9, <1>10, <1>11 DEF Next

LEMMA ChoosingStart == Init => ChoosingInv
<1> SUFFICES ASSUME Init PROVE ChoosingInv
  OBVIOUS
<1>1. Form
  BY NoneYet DEF Init, Form
<1>2. OnItsWay /\ ActsOnTheOneMeant
  BY NoneYet DEF Init, OnItsWay, ActsOnTheOneMeant
<1> QED BY <1>1, <1>2 DEF ChoosingInv

THEOREM ChosenInvariant == Spec => []ChoosingInv
<1>1. Init => ChoosingInv
  BY ChoosingStart
<1>2. ChoosingInv /\ [Next]_vars => ChoosingInv'
  BY ChoosingStep
<1> QED BY <1>1, <1>2, PTL DEF Spec

(* What is touched has the role and, as far as it was sent, the name of the  *)
(* element that the plan named, is that very element on a page that did not  *)
(* move, and was not guessed.                                                *)
THEOREM TouchesTheOneMeant == Spec => []ActsOnTheOneMeant
<1>1. ChoosingInv => ActsOnTheOneMeant
  BY DEF ChoosingInv
<1> QED BY <1>1, ChosenInvariant, PTL

-----------------------------------------------------------------------------
(* The planners without a model plan a `done`, or name by its ref an element *)
(* that was not acted on.                                                    *)

Plain(a, tried) ==
    /\ "target" \notin DOMAIN a
    /\ a.type \in {"done", "click", "type"}
    /\ a.type \in Addressing => a.ref \notin tried

LEMMA LeastIsOne ==
    ASSUME NEW pool, pool # {}, {e.ref : e \in pool} \subseteq Nat
    PROVE  \E e \in pool : Min({d.ref : d \in pool}) = e.ref
<1> DEFINE R == {e.ref : e \in pool}
<1>1. R \subseteq Nat /\ R # {}
  OBVIOUS
<1> HIDE DEF R
<1>2. Min(R) \in R
  BY <1>1, Least
<1> QED BY <1>2 DEF R

LEMMA FieldsAreUntried ==
    ASSUME NEW elements, {e.ref : e \in elements} \subseteq Nat, NEW tried, NEW text,
           Field(elements, tried) # {}
    PROVE  Plain(TypesInto(Field(elements, tried), text), tried)
<1> DEFINE field == Field(elements, tried)
<1>1. field \subseteq elements /\ \A e \in field : e.ref \notin tried
  BY DEF Field
<1> HIDE DEF field
<1>2. {e.ref : e \in field} \subseteq Nat /\ field # {}
  BY <1>1 DEF field
<1>3. Min({e.ref : e \in field}) \notin tried
  BY <1>1, <1>2, LeastIsOne
<1> QED BY <1>3 DEF Plain, TypesInto, field

LEMMA ClicksAreUntried ==
    ASSUME NEW elements, {e.ref : e \in elements} \subseteq Nat, NEW tried, NEW clickable, NEW score
    PROVE  Plain(BestClick(elements, clickable, score, tried), tried)
<1> DEFINE acted == {e \in elements : e.ref \in tried}
           open == {e \in elements :
                       /\ e.role \in clickable /\ Usable(e) /\ e.ref \notin tried
                       /\ score[e] > 0 /\ \A d \in acted : score[d] < score[e]}
           best == {e \in open : \A d \in open : score[d] <= score[e]}
<1>1. best \subseteq elements /\ \A e \in best : e.ref \notin tried
  OBVIOUS
<1>2. BestClick(elements, clickable, score, tried) =
          IF best = {} THEN Done ELSE [type |-> "click", ref |-> Min({e.ref : e \in best})]
  BY DEF BestClick
<1> HIDE DEF best
<1>3. CASE best = {}
  BY <1>2, <1>3 DEF Plain, Done, Addressing
<1>4. CASE best # {}
  <2>1. {e.ref : e \in best} \subseteq Nat
    BY <1>1
  <2>2. Min({e.ref : e \in best}) \notin tried
    BY <1>1, <1>4, <2>1, LeastIsOne
  <2> QED BY <1>2, <1>4, <2>2 DEF Plain
<1> QED BY <1>3, <1>4

LEMMA PlansAreUntried ==
    ASSUME NEW elements, {e.ref : e \in elements} \subseteq Nat, NEW g, NEW past
    PROVE  /\ Plain(DevicePlan(elements, g, past), Tried(past))
           /\ Plain(HeuristicPlan(elements, g, past), Tried(past))
           /\ past = <<>> => Plain(RecoverTextAction(elements, g), Tried(past))
<1>1. \A tried : Plain(Done, tried)
  BY DEF Plain, Done, Addressing
<1>2. ASSUME NEW clickable, NEW score
      PROVE  Plain(PlanWithout(elements, g, past, clickable, score), Tried(past))
  <2>1. \/ PlanWithout(elements, g, past, clickable, score) = Done
        \/ /\ Field(elements, Tried(past)) # {}
           /\ PlanWithout(elements, g, past, clickable, score) =
                  TypesInto(Field(elements, Tried(past)), TextIntent(g))
        \/ PlanWithout(elements, g, past, clickable, score) =
               BestClick(elements, clickable, score, Tried(past))
    BY DEF PlanWithout
  <2> QED BY <1>1, <2>1, FieldsAreUntried, ClicksAreUntried
<1>3. past = <<>> => Tried(past) = {}
  BY DEF Tried
<1>4. \/ RecoverTextAction(elements, g) = Done
      \/ /\ Field(elements, {}) # {}
         /\ RecoverTextAction(elements, g) = TypesInto(Field(elements, {}), TextIntent(g))
  BY DEF RecoverTextAction
<1>5. Plain(RecoverTextAction(elements, g), {})
  BY <1>1, <1>4, FieldsAreUntried
<1> QED BY <1>2, <1>3, <1>5 DEF DevicePlan, HeuristicPlan

(* A plan that names its element by ref is about that ref.                   *)
LEMMA RefAsPlanned ==
    ASSUME NEW b, NEW tried, Plain(b, tried), Plans(b)
    PROVE  at' # "asked" /\ (action'.type \in Addressing => action'.ref \notin tried)
<1>1. b.type \in Addressing => Checked(b).ref = b.ref
  BY DEF Checked, ValidateAction, Plain
<1> QED BY <1>1 DEF Plain, Plans

-----------------------------------------------------------------------------
(* A planner without a model touches nothing twice.                          *)

(* What was tried stays tried.                                               *)
LEMMA TriedStays ==
    ASSUME IsList(history), NEW e, history' = Append(history, e)
    PROVE  /\ Tried(history) \subseteq Tried(history')
           /\ e.ref # 0 => e.ref \in Tried(history')
<1>1. /\ Len(history) \in Nat /\ DOMAIN history' = 1 .. Len(history) + 1
      /\ \A i \in DOMAIN history : i \in DOMAIN history' /\ history'[i] = history[i]
      /\ history'[Len(history) + 1] = e
  BY Appended
<1>2. \A i \in DOMAIN history' : history'[i].ref # 0 => history'[i].ref \in Tried(history')
  BY DEF Tried
<1>3. Len(history) + 1 \in DOMAIN history'
  BY <1>1
<1>4. \A i \in DOMAIN history : history[i].ref # 0 => history[i].ref \in Tried(history')
  BY <1>1, <1>2
<1> QED BY <1>1, <1>2, <1>3, <1>4 DEF Tried

LEMMA GrowingTried ==
    ASSUME IsList(history), Grows
    PROVE  Tried(history) \subseteq Tried(history')
<1>1. CASE UNCHANGED history
  BY <1>1
<1>2. CASE \E e : history' = Append(history, e)
  BY <1>2, TriedStays
<1> QED BY <1>1, <1>2 DEF Grows

(* One more element that was not touched before.                             *)
LEMMA TouchingStill ==
    ASSUME Form, OnItsWay, Still, NeverTwice, Executes, Touching, action.type \in Addressing,
           Places(Addressed(action.ref)) # {},
           NEW ok, history' = Append(history, [type |-> action.type, ref |-> action.ref, ok |-> ok]),
           moves = 0, planner # "model", Apart(page)
    PROVE  /\ \A i \in DOMAIN touched' : touched'[i].live \in Tried(history')
           /\ \A i, j \in DOMAIN touched' : i # j => touched'[i].live # touched'[j].live
<1> DEFINE new == [sent |-> sent, ref |-> action.ref, now |-> page, live |-> There.ref,
                   target |-> action.target, moved |-> moves, answered |-> clarifications # <<>>]
           entry == [type |-> action.type, ref |-> action.ref, ok |-> ok]
<1>1. There.ref = Live /\ Live \in DOMAIN Numbered(page) /\ There.path = Addressed(action.ref).path /\ Live # 0
  BY Found DEF There, Live, Form
<1>2. sent.of = page /\ action.ref \in DOMAIN Numbered(page)
  BY DEF Form, OnItsWay, Rightly, Executes
<1>3. new.live = action.ref /\ action.ref # 0
  BY <1>1, <1>2 DEF Apart, Addressed, There, Live
<1>4. action.ref \notin Tried(history) /\ \A i \in DOMAIN touched : touched[i].live \in Tried(history)
  BY DEF Still, Executes
<1>5. entry.ref = action.ref
  OBVIOUS
<1> HIDE DEF new, entry
<1>6. touched' = Append(touched, new) /\ history' = Append(history, entry)
  BY DEF Touching, new, entry
<1>7. Tried(history) \subseteq Tried(history') /\ action.ref \in Tried(history')
  BY <1>3, <1>5, <1>6, TriedStays DEF Form
<1>8. /\ Len(touched) \in Nat /\ DOMAIN touched = 1 .. Len(touched) /\ DOMAIN touched' = 1 .. Len(touched) + 1
      /\ \A i \in DOMAIN touched : touched'[i] = touched[i]
      /\ touched'[Len(touched) + 1] = new
  BY <1>6, Appended DEF Form
<1>9. \A i \in DOMAIN touched' : i = Len(touched) + 1 \/ i \in DOMAIN touched
  BY <1>8
<1>10. \A i, j \in DOMAIN touched : i # j => touched[i].live # touched[j].live
  BY DEF NeverTwice
<1>11. \A i \in DOMAIN touched' : touched'[i].live \in Tried(history')
  BY <1>3, <1>4, <1>7, <1>8, <1>9
<1>12. \A i, j \in DOMAIN touched' : i # j => touched'[i].live # touched'[j].live
  BY <1>3, <1>4, <1>8, <1>9, <1>10
<1> QED BY <1>11, <1>12

LEMMA PlanningStill ==
    ASSUME Form, Still, at = "planning", planner # "model", Apart(page), moves = 0,
           NEW a, Judge(a),
           a = IF planner = "device" THEN DevicePlan(Context.elements, goal, history)
                                     ELSE HeuristicPlan(Context.elements, goal, history),
           UNCHANGED <<page, goal, planner, backend, clarifications, moves, touched>>
    PROVE  Still'
<1>1. {e.ref : e \in Context.elements} \subseteq Nat
  BY Sends DEF Context, Form
<1>2. Plain(a, Tried(history)) /\ (history = <<>> => Plain(Recovered, Tried(history)))
  BY <1>1, PlansAreUntried DEF Recovered
<1>3. /\ Grows
      /\ PlansNothing \/ \E b : Plans(b) /\ (b = a \/ (b = Recovered /\ history = <<>>))
  BY Planning
<1>4. CASE PlansNothing
  <2>1. Tried(history) \subseteq Tried(history')
    BY <1>3, GrowingTried DEF Form
  <2> QED BY <1>4, <2>1 DEF PlansNothing, Still, NothingToAsk, ModelAsksItself
<1>5. CASE ~PlansNothing
  <2>1. PICK b : Plans(b) /\ (b = a \/ (b = Recovered /\ history = <<>>))
    BY <1>3, <1>5
  <2>2. Plain(b, Tried(history))
    BY <1>2, <2>1
  <2>3. at' # "asked" /\ (action'.type \in Addressing => action'.ref \notin Tried(history))
    BY <2>1, <2>2, RefAsPlanned
  <2>4. UNCHANGED history
    BY <2>1 DEF Plans
  <2> QED BY <2>3, <2>4 DEF Still, NothingToAsk, ModelAsksItself
<1> QED BY <1>4, <1>5

(* Not on a page that stays.                                                 *)
LEMMA StillIfMoved ==
    ASSUME ~(moves' = 0 /\ planner' # "model" /\ Apart(page'))
    PROVE  Still' /\ NeverTwice'
BY DEF Still, NeverTwice

(* As it was, as far as that is concerned.                                   *)
LEMMA StillAsBefore ==
    ASSUME Still, NeverTwice, IsList(history), Grows, UNCHANGED <<page, planner, moves, touched>>,
           at' # "asked", at' # "executing", NothingToAsk'
    PROVE  Still' /\ NeverTwice'
<1>1. Tried(history) \subseteq Tried(history')
  BY GrowingTried
<1> QED BY <1>1 DEF Still, NeverTwice

LEMMA StillStep ==
    ASSUME StillInv, [Next]_vars
    PROVE  StillInv'
<1> USE DEF StillInv
<1>1. ChoosingInv' /\ Form /\ OnItsWay
  BY ChoosingStep DEF ChoosingInv
<1>2. ASSUME moves = 0, planner # "model", Apart(page), UNCHANGED <<page, planner, moves>>
      PROVE  Still' /\ NeverTwice'
  <2>1. CASE UNCHANGED vars
    BY <2>1 DEF Still, NeverTwice, NothingToAsk, ModelAsksItself, vars
  <2>2. CASE Reads
    <3>1. /\ at' \in {"asked", "planning"}
          /\ UNCHANGED <<page, goal, planner, backend, clarifications, history, moves, touched>>
      BY <2>2 DEF Reads
    <3>2. /\ clarifications = <<>> => sent' = Sanitized(page, <<>>, goal)
          /\ IF ~ModelAsksItself /\ clarifications = <<>> /\ DetectAmbiguity(goal, ElementsOf(sent')) # <<>>
             THEN at' = "asked" ELSE at' = "planning"
      BY <1>2, <2>2 DEF Reads
    <3>3. CASE at' = "asked"
      <4>1. /\ ~ModelAsksItself /\ clarifications = <<>>
            /\ DetectAmbiguity(goal, ElementsOf(Sanitized(page, <<>>, goal))) # <<>>
        BY <3>2, <3>3
      <4>2. touched = <<>>
        BY <1>2, <4>1 DEF Still, NothingToAsk
      <4> QED BY <1>2, <3>1, <3>3, <4>2, NoneYet DEF Still, NeverTwice, NothingToAsk
    <3>4. CASE at' = "planning"
      <4>1. ~ModelAsksItself /\ clarifications = <<>> =>
                DetectAmbiguity(goal, ElementsOf(Sanitized(page, <<>>, goal))) = <<>>
        BY <3>2, <3>4
      <4> QED BY <1>2, <3>1, <3>4, <4>1 DEF Still, NeverTwice, NothingToAsk, ModelAsksItself
    <3> QED BY <3>1, <3>3, <3>4
  <2>3. CASE PlansWithout
    <3>1. PICK a : /\ Judge(a)
                   /\ a = IF planner = "device" THEN DevicePlan(Context.elements, goal, history)
                                                ELSE HeuristicPlan(Context.elements, goal, history)
      BY <2>3 DEF PlansWithout
    <3>2. at = "planning" /\ UNCHANGED <<page, goal, planner, backend, clarifications, moves, touched>>
      BY <1>2, <2>3 DEF PlansWithout
    <3>3. Still'
      BY <1>1, <1>2, <3>1, <3>2, PlanningStill
    <3> QED BY <3>2, <3>3 DEF NeverTwice
  <2>4. CASE PageMoves
    BY <1>1, <1>2, <2>4 DEF PageMoves, Form
  <2>5. CASE Executes
    <3>1. at = "executing" /\ at' = "ready" /\ Grows
      BY <2>5, Executing DEF Grows
    <3>2. UNCHANGED <<page, goal, planner, backend, clarifications, moves>>
      BY <2>5 DEF Executes
    <3>3. NothingToAsk'
      BY <1>2, <3>1, <3>2 DEF Still, NothingToAsk, ModelAsksItself
    <3>4. CASE UNCHANGED touched
      BY <1>1, <3>1, <3>2, <3>3, <3>4, StillAsBefore DEF Form
    <3>5. CASE ~UNCHANGED touched
      <4>1. PICK ok : /\ action.type \in Addressing /\ Places(Addressed(action.ref)) # {} /\ Touching
                      /\ history' = Append(history, [type |-> action.type, ref |-> action.ref, ok |-> ok])
        BY <2>5, <3>5, Executing
      <4>2. /\ \A i \in DOMAIN touched' : touched'[i].live \in Tried(history')
            /\ \A i, j \in DOMAIN touched' : i # j => touched'[i].live # touched'[j].live
        BY <1>1, <1>2, <2>5, <4>1, TouchingStill
      <4> QED BY <3>1, <3>2, <3>3, <4>2 DEF Still, NeverTwice
    <3> QED BY <3>4, <3>5
  <2>6. ASSUME NEW answer, UserAnswers(answer) PROVE Still' /\ NeverTwice'
    <3>1. at = "asked" /\ at' = "ready" /\ UNCHANGED touched
      BY <2>6 DEF UserAnswers
    <3>2. touched' = <<>>
      BY <1>2, <3>1 DEF Still
    <3> QED BY <3>1, <3>2, NoneYet DEF Still, NeverTwice, NothingToAsk
  <2>7. ASSUME NEW raw, ModelReplies(raw) PROVE Still' /\ NeverTwice'
    BY <1>2, <2>7 DEF ModelReplies
  <2> QED BY <2>1, <2>2, <2>3, <2>4, <2>5, <2>6, <2>7 DEF Next
<1>3. ASSUME ~(moves = 0 /\ planner # "model" /\ Apart(page) /\ UNCHANGED <<page, planner, moves>>)
      PROVE  Still' /\ NeverTwice'
  <2>1. UNCHANGED <<page, planner, moves>> \/ PageMoves
    <3>1. CASE UNCHANGED vars
      BY <3>1 DEF vars
    <3>2. CASE Reads
      BY <3>2 DEF Reads
    <3>3. CASE PlansWithout
      BY <3>3 DEF PlansWithout
    <3>4. CASE Executes
      BY <3>4 DEF Executes
    <3>5. ASSUME NEW answer, UserAnswers(answer) PROVE UNCHANGED <<page, planner, moves>>
      BY <3>5 DEF UserAnswers
    <3>6. ASSUME NEW raw, ModelReplies(raw) PROVE UNCHANGED <<page, planner, moves>>
      BY <3>6 DEF ModelReplies
    <3> QED BY <3>1, <3>2, <3>3, <3>4, <3>5, <3>6 DEF Next
  <2>2. PageMoves => moves' # 0
    BY <1>1 DEF PageMoves, Form
  <2>3. ~(moves' = 0 /\ planner' # "model" /\ Apart(page'))
    BY <1>3, <2>1, <2>2
  <2> QED BY <2>3, StillIfMoved
<1> QED BY <1>1, <1>2, <1>3

LEMMA StillStart == Init => StillInv
<1> SUFFICES ASSUME Init PROVE StillInv
  OBVIOUS
<1>1. ChoosingInv
  BY ChoosingStart
<1>2. Still /\ NeverTwice
  BY NoneYet DEF Init, Still, NothingToAsk, NeverTwice
<1> QED BY <1>1, <1>2 DEF StillInv

(* A planner without a model acts on no element twice, on a page that does   *)
(* not move and whose paths lead apart.                                      *)
THEOREM NothingTwice == Spec => []NeverTwice
<1>1. Init => StillInv
  BY StillStart
<1>2. StillInv /\ [Next]_vars => StillInv'
  BY StillStep
<1>3. StillInv => NeverTwice
  BY DEF StillInv
<1> QED BY <1>1, <1>2, <1>3, PTL DEF Spec

-----------------------------------------------------------------------------
(* What is kept of a sequence.                                               *)

KeepStep(c, out, i) == IF i \in c.keep THEN Append(out, c.text[i]) ELSE out
Keeping == INSTANCE FoldFacts WITH Op <- KeepStep, Base <- LAMBDA c : <<>>

(* The places of a sequence in turn, and what is kept of it as a fold.       *)
LEMMA KeptFold ==
    ASSUME NEW S, NEW s \in Seq(S), NEW keep
    PROVE  LET is == [i \in 1..Len(s) |-> i]
               c == [text |-> s, keep |-> keep]
           IN /\ Len(s) \in Nat /\ DOMAIN is = 1..Len(s) /\ \A n \in 1..Len(s) : is[n] = n
              /\ Kept(s, keep) = Keeping!Fold(c, is)
              /\ \A out, i : KeepStep(c, out, i) = IF i \in keep THEN Append(out, s[i]) ELSE out
BY DEF Kept, Keeping!Fold, Keeping!FoldOn, FoldLeft, MapThenFoldSet, Max, Keeping!Top, KeepStep

(* It is made of the elements at the places that are kept.                   *)
LEMMA KeptOf ==
    ASSUME NEW S, NEW s \in Seq(S), NEW keep
    PROVE  Kept(s, keep) \in Seq({s[n] : n \in keep \cap DOMAIN s})
<1> DEFINE N == Len(s)
           is == [i \in 1..N |-> i]
           c == [text |-> s, keep |-> keep]
           T == {s[n] : n \in keep \cap DOMAIN s}
<1>1. /\ N \in Nat /\ DOMAIN is = 1..N /\ \A n \in 1..N : is[n] = n
      /\ Kept(s, keep) = Keeping!Fold(c, is)
      /\ \A out, i : KeepStep(c, out, i) = IF i \in keep THEN Append(out, s[i]) ELSE out
  BY KeptFold
<1>2. \A n \in 1..N : n \in keep => s[n] \in T
  OBVIOUS
<1> HIDE DEF is, N, c, T
<1>3. \A n \in 1..N : \A x \in Seq(T) : KeepStep(c, x, is[n]) \in Seq(T)
  BY <1>1, <1>2
<1>4. <<>> \in Seq(T)
  OBVIOUS
<1>5. N \in Nat /\ DOMAIN is = 1..N /\ Kept(s, keep) = Keeping!Fold(c, is)
  BY <1>1
<1>6. Kept(s, keep) \in Seq(T)
  BY <1>3, <1>4, <1>5, Keeping!Stays
<1> QED BY <1>6 DEF T

(* All of it, when all places are.                                           *)
LEMMA KeptAll ==
    ASSUME NEW S, NEW s \in Seq(S), NEW keep, \A n \in 1..Len(s) : n \in keep
    PROVE  Kept(s, keep) = s
<1> DEFINE N == Len(s)
           is == [i \in 1..N |-> i]
           c == [text |-> s, keep |-> keep]
           part == [n \in 0..N |-> SubSeq(s, 1, n)]
           States == [n \in 0..N |-> {part[n]}]
<1>1. /\ N \in Nat /\ DOMAIN is = 1..N /\ \A n \in 1..N : is[n] = n
      /\ Kept(s, keep) = Keeping!Fold(c, is)
      /\ \A out, i : KeepStep(c, out, i) = IF i \in keep THEN Append(out, s[i]) ELSE out
  BY KeptFold
<1>2. part[0] = <<>> /\ part[N] = s
  BY <1>1, SubSeqEmpty, SubSeqFull
<1>3. ASSUME NEW n \in 1..N PROVE part[n] = Append(part[n - 1], s[n])
  <2>1. SubSeq(s, 1, n) = SubSeq(s, 1, n - 1) \o <<s[n]>>
    <3>1. 1 \in 1..Len(s) /\ n \in 1..Len(s)
      BY <1>1
    <3> QED BY <3>1, SubSeqRecursiveSecond
  <2>2. s[n] \in S /\ SubSeq(s, 1, n - 1) \in Seq(S)
    BY <1>1
  <2>3. Append(SubSeq(s, 1, n - 1), s[n]) = SubSeq(s, 1, n - 1) \o <<s[n]>>
    BY <2>2
  <2>4. part[n] = SubSeq(s, 1, n) /\ part[n - 1] = SubSeq(s, 1, n - 1)
    BY <1>1
  <2> QED BY <2>1, <2>3, <2>4
<1>4. \A n \in 0..N : States[n] = {part[n]}
  OBVIOUS
<1>5. \A n \in 1..N : n \in keep /\ n \in 0..N /\ n - 1 \in 0..N
  BY <1>1
<1>6. 0 \in 0..N /\ N \in 0..N
  BY <1>1
<1> HIDE DEF is, N, c, part, States
<1>7. ASSUME NEW n \in 1..N, NEW x \in States[n - 1] PROVE KeepStep(c, x, is[n]) \in States[n]
  <2>1. x = part[n - 1] /\ is[n] = n /\ n \in keep
    BY <1>1, <1>4, <1>5
  <2>2. KeepStep(c, x, is[n]) = Append(part[n - 1], s[n])
    BY <1>1, <2>1
  <2> QED BY <1>3, <1>4, <1>5, <2>2
<1>8. <<>> \in States[0]
  BY <1>2, <1>4, <1>6
<1>9. Kept(s, keep) \in States[N]
  BY <1>1, <1>7, <1>8, Keeping!Passes
<1> QED BY <1>2, <1>4, <1>6, <1>9

-----------------------------------------------------------------------------
(* The elements that are sent are of those an answer leaves.                 *)

LEMMA NumberedSeq ==
    ASSUME NEW n \in DOMAIN Pages
    PROVE  /\ Numbered(n) \in Seq(ToSet(Numbered(n)))
           /\ Len(Numbered(n)) = Len(Pages[n].elements) /\ Len(Numbered(n)) \in Nat
           /\ DOMAIN Numbered(n) = 1..Len(Numbered(n))
<1> DEFINE s == Pages[n].elements
<1>1. s \in Seq(ToSet(s))
  BY ChoosingAssumption
<1>2. Len(s) \in Nat /\ DOMAIN s = 1..Len(s)
  BY <1>1
<1>3. DOMAIN Numbered(n) = 1..Len(s)
  BY <1>2 DEF Numbered
<1>4. \E N \in Nat : Numbered(n) \in [1..N -> ToSet(Numbered(n))] /\ N = Len(s)
  <2>1. Numbered(n) = [i \in 1..Len(s) |-> Numbered(n)[i]]
    BY <1>2 DEF Numbered
  <2>2. \A i \in 1..Len(s) : Numbered(n)[i] \in ToSet(Numbered(n))
    BY <1>3 DEF ToSet
  <2> QED BY <1>2, <2>1, <2>2
<1> QED BY <1>2, <1>4

LEMMA BudgetKeeps ==
    ASSUME NEW S, NEW all \in Seq(S), NEW terms, NEW withImage
    PROVE  ToSet(ApplyElementBudget(all, terms, withImage).kept) \subseteq ToSet(all)
<1> DEFINE places == [i \in DOMAIN all |-> i]
           D == DOMAIN all
<1>1. places \in Seq(D) /\ DOMAIN places = D
  OBVIOUS
<1>2. Survivors(all) \in Seq(D)
  <2> HIDE DEF D
  <2>1. Kept(places, D \ Collapsed(all)) \in Seq({places[n] : n \in (D \ Collapsed(all)) \cap DOMAIN places})
    BY <1>1, KeptOf
  <2>2. {places[n] : n \in (D \ Collapsed(all)) \cap DOMAIN places} \subseteq D
    BY <1>1
  <2> QED BY <2>1, <2>2 DEF Survivors, D
<1> HIDE DEF places
<1>3. ASSUME NEW removed PROVE ToSet(Remaining(all, removed)) \subseteq ToSet(all)
  <2> DEFINE s == Survivors(all)
             keep == {n \in DOMAIN s : s[n] \notin removed}
             left == Kept(s, keep)
  <2>1. Remaining(all, removed) = [k \in DOMAIN left |-> all[left[k]]]
    BY DEF Remaining, Those
  <2>2. left \in Seq(D)
    <3>1. s \in Seq(D)
      BY <1>2
    <3> HIDE DEF s, keep, D
    <3>2. left \in Seq({s[n] : n \in keep \cap DOMAIN s})
      BY <3>1, KeptOf
    <3>3. {s[n] : n \in keep \cap DOMAIN s} \subseteq D
      BY <3>1
    <3> QED BY <3>2, <3>3
  <2> HIDE DEF left
  <2>3. \A k \in DOMAIN left : left[k] \in D
    BY <2>2
  <2> QED BY <2>1, <2>3 DEF ToSet
<1>4. \E removed : ApplyElementBudget(all, terms, withImage).kept = Remaining(all, removed)
  <2>1. \E removed, cost, shot, boxes, collapsed :
            ApplyElementBudget(all, terms, withImage) =
                [kept |-> Remaining(all, removed), estimated |-> cost, screenshotDropped |-> shot,
                 geometryOmitted |-> boxes, dropped |-> removed, collapsed |-> collapsed]
    BY ZenonT(60) DEF ApplyElementBudget
  <2> QED BY <2>1
<1> QED BY <1>3, <1>4

NarrowStep(c, current, said) == NarrowOnce(current, said, c.goal)
Narrowing == INSTANCE FoldFacts WITH Op <- NarrowStep, Base <- LAMBDA c : c.elements

(* Without an answer nothing is removed, and one narrows once.               *)
LEMMA NarrowedBy ==
    ASSUME NEW elements, NEW g
    PROVE  /\ NarrowByClarification(elements, <<>>, g) = elements
           /\ \A said : NarrowByClarification(elements, <<said>>, g) = NarrowOnce(elements, said, g)
<1> DEFINE c == [elements |-> elements, goal |-> g]
<1>1. \A cl : NarrowByClarification(elements, cl, g) = Narrowing!Fold(c, cl)
  BY DEF NarrowByClarification, Narrowing!Fold, Narrowing!FoldOn, FoldLeft, MapThenFoldSet, Max,
         Narrowing!Top, NarrowStep
<1>2. c.elements = elements /\ \A current, said : NarrowStep(c, current, said) = NarrowOnce(current, said, g)
  BY DEF NarrowStep
<1> HIDE DEF c
<1>3. Narrowing!Fold(c, <<>>) = elements
  <2>1. DOMAIN <<>> = 1..0 /\ 0 \in Nat
    OBVIOUS
  <2> QED BY <1>2, <2>1, Narrowing!Folded
<1>4. ASSUME NEW said PROVE Narrowing!Fold(c, <<said>>) = NarrowOnce(elements, said, g)
  <2> DEFINE list == <<said>>
  <2>1. DOMAIN list = 1..1 /\ list[1] = said /\ 1 \in Nat /\ 1 \in 1..1 /\ 1 - 1 = 0
    OBVIOUS
  <2> HIDE DEF list
  <2>2. /\ Narrowing!After(c, list, 0) = elements
        /\ Narrowing!After(c, list, 1) = NarrowStep(c, Narrowing!After(c, list, 1 - 1), list[1])
        /\ Narrowing!Fold(c, list) = Narrowing!After(c, list, 1)
    BY <1>2, <2>1, Narrowing!Folded
  <2>3. Narrowing!Fold(c, list) = NarrowOnce(elements, said, g)
    BY <1>2, <2>1, <2>2
  <2> QED BY <2>3 DEF list
<1> QED BY <1>1, <1>3, <1>4

(* What is sent of a page is, by its refs, of what is left of it.            *)
LEMMA SentOfLeft ==
    ASSUME NEW n \in DOMAIN Pages, NEW said, NEW g, NEW left,
           left = NarrowByClarification(Numbered(n), said, g),
           left \in Seq(ToSet(Numbered(n))),
           NEW ref \in Sanitized(n, said, g).refs
    PROVE  ref \in DOMAIN Numbered(n) /\ Numbered(n)[ref] \in ToSet(left)
<1> DEFINE N == Numbered(n)
           kept == Budgeted(n, said, g).kept
<1>1. kept = ApplyElementBudget(left, ToSet(g) \ TooShort, WithImage).kept
  BY DEF Budgeted
<1>2. ToSet(kept) \subseteq ToSet(left)
  BY <1>1, BudgetKeeps
<1>3. ToSet(left) \subseteq ToSet(N)
  BY DEF ToSet
<1>4. PICK e \in ToSet(kept) : ref = e.ref
  BY DEF Sanitized
<1> HIDE DEF kept
<1>5. e \in ToSet(left) /\ e \in ToSet(N)
  BY <1>2, <1>3, <1>4
<1>6. PICK i \in DOMAIN N : e = N[i]
  BY <1>5 DEF ToSet
<1>7. N[i].ref = i
  BY Walked
<1> QED BY <1>4, <1>5, <1>6, <1>7

(* Of a page that fits, the question is asked of all of it.                  *)
LEMMA AskedOfAll ==
    ASSUME NEW n \in DOMAIN Pages, Fits(n)
    PROVE  ElementsOf(Sanitized(n, <<>>, goal)) = Numbered(n)
<1> DEFINE N == Numbered(n)
           refs == Sanitized(n, <<>>, goal).refs
           K == {i \in DOMAIN N : N[i].ref \in refs}
<1>1. N \in Seq(ToSet(N)) /\ Len(N) \in Nat /\ DOMAIN N = 1..Len(N) /\ Len(N) = Len(Pages[n].elements)
  BY NumberedSeq
<1>2. refs \subseteq 1..Len(N)
  <2>1. NarrowByClarification(N, <<>>, goal) = N
    BY NarrowedBy
  <2> QED BY <1>1, <2>1, SentOfLeft
<1>3. Cardinality(refs) = Len(N)
  BY <1>1 DEF Fits
<1>4. refs = 1..Len(N)
  <2>1. IsFiniteSet(1..Len(N)) /\ Cardinality(1..Len(N)) = Len(N)
    BY <1>1, FS_Interval
  <2> HIDE DEF refs, N
  <2> QED BY <1>2, <1>3, <2>1, FS_Subset
<1>5. \A i \in 1..Len(N) : i \in K
  BY <1>1, <1>4, Walked
<1>6. ElementsOf(Sanitized(n, <<>>, goal)) = Kept(N, K)
  BY DEF ElementsOf, Those, Sanitized
<1> HIDE DEF N, K
<1> QED BY <1>1, <1>5, <1>6, KeptAll DEF N

(* The answer, given again with the question it answers, takes away what its *)
(* words tell apart from it.                                                 *)
LEMMA AnswerNarrows ==
    ASSUME NEW elements, IsList(elements), NEW g, NEW names, names = DetectAmbiguity(g, elements),
           NEW said, NEW answer \in ToSet(names), said.answer = answer
    PROVE  /\ NarrowOnce(elements, said, g) \in Seq(ToSet(elements))
           /\ \A e \in ToSet(NarrowOnce(elements, said, g)) :
                  e.name \notin {n \in ToSet(names) : ToldApart(n, answer, names)}
<1> DEFINE chosen == Chosen(names, answer)
           losers == ToSet(names) \ chosen
           keep == {n \in DOMAIN elements : elements[n].name \notin losers}
           left == NarrowOnce(elements, said, g)
           own == {w \in ToSet(Words(answer)) : \E n \in ToSet(names) : w \notin ToSet(Words(n))}
<1>1. names # <<>>
  BY DEF ToSet
<1>2. left = IF Words(answer) = <<>> \/ chosen = {} THEN elements ELSE Kept(elements, keep)
  BY <1>1 DEF NarrowOnce, AskedAgain, KeepChosen, Without, Those
<1>3. elements \in Seq(ToSet(elements))
  BY DEF IsList
<1>4. Kept(elements, keep) \in Seq({elements[n] : n \in keep \cap DOMAIN elements})
  <2> HIDE DEF keep
  <2> QED BY <1>3, KeptOf
<1>5. {elements[n] : n \in keep \cap DOMAIN elements} \subseteq ToSet(elements)
  BY DEF ToSet
<1>6. left \in Seq(ToSet(elements))
  <2> HIDE DEF left, keep, chosen
  <2> QED BY <1>2, <1>3, <1>4, <1>5
<1>7. \A n : ToldApart(n, answer, names) <=> (own # {} /\ own \cap ToSet(Words(n)) = {})
  BY DEF ToldApart
<1>8. \A n \in chosen : ~ToldApart(n, answer, names)
  BY <1>7 DEF Chosen
<1>9. own # {} => answer \in chosen /\ Words(answer) # <<>>
  <2> SUFFICES ASSUME own # {} PROVE answer \in chosen /\ Words(answer) # <<>>
    OBVIOUS
  <2>1. PICK w \in ToSet(Words(answer)) : \E n \in ToSet(names) : w \notin ToSet(Words(n))
    OBVIOUS
  <2>2. answer \in chosen
    BY <2>1 DEF Chosen
  <2>3. Words(answer) # <<>>
    BY <2>1 DEF ToSet
  <2> QED BY <2>2, <2>3
<1>10. ASSUME NEW e \in ToSet(left), e.name \in ToSet(names), ToldApart(e.name, answer, names)
       PROVE  FALSE
  <2>1. own # {}
    BY <1>7, <1>10
  <2>2. left = Kept(elements, keep)
    BY <1>2, <1>9, <2>1
  <2>3. e \in {elements[n] : n \in keep \cap DOMAIN elements}
    <3> HIDE DEF left, keep
    <3>1. Kept(elements, keep) \in Seq({elements[n] : n \in keep \cap DOMAIN elements})
      BY <1>4
    <3>2. \E i \in DOMAIN left : e = left[i]
      BY <1>10 DEF ToSet
    <3> QED BY <2>2, <3>1, <3>2
  <2>4. e.name \notin losers
    BY <2>3
  <2>5. e.name \in chosen
    BY <1>10, <2>4
  <2> QED BY <1>8, <1>10, <2>5
<1> QED BY <1>6, <1>10

(* A page that fits and was asked about: what is sent once the question is   *)
(* answered is not named like a candidate the answer tells apart.            *)
LEMMA SettledBy ==
    ASSUME NEW n \in DOMAIN Pages, Fits(n), NEW names,
           names = DetectAmbiguity(goal, ElementsOf(Sanitized(n, <<>>, goal))),
           NEW q, NEW answer \in ToSet(names),
           NEW ref \in Sanitized(n, <<[question |-> q, answer |-> answer]>>, goal).refs
    PROVE  Numbered(n)[ref].name \notin {m \in ToSet(names) : ToldApart(m, answer, names)}
<1> DEFINE said == [question |-> q, answer |-> answer]
           N == Numbered(n)
           left == NarrowOnce(N, said, goal)
<1>1. N \in Seq(ToSet(N)) /\ IsList(N)
  BY NumberedSeq DEF IsList
<1>2. names = DetectAmbiguity(goal, N)
  BY AskedOfAll
<1>3. said.answer = answer
  OBVIOUS
<1>4. NarrowByClarification(N, <<said>>, goal) = left
  BY NarrowedBy
<1>5. ref \in Sanitized(n, <<said>>, goal).refs
  OBVIOUS
<1> HIDE DEF said
<1>6. /\ left \in Seq(ToSet(N))
      /\ \A e \in ToSet(left) : e.name \notin {m \in ToSet(names) : ToldApart(m, answer, names)}
  BY <1>1, <1>2, <1>3, AnswerNarrows
<1>7. N[ref] \in ToSet(left)
  <2> HIDE DEF left
  <2> QED BY <1>4, <1>5, <1>6, SentOfLeft DEF N
<1> QED BY <1>6, <1>7

-----------------------------------------------------------------------------
(* What a question and its answer leave behind.                              *)

(* The candidates are those of this page, which is the one that is there and *)
(* was read while none has moved since the question.                         *)
AskedOf(P) ==
    /\ P \in DOMAIN Pages
    /\ asked = DetectAmbiguity(goal, ElementsOf(Sanitized(P, <<>>, goal)))
    /\ moves = since => page = P /\ (at \in {"planning", "executing"} => sent.of = P)

(* The page's question is the first, so that its answer is the only one, and *)
(* is what was narrowed by when the step read.                               *)
Answering ==
    /\ since \in Nat /\ since <= moves
    /\ at \in {"planning", "executing"} => sent = Sanitized(sent.of, clarifications, goal)
    /\ clarifications = <<>> => picked = <<>> /\ \A i \in DOMAIN touched : ~touched[i].answered
    /\ at = "asked" /\ asked # <<>> => clarifications = <<>>
    /\ asked # <<>> /\ picked # <<>> =>
           picked \in ToSet(asked) /\ \E q : clarifications = <<[question |-> q, answer |-> picked]>>
    /\ asked # <<>> /\ (at = "asked" \/ picked # <<>>) => \E P : AskedOf(P)

AnsweringInv == ChoosingInv /\ Answering /\ AnswerSettles

(* A plan asks with a question of its own, or leaves the candidates.         *)
LEMMA AcceptAsks ==
    ASSUME NEW b, NEW ref, Accept(b, ref)
    PROVE  (at' = "asked" /\ asked' = <<>>) \/ (at' # "asked" /\ UNCHANGED asked)
<1>1. CASE b.type = "ask_user"
  BY <1>1, ZenonT(60) DEF Accept
<1>2. CASE b.type # "ask_user"
  <2>1. at' = (IF b.type \in {"done", "abort"} THEN "ended" ELSE "executing") /\ UNCHANGED asked
    BY <1>2, ZenonT(60) DEF Accept
  <2> QED BY <2>1
<1> QED BY <1>1, <1>2

LEMMA PlanAsks ==
    ASSUME NEW a, Judge(a), at = "planning"
    PROVE  (at' = "asked" /\ asked' = <<>>) \/ (at' # "asked" /\ UNCHANGED asked)
<1>1. CASE \E b, verdict : Refuse(b, verdict)
  BY <1>1, Refusing
<1>2. CASE \E b : /\ Accept(b, Checked(b).ref) /\ Checked(b).code = "ok"
                  /\ b = a \/ (b = Recovered /\ history = <<>>)
  <2>1. PICK b : Accept(b, Checked(b).ref)
    BY <1>2
  <2>2. (at' = "asked" /\ asked' = <<>>) \/ (at' # "asked" /\ UNCHANGED asked)
    BY <2>1, AcceptAsks
  <2> QED BY <2>2
<1> QED BY <1>1, <1>2, Judging

(* What AnswerSettles says of one that was touched.                          *)
HeldTo(t) ==
    t.answered /\ picked # <<>> /\ t.moved = since /\ Fits(t.sent.of) =>
        Numbered(t.sent.of)[t.ref].name \notin {n \in ToSet(asked) : ToldApart(n, picked, asked)}

LEMMA AllHeldTo == AnswerSettles <=> \A i \in DOMAIN touched : HeldTo(touched[i])
BY DEF AnswerSettles, HeldTo

(* The same for what is going to be touched.                                 *)
LEMMA TouchIsSettled ==
    ASSUME Answering, Form, at = "executing", action.ref \in sent.refs,
           clarifications # <<>>, picked # <<>>, moves = since, Fits(sent.of)
    PROVE  Numbered(sent.of)[action.ref].name \notin {n \in ToSet(asked) : ToldApart(n, picked, asked)}
<1>1. CASE asked = <<>>
  BY <1>1, NoneYet DEF ToSet
<1>2. CASE asked # <<>>
  <2>1. PICK P : AskedOf(P)
    BY <1>2 DEF Answering
  <2>2. PICK q : clarifications = <<[question |-> q, answer |-> picked]>>
    BY <1>2 DEF Answering
  <2>3. picked \in ToSet(asked)
    BY <1>2 DEF Answering
  <2>4. sent.of = P /\ P \in DOMAIN Pages /\ asked = DetectAmbiguity(goal, ElementsOf(Sanitized(P, <<>>, goal)))
    BY <2>1 DEF AskedOf
  <2>5. action.ref \in Sanitized(P, <<[question |-> q, answer |-> picked]>>, goal).refs
    BY <2>2, <2>4 DEF Answering
  <2>6. Fits(P)
    BY <2>4
  <2> QED BY <2>3, <2>4, <2>5, <2>6, SettledBy
<1> QED BY <1>1, <1>2

LEMMA TouchedSettled ==
    ASSUME AnsweringInv, Executes, Touching, action.type \in Addressing
    PROVE  /\ AnswerSettles'
           /\ clarifications = <<>> => \A i \in DOMAIN touched' : ~touched'[i].answered
<1> DEFINE new == [sent |-> sent, ref |-> action.ref, now |-> page, live |-> There.ref,
                   target |-> action.target, moved |-> moves, answered |-> clarifications # <<>>]
<1>1. at = "executing" /\ UNCHANGED <<goal, asked, since, picked>>
  BY DEF Executes
<1>2. action.ref \in sent.refs
  BY <1>1 DEF AnsweringInv, ChoosingInv, OnItsWay, Rightly
<1>3. /\ new.sent = sent /\ new.ref = action.ref /\ new.moved = moves
      /\ new.answered <=> clarifications # <<>>
  OBVIOUS
<1> HIDE DEF new
<1>4. HeldTo(new)
  BY <1>1, <1>2, <1>3, TouchIsSettled DEF HeldTo, AnsweringInv, ChoosingInv
<1>5. touched' = Append(touched, new)
  BY DEF Touching, new
<1>6. /\ Len(touched) \in Nat /\ DOMAIN touched = 1 .. Len(touched) /\ DOMAIN touched' = 1 .. Len(touched) + 1
      /\ \A i \in DOMAIN touched : touched'[i] = touched[i]
      /\ touched'[Len(touched) + 1] = new
  BY <1>5, Appended DEF AnsweringInv, ChoosingInv, Form
<1>7. \A i \in DOMAIN touched' : i \in DOMAIN touched \/ i = Len(touched) + 1
  BY <1>6
<1>8. \A i \in DOMAIN touched' : HeldTo(touched'[i])
  <2>1. \A i \in DOMAIN touched : HeldTo(touched[i])
    BY AllHeldTo DEF AnsweringInv
  <2> QED BY <1>4, <1>6, <1>7, <2>1
<1>9. AnswerSettles' <=> \A i \in DOMAIN touched' : HeldTo(touched'[i])
  BY <1>1 DEF AnswerSettles, HeldTo, Fits
<1>10. clarifications = <<>> => \A i \in DOMAIN touched' : ~touched'[i].answered
  BY <1>3, <1>6, <1>7 DEF AnsweringInv, Answering
<1> QED BY <1>8, <1>9, <1>10

(* A step that leaves the page, the answer and what was touched alone.       *)
LEMMA AnsweringKept ==
    ASSUME AnsweringInv, UNCHANGED <<page, goal, clarifications, moves, since, picked>>,
           (at' = "asked" /\ asked' = <<>>) \/ (at' # "asked" /\ UNCHANGED asked),
           at' \in {"planning", "executing"} => at \in {"planning", "executing"} /\ UNCHANGED sent,
           clarifications = <<>> => \A i \in DOMAIN touched' : ~touched'[i].answered
    PROVE  Answering'
<1>1. Answering /\ since \in Nat /\ since <= moves
  BY DEF AnsweringInv, Answering
<1>2. at' \in {"planning", "executing"} => sent' = Sanitized(sent'.of, clarifications', goal')
  BY <1>1 DEF Answering
<1>3. ASSUME asked' # <<>>, at' = "asked" \/ picked' # <<>> PROVE \E P : AskedOf(P)'
  <2>1. UNCHANGED asked /\ picked # <<>>
    BY <1>3
  <2>2. PICK P : AskedOf(P)
    BY <1>1, <1>3, <2>1 DEF Answering
  <2>3. AskedOf(P)'
    BY <2>1, <2>2 DEF AskedOf
  <2> QED BY <2>3
<1>4. ASSUME asked' # <<>>, picked' # <<>>
      PROVE  picked' \in ToSet(asked') /\ \E q : clarifications' = <<[question |-> q, answer |-> picked']>>
  <2>1. UNCHANGED asked
    BY <1>4
  <2> QED BY <1>1, <1>4, <2>1 DEF Answering
<1>5. clarifications' = <<>> => picked' = <<>> /\ \A i \in DOMAIN touched' : ~touched'[i].answered
  BY <1>1 DEF Answering
<1> QED BY <1>1, <1>2, <1>3, <1>4, <1>5 DEF Answering

(* And what was touched is as settled as before, if the candidates stay.     *)
LEMMA SettledKept ==
    ASSUME AnswerSettles, UNCHANGED <<goal, since, picked, touched>>, asked' = <<>> \/ UNCHANGED asked
    PROVE  AnswerSettles'
<1>1. CASE asked' = <<>>
  BY <1>1, NoneYet DEF AnswerSettles, ToSet
<1>2. CASE UNCHANGED asked
  BY <1>2 DEF AnswerSettles, Fits
<1> QED BY <1>1, <1>2

LEMMA AnsweringReads ==
    ASSUME AnsweringInv, Reads
    PROVE  Answering' /\ AnswerSettles'
<1> DEFINE names == DetectAmbiguity(goal, ElementsOf(sent'))
<1>1. /\ at = "ready" /\ sent' = Sanitized(page, clarifications, goal)
      /\ UNCHANGED <<page, goal, clarifications, moves, picked, touched>>
      /\ \/ clarifications = <<>> /\ names # <<>> /\ at' = "asked" /\ asked' = names /\ since' = moves
         \/ at' = "planning" /\ UNCHANGED <<asked, since>>
  BY DEF Reads
<1>2. Form /\ Answering /\ AnswerSettles /\ page \in DOMAIN Pages /\ moves \in Nat
  BY DEF AnsweringInv, ChoosingInv, Form
<1>3. sent'.of = page
  BY <1>1 DEF Sanitized
<1> HIDE DEF names
<1>4. CASE clarifications = <<>> /\ names # <<>> /\ at' = "asked" /\ asked' = names /\ since' = moves
  <2>1. picked' = <<>> /\ \A i \in DOMAIN touched' : ~touched'[i].answered
    BY <1>1, <1>2, <1>4 DEF Answering
  <2>2. asked' = DetectAmbiguity(goal', ElementsOf(Sanitized(page, <<>>, goal)))
    BY <1>1, <1>4 DEF names
  <2>3. AskedOf(page)'
    BY <1>1, <1>2, <1>4, <2>2 DEF AskedOf
  <2>4. Answering'
    BY <1>1, <1>2, <1>4, <2>1, <2>3 DEF Answering
  <2>5. AnswerSettles'
    BY <2>1 DEF AnswerSettles
  <2> QED BY <2>4, <2>5
<1>5. CASE at' = "planning" /\ UNCHANGED <<asked, since>>
  <2>1. ASSUME asked' # <<>>, picked' # <<>> PROVE \E P : AskedOf(P)'
    <3>1. PICK P : AskedOf(P)
      BY <1>1, <1>2, <1>5, <2>1 DEF Answering
    <3>2. AskedOf(P)'
      BY <1>1, <1>3, <1>5, <3>1 DEF AskedOf
    <3> QED BY <3>2
  <2>2. sent' = Sanitized(sent'.of, clarifications', goal')
    BY <1>1, <1>3
  <2>3. Answering'
    BY <1>1, <1>2, <1>5, <2>1, <2>2 DEF Answering
  <2>4. AnswerSettles'
    BY <1>1, <1>2, <1>5, SettledKept
  <2> QED BY <2>3, <2>4
<1> QED BY <1>1, <1>4, <1>5

LEMMA AnsweringAnswers ==
    ASSUME AnsweringInv, NEW answer, UserAnswers(answer)
    PROVE  Answering' /\ AnswerSettles'
<1>1. /\ at = "asked" /\ at' = "ready"
      /\ clarifications' = Append(clarifications, [question |-> Question, answer |-> answer])
      /\ picked' = IF answer \in ToSet(asked) THEN answer ELSE <<>>
      /\ UNCHANGED <<page, goal, moves, since, asked, touched, sent>>
  BY DEF UserAnswers
<1>2. Answering /\ IsList(clarifications) /\ since \in Nat /\ since <= moves
  BY DEF AnsweringInv, Answering, ChoosingInv, Form
<1>3. clarifications' # <<>>
  BY <1>1, <1>2, Appended
<1>4. CASE asked = <<>>
  <2>1. picked' = <<>>
    BY <1>1, <1>4, NoneYet DEF ToSet
  <2> QED BY <1>1, <1>2, <1>3, <1>4, <2>1 DEF Answering, AnswerSettles
<1>5. CASE asked # <<>>
  <2>1. clarifications = <<>> /\ \A i \in DOMAIN touched : ~touched[i].answered
    BY <1>1, <1>2, <1>5 DEF Answering
  <2>2. clarifications' = <<[question |-> Question, answer |-> answer]>>
    BY <1>1, <2>1
  <2>3. PICK P : AskedOf(P)
    BY <1>1, <1>2, <1>5 DEF Answering
  <2>4. AskedOf(P)'
    BY <1>1, <2>3 DEF AskedOf
  <2>5. picked' # <<>> => picked' \in ToSet(asked') /\ \E q : clarifications' = <<[question |-> q, answer |-> picked']>>
    BY <1>1, <2>2
  <2>6. Answering'
    BY <1>1, <1>2, <1>3, <2>4, <2>5 DEF Answering
  <2>7. AnswerSettles'
    BY <1>1, <2>1 DEF AnswerSettles
  <2> QED BY <2>6, <2>7
<1> QED BY <1>4, <1>5

LEMMA AnsweringStep ==
    ASSUME AnsweringInv, [Next]_vars
    PROVE  AnsweringInv'
<1>1. ChoosingInv'
  BY ChoosingStep DEF AnsweringInv
<1>2. Form /\ Answering /\ AnswerSettles
  BY DEF AnsweringInv, ChoosingInv
<1>3. ASSUME at = "planning", at' \in {"planning", "executing", "asked", "ready", "ended"},
             (at' = "asked" /\ asked' = <<>>) \/ (at' # "asked" /\ UNCHANGED asked),
             UNCHANGED <<page, goal, planner, clarifications, sent, moves, since, picked, touched>>
      PROVE  Answering' /\ AnswerSettles'
  <2>1. clarifications = <<>> => \A i \in DOMAIN touched' : ~touched'[i].answered
    BY <1>2, <1>3 DEF Answering
  <2>2. Answering'
    BY <1>3, <2>1, AnsweringKept
  <2>3. AnswerSettles'
    BY <1>2, <1>3, SettledKept
  <2> QED BY <2>2, <2>3
<1>4. ASSUME NEW a, Judge(a), at = "planning",
             UNCHANGED <<page, goal, planner, clarifications, sent, moves, since, picked, touched>>
      PROVE  Answering' /\ AnswerSettles'
  <2>1. at' \in {"planning", "executing", "asked", "ready", "ended"}
    BY <1>4, Planning DEF Plans, PlansNothing
  <2>2. (at' = "asked" /\ asked' = <<>>) \/ (at' # "asked" /\ UNCHANGED asked)
    BY <1>4, PlanAsks
  <2> QED BY <1>3, <1>4, <2>1, <2>2
<1>5. CASE UNCHANGED vars
  BY <1>1, <1>2, <1>5 DEF AnsweringInv, Answering, AskedOf, AnswerSettles, Fits, vars
<1>6. CASE Reads
  BY <1>1, <1>6, AnsweringReads DEF AnsweringInv
<1>7. CASE PlansWithout
  <2>1. PICK a : Judge(a) /\ at = "planning"
    BY <1>7 DEF PlansWithout
  <2> QED BY <1>1, <1>4, <1>7, <2>1 DEF PlansWithout, AnsweringInv
<1>8. CASE PageMoves
  <2>1. /\ moves' = moves + 1 /\ moves \in Nat
        /\ UNCHANGED <<goal, clarifications, sent, at, asked, since, picked, touched>>
    BY <1>2, <1>8 DEF PageMoves, Form
  <2>2. since \in Nat /\ since <= moves' /\ moves' # since
    BY <1>2, <2>1 DEF Answering
  <2>3. ASSUME asked' # <<>>, at' = "asked" \/ picked' # <<>> PROVE \E P : AskedOf(P)'
    <3>1. PICK P : AskedOf(P)
      BY <1>2, <2>1, <2>3 DEF Answering
    <3>2. AskedOf(P)'
      BY <2>1, <2>2, <3>1 DEF AskedOf
    <3> QED BY <3>2
  <2>4. Answering'
    BY <1>2, <2>1, <2>2, <2>3 DEF Answering
  <2>5. AnswerSettles'
    BY <1>2, <2>1, SettledKept
  <2> QED BY <1>1, <2>4, <2>5 DEF AnsweringInv
<1>9. CASE Executes
  <2>1. /\ at' = "ready"
        /\ UNCHANGED <<page, goal, clarifications, sent, asked, moves, since, picked>>
    BY <1>9, Executing DEF Executes
  <2>2. AnswerSettles' /\ (clarifications = <<>> => \A i \in DOMAIN touched' : ~touched'[i].answered)
    <3>1. CASE UNCHANGED touched
      BY <1>2, <2>1, <3>1, SettledKept DEF Answering
    <3>2. CASE ~UNCHANGED touched
      <4>1. Touching /\ action.type \in Addressing
        BY <1>9, <3>2, Executing
      <4> QED BY <1>9, <4>1, TouchedSettled
    <3> QED BY <3>1, <3>2
  <2>3. Answering'
    BY <2>1, <2>2, AnsweringKept
  <2> QED BY <1>1, <2>2, <2>3 DEF AnsweringInv
<1>10. ASSUME NEW answer, UserAnswers(answer) PROVE AnsweringInv'
  BY <1>1, <1>10, AnsweringAnswers DEF AnsweringInv
<1>11. ASSUME NEW raw, ModelReplies(raw) PROVE AnsweringInv'
  <2>1. CASE ParseAction(raw).code = "ok"
    <3>1. PICK a : Judge(a) /\ at = "planning"
      BY <1>11, <2>1 DEF ModelReplies
    <3> QED BY <1>1, <1>4, <1>11, <3>1 DEF ModelReplies, AnsweringInv
  <2>2. CASE ParseAction(raw).code # "ok"
    <3>1. at = "planning" /\ at' \in {"planning", "ready", "ended"} /\ UNCHANGED asked
      BY <1>11, <2>2 DEF ModelReplies, FirstRefusalStands, Remember
    <3> QED BY <1>1, <1>3, <1>11, <3>1 DEF ModelReplies, AnsweringInv
  <2> QED BY <2>1, <2>2
<1> QED BY <1>5, <1>6, <1>7, <1>8, <1>9, <1>10, <1>11 DEF Next

LEMMA AnsweringStart == Init => AnsweringInv
<1> SUFFICES ASSUME Init PROVE AnsweringInv
  OBVIOUS
<1>1. ChoosingInv
  BY ChoosingStart
<1>2. Answering /\ AnswerSettles
  BY NoneYet DEF Init, Answering, AnswerSettles
<1> QED BY <1>1, <1>2 DEF AnsweringInv

(* A run that goes on with the user's answer, on the page the question was   *)
(* about, touches nothing named like a candidate the answer tells apart from *)
(* the one that was picked: what the question was about is found again and   *)
(* what the answer does not speak of is not sent.                            *)
THEOREM AnswerIsFollowed == Spec => []AnswerSettles
<1>1. AnsweringInv => AnswerSettles
  BY DEF AnsweringInv
<1>2. Init => AnsweringInv
  BY AnsweringStart
<1>3. AnsweringInv /\ [Next]_vars => AnsweringInv'
  BY AnsweringStep
<1> QED BY <1>1, <1>2, <1>3, PTL DEF Spec

=============================================================================
