-------------------------------- MODULE Choosing --------------------------------
(***************************************************************************)
(* From the page to the element that is touched: what buildSanitizedContext*)
(* sends, the question asked before planning, the plan, its validation and *)
(* the content script's execution, in a run whose page may move at any     *)
(* moment.  src/src: redaction/sanitize.ts 700-783, orchestrator/step.ts   *)
(* 1019-1365, entrypoints/content.ts and execution/actions.ts, over the    *)
(* modules Ambiguity, Target, ElementBudget, LocalPlanner, Reply and       *)
(* Execution.                                                              *)
(*                                                                         *)
(* A page is [elements, containers].  An element has the fields those      *)
(* modules read, path (how its ref resolves in the live page) and shown    *)
(* (its live accessible name: `name` is what is sent of it, with           *)
(* placeholders and cut where it is long).                                 *)
(***************************************************************************)
EXTENDS Target, ElementBudget, LocalPlanner, Reply, Execution

CONSTANTS
    Pages,           \* the pages a run may meet, a sequence
    Goals,           \* the goals it may be given
    Planners,        \* of "device", "server" (baseline), "model" (hosted)
    Replies,         \* what the hosted model may reply
    OtherAnswers,         \* what the user may answer beside a candidate's name
    AllowedOrigins,
    ActVerbs,        \* the verbs of needsAction
    TooShort,        \* words of two letters or less
    WithImage,       \* a screenshot is sent along
    MaxSteps,        \* bound: steps of a run, by planner
    MaxMoves, MaxAnswers             \* bounds

ASSUME ChoosingAssumption ==
    /\ \A n \in DOMAIN Pages :
           /\ Pages[n].elements \in Seq(ToSet(Pages[n].elements))
           /\ \A i \in DOMAIN Pages[n].elements : "ref" \in DOMAIN Pages[n].elements[i]
    /\ Planners \subseteq {"device", "server", "model"}
    /\ MaxSteps \in [Planners -> Nat] /\ {MaxMoves, MaxAnswers} \subseteq Nat /\ WithImage \in BOOLEAN
    /\ TooShort \subseteq Stopwords \cap Fillers

VARIABLES
    page,            \* the live page, an index of Pages
    goal, planner,
    backend,         \* where it plans: "on-device", "local", "cloud"
    clarifications,  \* sequence of [question, answer]
    history,         \* of this run: [type, ref, ok]
    sent,            \* what this step sent: refs of the elements of a page, [of, refs]
    action,          \* the action refused first, while a correction is out
    resent,          \* why the planner was asked again: "parse", "correct"
    at,              \* "ready", "asked", "planning", "executing", "ended"
    asked,           \* the candidates of the question out, and of the one answered
    \* observations
    moves,           \* how often the page moved
    since,           \* the same when the question was asked
    picked,          \* the candidate the user answered with, <<>> for none
    touched          \* what was acted on: [sent, ref, now, live, target, moved, answered]

vars == <<page, goal, planner, backend, clarifications, history, sent, action, resent, at,
          asked, moves, since, picked, touched>>

NoAct == [type |-> "none"]
Nothing == [of |-> 1, refs |-> {}]

Init ==
    /\ page \in DOMAIN Pages
    /\ goal \in Goals
    /\ planner \in Planners
    /\ backend \in IF planner = "device" THEN {"on-device"} ELSE {"local", "cloud"}
    /\ clarifications = <<>> /\ history = <<>> /\ touched = <<>>
    /\ sent = Nothing /\ action = NoAct /\ resent = {}
    /\ at = "ready" /\ asked = <<>> /\ picked = <<>>
    /\ moves = 0 /\ since = 0

-----------------------------------------------------------------------------
(* An element is known by its place in the walk of the whole page.           *)
Numbered(n) == [i \in DOMAIN Pages[n].elements |-> [Pages[n].elements[i] EXCEPT !.ref = i]]

Budgeted(n, said, g) ==
    ApplyElementBudget(NarrowByClarification(Numbered(n), said, g), ToSet(g) \ TooShort, WithImage)

(* buildSanitizedContext: numbered as walked, narrowed, then cut to fit, and *)
(* never renumbered.                                                         *)
Sanitized(n, said, g) ==
    [of |-> n, refs |-> {e.ref : e \in ToSet(Budgeted(n, said, g).kept)}]

ElementsOf(s) == Those(Numbered(s.of), LAMBDA e : e.ref \in s.refs)
SentElements(s) == {e \in ToSet(Numbered(s.of)) : e.ref \in s.refs}
Context == [elements |-> SentElements(sent), containers |-> Pages[sent.of].containers]

(* A private backend is in this no other than a cloud one.                   *)
ModelAsksItself == backend = "cloud"

(* A step reads the page and asks the user first, once, unless the backend's *)
(* model asks for itself; a model on a local server does not.                *)
Reads ==
    /\ at = "ready" /\ Len(history) < MaxSteps[planner]
    /\ sent' = Sanitized(page, clarifications, goal)
    /\ LET names == DetectAmbiguity(goal, ElementsOf(sent'))
       IN IF ~ModelAsksItself /\ clarifications = <<>> /\ names # <<>>
          THEN at' = "asked" /\ asked' = names /\ since' = moves
          ELSE at' = "planning" /\ UNCHANGED <<asked, since>>
    /\ action' = NoAct /\ resent' = {}
    /\ UNCHANGED <<page, goal, planner, backend, clarifications, history, moves, picked, touched>>

Question == IF asked = <<>> THEN action.question ELSE ComposeQuestion(asked)

(* The answer starts the run again with the question and the answer.         *)
UserAnswers(answer) ==
    /\ at = "asked"
    /\ Len(clarifications) < MaxAnswers
    /\ clarifications' = Append(clarifications, [question |-> Question, answer |-> answer])
    /\ picked' = IF answer \in ToSet(asked) THEN answer ELSE <<>>
    /\ history' = <<>>
    /\ at' = "ready"
    /\ UNCHANGED <<page, goal, planner, backend, sent, action, resent, asked, moves, since, touched>>

-----------------------------------------------------------------------------
CorrectableRefusals ==
    {"not-typeable", "already-typed", "text-too-long", "scroll-too-far", "wait-too-long",
     "no-such-target", "ambiguous-target", "unverified-completion"}

(* The verdict of a step: a `done` nothing was done for is not believed.     *)
StepVerdict(a) ==
    IF a.type = "done" /\ history = <<>> /\ ToSet(goal) \cap ActVerbs # {}
    THEN [code |-> "unverified-completion", ref |-> 0]
    ELSE ValidateAction(a, Context, AllowedOrigins)

Remember(a, ref, ok) ==
    /\ history' = Append(history, [type |-> a.type, ref |-> ref, ok |-> ok])
    /\ at' = "ready"

Accept(a, ref) ==
    /\ action' = [type |-> a.type, ref |-> ref,
                  target |-> IF "target" \in DOMAIN a THEN a.target ELSE <<>>,
                  text |-> IF a.type = "type" THEN a.text ELSE <<>>,
                  option |-> IF a.type = "select" THEN a.option ELSE "",
                  question |-> IF a.type = "ask_user" THEN a.question ELSE <<>>]
    /\ IF a.type = "ask_user"
       THEN at' = "asked" /\ asked' = <<>>
       ELSE at' = (IF a.type \in {"done", "abort"} THEN "ended" ELSE "executing") /\ UNCHANGED asked
    /\ UNCHANGED <<history, resent>>

(* What the next step reads of a step whose correction did not help.         *)
FirstRefusalStands ==
    /\ IF action.code = "unverified-completion"
       THEN at' = "ended" /\ UNCHANGED history
       ELSE Remember(action, action.ref, FALSE)
    /\ UNCHANGED <<action, resent>>

(* A refusal the planner may correct once.                                   *)
Refuse(a, verdict) ==
    /\ IF "correct" \in resent THEN FirstRefusalStands
       ELSE IF verdict.code \notin CorrectableRefusals
       THEN at' = "ended" /\ UNCHANGED <<history, action, resent>>
       ELSE /\ resent' = resent \cup {"correct"}
            /\ action' = [type |-> a.type, code |-> verdict.code,
                          ref |-> IF "ref" \in DOMAIN a THEN a.ref ELSE 0]
            /\ UNCHANGED <<history, at>>
    /\ UNCHANGED asked

JudgeDone(a, recovered, safe) ==
    IF recovered # Done /\ safe.code = "ok" /\ "correct" \notin resent
    THEN Accept(recovered, safe.ref)
    ELSE Refuse(a, [code |-> "unverified-completion", ref |-> 0])

JudgeBy(a, verdict, recovered) ==
    CASE verdict.code = "ok" -> Accept(a, verdict.ref)
      [] verdict.code = "unverified-completion" ->
            JudgeDone(a, recovered, ValidateAction(recovered, Context, AllowedOrigins))
      [] OTHER -> Refuse(a, verdict)

Judge(a) == JudgeBy(a, StepVerdict(a), RecoverTextAction(Context.elements, goal))

(* A planner without a model replies with what it computes.                  *)
PlansWithout ==
    /\ at = "planning" /\ planner # "model"
    /\ Judge(IF planner = "device" THEN DevicePlan(Context.elements, goal, history)
                                   ELSE HeuristicPlan(Context.elements, goal, history))
    /\ UNCHANGED <<page, goal, planner, backend, clarifications, sent, moves, since, picked, touched>>

(* The model's reply is parsed; one that holds no action is asked for again  *)
(* once, and again after a correction leaves the refusal standing.           *)
ModelReplies(raw) ==
    /\ at = "planning" /\ planner = "model"
    /\ LET parsed == ParseAction(raw)
       IN IF parsed.code = "ok" THEN Judge(parsed.action)
          ELSE IF "correct" \in resent THEN FirstRefusalStands /\ UNCHANGED asked
          ELSE /\ IF "parse" \in resent THEN at' = "ended" /\ UNCHANGED resent
                                        ELSE resent' = resent \cup {"parse"} /\ UNCHANGED at
               /\ UNCHANGED <<history, action, asked>>
    /\ UNCHANGED <<page, goal, planner, backend, clarifications, sent, moves, since, picked, touched>>

-----------------------------------------------------------------------------
(* Mutant: a live element's name is not compared.                            *)
AgreesByRole(e, live) == TRUE

(* namesAgree: of a redacted or cut name only what stands before is known.   *)
NamesAgree(e, live) ==
    LET placeholders == {i \in DOMAIN e.name : e.name[i] \in DOMAIN Short}
        head == IF e.redacted
                THEN SubSeq(e.name, 1, (CHOOSE i \in placeholders : \A j \in placeholders : i <= j) - 1)
                ELSE IF e.cut THEN Front(e.name) ELSE e.name
    IN IF e.name = <<>> THEN TRUE
       ELSE IF e.redacted \/ e.cut THEN IsPrefix(head, live.shown)
       ELSE live.shown = e.name

Addressed(ref) == Numbered(sent.of)[ref]

(* What a page may make of the action: a field reads the text, what it read, *)
(* both, another spelling or nothing; a select has the option or not.        *)
Makings(el) ==
    [value : {action.text, el.value, el.value \o action.text, <<>>} \cup UNION Spellings,
     options : SUBSET {[value |-> action.option, text |-> "label"], [value |-> "other", text |-> "other"]}]

(* execute: the ref's selector is resolved in the page as it is now, and the *)
(* element there must still have the role and the name that were sent.       *)
Touches(meant, there) ==
    IF there.role # meant.role \/ ~NamesAgree(meant, there)
    THEN Remember(action, action.ref, FALSE) /\ UNCHANGED touched
    ELSE /\ \E made \in Makings(there) :
               Remember(action, action.ref, ExecuteAction(action, there, made))
         /\ touched' = Append(touched,
                [sent |-> sent, ref |-> action.ref, now |-> page, live |-> there.ref,
                 target |-> action.target, moved |-> moves, answered |-> clarifications # <<>>])

(* The places in the page where what was addressed may be now.               *)
Places(meant) == {i \in DOMAIN Numbered(page) : Numbered(page)[i].path = meant.path}

Executes ==
    /\ at = "executing"
    /\ IF action.type \notin Addressing
       THEN Remember(action, 0, TRUE) /\ UNCHANGED touched
       ELSE IF Places(Addressed(action.ref)) = {}
       THEN Remember(action, action.ref, FALSE) /\ UNCHANGED touched
       ELSE Touches(Addressed(action.ref), Numbered(page)[Min(Places(Addressed(action.ref)))])
    /\ UNCHANGED <<page, goal, planner, backend, clarifications, sent, action, resent, asked, moves, since, picked>>

(* The page changes under the run, or because of what it did.                *)
PageMoves ==
    /\ moves < MaxMoves /\ at # "ended"
    /\ page' \in DOMAIN Pages \ {page}
    /\ moves' = moves + 1
    /\ UNCHANGED <<goal, planner, backend, clarifications, history, sent, action, resent, at, asked,
                   since, picked, touched>>

Next ==
    \/ Reads \/ PlansWithout \/ PageMoves \/ Executes
    \/ \E answer \in ToSet(asked) \cup OtherAnswers : UserAnswers(answer)
    \/ \E raw \in Replies : ModelReplies(raw)

Spec == Init /\ [][Next]_vars

-----------------------------------------------------------------------------
(* No two elements of a page have one path.                                  *)
Apart(n) ==
    \A i, j \in DOMAIN Numbered(n) : Numbered(n)[i].path = Numbered(n)[j].path => i = j

(* Nothing was guessed: another sent element that fits the description word  *)
(* for word is a link to where the one with this ref leads.                  *)
Unguessed(s, ref, target) ==
    target # <<>> /\ ~Given(target, "within") =>
        \A e \in SentElements(s) :
            /\ e.ref # ref
            /\ MatchesAttributes(e, target)
            /\ Given(target, "text") => NormTarget(e.name) = NormTarget(target.text)
            => SameLink({e, Numbered(s.of)[ref]})

(* What is touched is what the plan meant: the element has the role and, as  *)
(* far as it was sent, the name of the element the plan named, and on a page *)
(* that did not move since the start it is that very element, where no other *)
(* has its path.  And nothing is guessed.                                    *)
ActsOnTheOneMeant ==
    \A i \in DOMAIN touched :
        LET t == touched[i]
            meant == Numbered(t.sent.of)[t.ref]
            live == Numbered(t.now)[t.live]
        IN /\ t.ref \in t.sent.refs
           /\ live.role = meant.role
           /\ meant.name = <<>> \/ meant.redacted \/ meant.cut \/ live.shown = meant.name
           /\ t.moved = 0 /\ Apart(t.now) => t.live = t.ref
           /\ Unguessed(t.sent, t.ref, t.target)

Fits(n) == Cardinality(Sanitized(n, <<>>, goal).refs) = Len(Pages[n].elements)

(* The candidate is told apart by a word that some candidate has not, and    *)
(* shares no such word with this one.                                        *)
ToldApart(name, candidate, names) ==
    LET own == {w \in ToSet(Words(candidate)) : \E n \in ToSet(names) : w \notin ToSet(Words(n))}
    IN own # {} /\ own \cap ToSet(Words(name)) = {}

(* The answer settles the choice: a run that continues on the page the       *)
(* question was about, and that fits the budget, touches no element named    *)
(* like a candidate from which the words of the one the user picked tell it  *)
(* apart.                                                                    *)
AnswerSettles ==
    \A i \in DOMAIN touched :
        LET t == touched[i]
        IN (t.answered /\ picked # <<>> /\ t.moved = since /\ Fits(t.sent.of))
            => Numbered(t.sent.of)[t.ref].name \notin {n \in ToSet(asked) : ToldApart(n, picked, asked)}

(* A planner without a model makes progress: on a page that does not move,   *)
(* and in which paths lead apart, it touches no element twice.               *)
NeverTwice ==
    (moves = 0 /\ planner # "model" /\ Apart(page)) =>
        \A i, j \in DOMAIN touched : i # j => touched[i].live # touched[j].live

=============================================================================
