------------------------------ MODULE LocalPlanner ------------------------------
(***************************************************************************)
(* The two planners that need no model: LocalPlannerClient (on this        *)
(* device) and HeuristicPlanner (the server's baseline), agent-server/     *)
(* local-planner.ts, server/planner.ts and text-intent.ts of src/src.      *)
(*                                                                         *)
(* A history entry has type, ref (0 for none) and ok.  A plan is an action *)
(* that addresses its element by ref.  The sent elements are a set, in the *)
(* order of their refs.                                                    *)
(***************************************************************************)
EXTENDS Naturals, Sequences, FiniteSets, SequencesExt

CONSTANTS
    EntryVerbs,    \* the words a goal starts with when it names text to enter
    Fillers        \* words of two letters or less, and text-intent's STOPWORDS

TextRoles == {"textbox", "searchbox", "combobox"}
DeviceClickable == {"button", "link", "menuitem", "tab", "checkbox", "radio"}
ServerClickable == {"button", "link"}

GoalTerms(goal) == ToSet(goal) \ Fillers

(* The text a goal asks to enter: what follows its verb.                     *)
TextIntent(goal) ==
    IF goal = <<>> \/ Head(goal) \notin EntryVerbs THEN <<>>
    ELSE LET rest == Tail(goal)
         IN IF Len(rest) > 1 /\ Head(rest) \in {"for", "me", "a", "an", "the"} THEN Tail(rest) ELSE rest

HasEnteredText(history) == \E i \in DOMAIN history : history[i].type = "type" /\ history[i].ok

(* Mutant: what was acted on is not remembered.                              *)
TriedNothing(history) == {}

Tried(history) == {history[i].ref : i \in DOMAIN history} \ {0}

Usable(e) == ~e.sensitive /\ "disabled" \notin e.states

Field(elements, tried) ==
    {e \in elements : /\ e.role \in TextRoles /\ Usable(e)
                      /\ "readonly" \notin e.states /\ e.ref \notin tried}

TypesInto(field, text) ==
    [type |-> "type", ref |-> Min({e.ref : e \in field}), text |-> text, submit |-> TRUE]

HitsIn(text, terms) == Len(SelectSeq(text, LAMBDA w : w \in terms))

(* On the device the group an element belongs to counts twice.               *)
DeviceScore(e, terms) ==
    IF e.name = <<>> THEN 0 ELSE HitsIn(e.name, terms) + 2 * HitsIn(e.group, terms)

ServerScore(e, terms) == HitsIn(e.name, terms)

Done == [type |-> "done"]

(* The first of the best untried elements, if it is a better match than      *)
(* everything that was acted on already.                                     *)
BestClick(elements, clickable, score, tried) ==
    LET acted == {e \in elements : e.ref \in tried}
        open == {e \in elements :
                    /\ e.role \in clickable /\ Usable(e) /\ e.ref \notin tried
                    /\ score[e] > 0 /\ \A d \in acted : score[d] < score[e]}
        best == {e \in open : \A d \in open : score[d] <= score[e]}
    IN IF best = {} THEN Done ELSE [type |-> "click", ref |-> Min({e.ref : e \in best})]

(* Text first, once; then clicks.                                            *)
PlanWithout(elements, goal, history, clickable, score) ==
    LET intent == TextIntent(goal)
        field == Field(elements, Tried(history))
    IN IF intent # <<>> /\ HasEnteredText(history) THEN Done
       ELSE IF intent # <<>> /\ field # {} THEN TypesInto(field, intent)
       ELSE BestClick(elements, clickable, score, Tried(history))

DevicePlan(elements, goal, history) ==
    PlanWithout(elements, goal, history, DeviceClickable,
                [e \in elements |-> DeviceScore(e, GoalTerms(goal))])

HeuristicPlan(elements, goal, history) ==
    PlanWithout(elements, goal, history, ServerClickable,
                [e \in elements |-> ServerScore(e, GoalTerms(goal))])

(* What step.ts does itself when a `done` cannot be believed.                *)
RecoverTextAction(elements, goal) ==
    LET field == Field(elements, {})
    IN IF TextIntent(goal) = <<>> \/ field = {} THEN Done ELSE TypesInto(field, TextIntent(goal))
=============================================================================
