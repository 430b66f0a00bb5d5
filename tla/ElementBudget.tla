----------------------------- MODULE ElementBudget ----------------------------
(***************************************************************************)
(* contracts/budget.ts of src/src: which elements of a page, and whether   *)
(* its picture, fit a prompt.                                              *)
(*                                                                         *)
(* An element has role, name, group (sequences of words), value, rect,     *)
(* states and sensitive.  Sizes are in words instead of bytes: what is     *)
(* compared is a sum of parts, and a word stands for its characters.       *)
(***************************************************************************)
EXTENDS Selection, FiniteSets

CONSTANTS
    MaxTokens,         \* policy.maxPromptTokens
    MinElements,       \* never drop below this many
    MaxPerName,        \* elements of one role and name that are sent
    ImageTokens,       \* cost of the screenshot
    Scaffolding,       \* cost of the prompt around the elements
    BoxSize,           \* what an element's geometry adds
    ViewW, ViewH       \* the viewport, css pixels

ASSUME BudgetAssumption ==
    {MaxTokens, MinElements, MaxPerName, ImageTokens, Scaffolding, BoxSize, ViewW, ViewH} \subseteq Nat

ElementSize(e, withBox, repeated) ==
    1 + Len(e.name) + Len(e.value)
      + (IF e.group # <<>> /\ e.group # e.name /\ repeated THEN Len(e.group) ELSE 0)
      + (IF withBox THEN BoxSize ELSE 0) + (IF e.sensitive THEN 1 ELSE 0) + Cardinality(e.states)

OnScreen(e) ==
    e.rect # <<>> /\ e.rect.y < ViewH /\ e.rect.y + e.rect.h > 0 /\ e.rect.x < ViewW /\ e.rect.x + e.rect.w > 0

RoleRank(role) ==
    CASE role \in {"textbox", "searchbox", "combobox", "spinbutton"} -> 4
      [] role \in {"button", "checkbox", "radio", "listbox", "slider"} -> 3
      [] role = "link" -> 2
      [] role = "heading" -> 1
      [] OTHER -> 0

(* How much an element is worth to a goal whose words are terms.             *)
RankElement(e, terms) ==
    LET hits == Cardinality({i \in DOMAIN e.name : e.name[i] \in terms})
    IN RoleRank(e.role)
       + (IF e.role \in {"searchbox", "textbox"} /\ terms # {} THEN 4 ELSE 0)
       + (IF hits > 0 THEN 2 ELSE 0)
       + (IF Len(e.name) \in 1..6 /\ 2 * hits >= Len(e.name) THEN 5 ELSE 0)
       + (IF ToSet(e.group) \cap terms # {} THEN 3 ELSE 0)
       - (IF e.name = <<>> THEN 2 ELSE 0)
       + (IF e.states \cap {"required", "invalid", "focused"} # {} THEN 1 ELSE 0)
       + (IF OnScreen(e) THEN 1 ELSE 0)

(* Beyond MaxPerName of one role and name, those on screen counted first.    *)
Collapsed(all) ==
    LET order == SortSeq([i \in DOMAIN all |-> i], LAMBDA i, j : OnScreen(all[i]) /\ ~OnScreen(all[j]))
        same(i, j) == all[i].role = all[j].role /\ all[i].name = all[j].name
    IN {order[n] : n \in {m \in DOMAIN order :
            Cardinality({k \in 1..m : same(order[k], order[m])}) > MaxPerName}}

Total(sizes) == FoldLeft(LAMBDA sum, n : sum + n, 0, sizes)

(* The places of those that are left then, and the elements that are when    *)
(* some of them are removed, all in the order of the page.                   *)
Survivors(all) == Kept([i \in DOMAIN all |-> i], DOMAIN all \ Collapsed(all))

Remaining(all, removed) ==
    LET left == Those(Survivors(all), LAMBDA i : i \notin removed)
    IN [k \in DOMAIN left |-> all[left[k]]]

(* Geometry goes first, then the picture, then the least worthy elements,    *)
(* the later one of two that are worth the same.                             *)
ApplyElementBudget(all, terms, withImage) ==
    LET survivors == Survivors(all)
        key(e) == <<e.role, e.name>>
        repeated(e) == Cardinality({i \in DOMAIN all : key(all[i]) = key(e)}) > 1
        size(i, withBox) == ElementSize(all[i], withBox, repeated(all[i]))
        text(withBox) ==
            Scaffolding + Total([k \in DOMAIN survivors |-> size(survivors[k], withBox)])
        tight(cost) == cost > MaxTokens
        image(on) == IF on THEN ImageTokens ELSE 0
        boxes == withImage /\ ~tight(text(withImage) + image(withImage))
        shot == withImage /\ ~tight(text(boxes) + image(TRUE))
        victims == SortSeq(survivors, LAMBDA i, j :
                        \/ RankElement(all[i], terms) < RankElement(all[j], terms)
                        \/ RankElement(all[i], terms) = RankElement(all[j], terms) /\ i > j)
        Drop(state, i) ==
            IF \/ ~tight(state.cost)
               \/ Len(survivors) - Cardinality(state.removed) <= MinElements
            THEN state
            ELSE [removed |-> state.removed \cup {i}, cost |-> state.cost - size(i, boxes)]
        left == FoldLeft(Drop, [removed |-> {}, cost |-> text(boxes) + image(shot)], victims)
    IN [kept |-> Remaining(all, left.removed),
        estimated |-> left.cost, screenshotDropped |-> withImage /\ ~shot,
        geometryOmitted |-> withImage /\ ~boxes, dropped |-> left.removed,
        collapsed |-> Collapsed(all)]
=============================================================================
