------------------------------- MODULE Execution -------------------------------
(***************************************************************************)
(* execution/actions.ts of src/src: whether an action on a live element is *)
(* reported as done.  What the page makes of it is the page's: the value a *)
(* field reads afterwards, and the options of a select.                     *)
(***************************************************************************)
EXTENDS Integers, Sequences, SequencesExt

CONSTANT Spellings     \* sets of texts that are one number or the same digits

SameDigits(a, b) == \E s \in Spellings : {a, b} \subseteq s

IsValueElement(el) == el.tag \in {"input", "textarea", "select"}

(* What landed in a field that read before, was given expected, and reads    *)
(* actual now.                                                               *)
ClassifyFill(before, expected, actual) ==
    CASE actual = expected -> "exact"
      [] actual # expected /\ SameDigits(actual, expected) -> "equivalent"
      [] OTHER ->
           IF before # <<>> /\ actual = before \o expected THEN "appended"
           ELSE IF actual = before THEN "unchanged" ELSE "transformed"

FillAccepted(outcome) == outcome \in {"exact", "equivalent", "transformed"}

(* A select takes nothing but its options.                                   *)
Types(text, el, actual) ==
    LET outcome == ClassifyFill(el.value, text, actual)
    IN /\ IsValueElement(el)
       /\ FillAccepted(outcome)
       /\ el.tag = "select" => outcome \in {"exact", "equivalent"}

(* An option is found by its value, and failing that by its text.            *)
Selects(option, el, options) ==
    el.tag = "select" /\ \E o \in options : o.value = option \/ o.text = option

(* Every other action is done once its element is there; where a clicked     *)
(* link opens is left out.                                                   *)
ExecuteAction(action, el, made) ==
    CASE action.type = "type" -> Types(action.text, el, made.value)
      [] action.type = "select" -> Selects(action.option, el, made.options)
      [] OTHER -> TRUE
=============================================================================
