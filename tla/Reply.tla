---------------------------------- MODULE Reply ----------------------------------
(***************************************************************************)
(* agent-server/parse-action.ts of src/src: the one action in a model's    *)
(* reply, or why there is none.                                            *)
(*                                                                         *)
(* A reply is a sequence of tokens [t]: "open", "close" (braces), "quote", *)
(* "escape", "text", and "action" or "named", what an object says: an      *)
(* action, a record with its type, or a type nobody knows.                 *)
(***************************************************************************)
EXTENDS Integers, Sequences, SequencesExt

(* The balanced objects of a text; a brace inside a string is not one.       *)
ExtractJson(raw) ==
    LET Step(s, i) ==
            IF s.inString /\ s.escaped THEN [s EXCEPT !.escaped = FALSE]
            ELSE IF s.inString /\ raw[i].t = "escape" THEN [s EXCEPT !.escaped = TRUE]
            ELSE IF raw[i].t = "quote" THEN [s EXCEPT !.inString = ~@]
            ELSE IF s.inString THEN s
            ELSE IF raw[i].t = "open" THEN [s EXCEPT !.depth = @ + 1, !.start = IF s.depth = 0 THEN i ELSE @]
            ELSE IF raw[i].t = "close" /\ s.depth > 0
            THEN [s EXCEPT !.depth = @ - 1,
                           !.out = IF s.depth = 1 THEN Append(@, SubSeq(raw, s.start, i)) ELSE @]
            ELSE s
    IN FoldLeft(Step, [depth |-> 0, start |-> 0, inString |-> FALSE, escaped |-> FALSE, out |-> <<>>],
                [i \in DOMAIN raw |-> i]).out

(* An object is well formed when it says one thing, with nothing but strings *)
(* around it; the thing may be wrapped once, as {"action": {...}}.           *)
Says(object) == SelectSeq(object, LAMBDA token : token.t \in {"action", "named"})
Formed(object) == \A i \in DOMAIN object : object[i].t # "text" \/ \E j \in 1..i : object[j].t = "quote"

Fields(type) ==
    CASE type = "click" -> {"address"}
      [] type = "type" -> {"address", "text"}
      [] type = "select" -> {"address", "option"}
      [] type = "scroll" -> {"direction", "amountPx"}
      [] type = "wait" -> {"ms"}
      [] type = "key" -> {"key"}
      [] type = "navigate" -> {"url"}
      [] type = "ask_user" -> {"question"}
      [] type = "done" -> {"summary"}
      [] type = "abort" -> {"reason"}
      [] OTHER -> {}

None == [code |-> "no-json-found"]

(* Fields that are missing, of a wrong type or out of range refuse the       *)
(* action; a text that is too long is cut. An amount, a duration and `submit`*)
(* may be missing, and get a default.                                        *)
BuildAction(said) ==
    LET broken == said.bad \cap Fields(said.action.type)
    IN IF broken # {} THEN [code |-> "missing-field"] ELSE [code |-> "ok", action |-> said.action]

(* Exactly one action, wherever in the reply it stands.                      *)
ParseAction(raw) ==
    LET objects == ExtractJson(raw)
        formed == SelectSeq(objects, Formed)
        actions == SelectSeq(formed, LAMBDA o : Says(o) # <<>> /\ Says(o)[1].t = "action")
        named == SelectSeq(formed, LAMBDA o : Says(o) # <<>> /\ Says(o)[1].t = "named")
    IN IF raw = <<>> THEN [code |-> "empty-input"]
       ELSE IF objects = <<>> THEN None
       ELSE IF actions # <<>>
       THEN IF Len(actions) > 1 THEN [code |-> "multiple-actions"] ELSE BuildAction(Says(actions[1])[1])
       ELSE IF named # <<>> THEN [code |-> "unknown-type"]
       ELSE IF Len(formed) < Len(objects) THEN [code |-> "malformed-json"] ELSE [code |-> "not-an-object"]
=============================================================================
