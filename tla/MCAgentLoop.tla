----------------------------- MODULE MCAgentLoop -----------------------------
(* Instances of AgentLoop for TLC: which settings a run may have.            *)
EXTENDS AgentLoop

Settings(vision, screenshot, planOnly, selfAsks, answered, needsAct, prior) ==
    [vision : vision, screenshot : screenshot, planOnly : planOnly,
     selfAsks : selfAsks, answered : answered, needsAct : needsAct, prior : prior]

(* Deciding and acting: the planner's replies vary, perception does not.     *)
DecidingInputs ==
    Settings({FALSE}, {FALSE}, {FALSE}, {TRUE}, {FALSE}, BOOLEAN, BOOLEAN)
        \cup Settings({FALSE}, {FALSE}, {TRUE}, {TRUE}, {FALSE}, {TRUE}, {FALSE})

(* Perceiving: vision and screenshot vary, on an off-device planner, and a   *)
(* planner that cannot ask itself, with the page kept out of reach.          *)
PerceivingInputs ==
    Settings(BOOLEAN, BOOLEAN, {FALSE}, {TRUE}, {FALSE}, {FALSE}, {FALSE})
        \cup Settings({FALSE}, {TRUE}, {TRUE}, BOOLEAN, {FALSE}, {TRUE}, {FALSE})
=============================================================================
