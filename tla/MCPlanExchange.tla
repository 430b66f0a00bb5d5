----------------------------- MODULE MCPlanExchange -----------------------------
(* An instance of PlanExchange for TLC.                                      *)
EXTENDS PlanExchange

Nothing == [endpoint |-> "", model |-> "", key |-> "", gemini |-> "", openai |-> "",
            reasoning |-> TRUE, keepAlive |-> TRUE, auth |-> FALSE]

SomeEnvironments ==
    {Nothing,
     [Nothing EXCEPT !.gemini = "good", !.auth = TRUE],
     [Nothing EXCEPT !.openai = "bad"],
     [Nothing EXCEPT !.endpoint = "ollama", !.model = "qwen"],
     [Nothing EXCEPT !.endpoint = "other", !.model = "qwen", !.openai = "good", !.reasoning = FALSE]}

Provider(listed, hides, thinks) ==
    [key |-> "good", listed |-> listed, hides |-> hides, thinks |-> thinks, pinned |-> 4]

SomeProviders == {Provider(TRUE, TRUE, FALSE), Provider(FALSE, FALSE, TRUE), Provider(TRUE, FALSE, TRUE)}
=============================================================================
