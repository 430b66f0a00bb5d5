------------------------------ MODULE AgentTask ------------------------------
(***************************************************************************)
(* What a run of the agent promises, without saying how it decides: the    *)
(* contract between runTask (src/src/entrypoints/background.ts) and the    *)
(* loop and step beneath it, and what a person watching the page and the   *)
(* network would see.                                                      *)
(*                                                                         *)
(* A run is a bounded number of observations of the page. Each observation *)
(* may send contexts, safe ones only; only an observation that sent one    *)
(* may act on the page, and at most once. Stop lets the observation under  *)
(* way finish and allows no other.                                         *)
(***************************************************************************)
EXTENDS Naturals

CONSTANT MaxSteps   \* observations a run may make

VARIABLES
    phase,     \* "between" steps, "looking", "asked", "acted", or "ended"
    begun,     \* observations begun
    acted,     \* page actions performed
    stopping,  \* Stop was pressed
    leaked     \* something unsafe was sent

taskVars == <<phase, begun, acted, stopping, leaked>>

TaskInit ==
    /\ phase = "between"
    /\ begun = 0
    /\ acted = 0
    /\ stopping = FALSE
    /\ leaked = FALSE

Look ==
    /\ phase = "between"
    /\ begun < MaxSteps
    /\ ~stopping
    /\ begun' = begun + 1
    /\ phase' = "looking"
    /\ UNCHANGED <<acted, stopping, leaked>>

Send ==
    /\ phase = "looking"
    /\ phase' = "asked"
    /\ UNCHANGED <<begun, acted, stopping, leaked>>

Act ==
    /\ phase = "asked"
    /\ phase' = "acted"
    /\ acted' = acted + 1
    /\ UNCHANGED <<begun, stopping, leaked>>

Rest ==
    /\ phase \in {"looking", "asked", "acted"}
    /\ phase' = "between"
    /\ UNCHANGED <<begun, acted, stopping, leaked>>

End ==
    /\ phase # "ended"
    /\ phase' = "ended"
    /\ UNCHANGED <<begun, acted, stopping, leaked>>

AskToStop ==
    /\ stopping' = TRUE
    /\ UNCHANGED <<phase, begun, acted, leaked>>

TaskNext == Look \/ Send \/ Act \/ Rest \/ End \/ AskToStop

TaskSpec == TaskInit /\ [][TaskNext]_taskVars
=============================================================================
