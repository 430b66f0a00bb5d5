---------------------------- MODULE ContentRequest ----------------------------
(***************************************************************************)
(* How the background talks to the page (src/src/entrypoints/background.ts *)
(* and content.ts). No content script is registered: it is injected when   *)
(* something asks for it, and a navigation takes it away. contentRequest   *)
(* sends a command, and when nobody listens waits for the page, injects    *)
(* and sends again, at most twice; the toolbar button and the following of *)
(* the active tab inject as well, beside it.                               *)
(*                                                                         *)
(* Documents of the tab are numbered as they commit. The command is one    *)
(* whose repetition matters (execute); what it does to the page is left    *)
(* out, and how often it was performed is counted.                         *)
(***************************************************************************)
EXTENDS Naturals

CONSTANTS
    Requesters,   \* callers of contentRequest that can be under way at once
    Openers,      \* callers of ensureContentScript that send nothing after it
    MaxDocs,      \* bound: documents committed
    MaxRequests   \* bound: requests made

Callers == Requesters \cup Openers

ASSUME RequestAssumption ==
    /\ Requesters \cap Openers = {}
    /\ MaxDocs \in Nat \ {0}
    /\ MaxRequests \in Nat

VARIABLES
    \* the tab
    doc,        \* the document it shows
    listeners,  \* content scripts listening in that document
    \* the callers
    at,         \* the await each is suspended in
    attempts,   \* resends a request has begun
    \* observations
    began,      \* the document when the request was made
    sentTo,     \* the document that received the message
    performed,  \* times the request's command was performed
    cutOff,     \* whether a reply to the request was lost
    crowded,    \* whether any document ever had two listeners
    requests    \* requests made

tabVars == <<doc, listeners>>
obsVars == <<began, sentTo, performed, cutOff, crowded, requests>>
requestVars == <<tabVars, at, attempts, obsVars>>

Finished == {"answered", "lost", "threw"}
Free  == {"idle"} \cup Finished

RequestInit ==
    /\ doc = 1
    /\ listeners = 0
    /\ at = [c \in Callers |-> "idle"]
    /\ attempts = [r \in Requesters |-> 0]
    /\ began = [r \in Requesters |-> 1]
    /\ sentTo = [r \in Requesters |-> 1]
    /\ performed = [r \in Requesters |-> 0]
    /\ cutOff = [r \in Requesters |-> FALSE]
    /\ crowded = FALSE
    /\ requests = 0

Goes(c, place) == at' = [at EXCEPT ![c] = place]

-----------------------------------------------------------------------------
(* The tab: the user, the page and the agent's own clicks navigate it.       *)

Commits ==
    /\ doc < MaxDocs
    /\ doc' = doc + 1
    /\ listeners' = 0
    /\ UNCHANGED <<at, attempts, obsVars>>

-----------------------------------------------------------------------------
(* ensureContentScript.                                                      *)

(* The toolbar button, the following of a tab, the start of a run or a step. *)
Opens(o) ==
    /\ at[o] = "idle"
    /\ Goes(o, "pinging")
    /\ UNCHANGED <<tabVars, attempts, obsVars>>

(* Where the caller goes once there is a content script, and when none can   *)
(* be injected; the toolbar and the following of tabs only log the latter.   *)
Ensured(c) == IF c \in Requesters THEN "sending" ELSE "idle"
Refused(c) == IF c \in Requesters THEN "threw" ELSE "idle"

(* Mutant: it asks until somebody answers.                                   *)
PingForever(c) == listeners > 0 /\ Goes(c, Ensured(c))

Ping(c) == Goes(c, IF listeners > 0 THEN Ensured(c) ELSE "injecting")

Pings(c) ==
    /\ at[c] = "pinging"
    /\ Ping(c)
    /\ UNCHANGED <<tabVars, attempts, obsVars>>

Injects(c) ==
    /\ at[c] = "injecting"
    /\ listeners' = listeners + 1
    /\ Goes(c, Ensured(c))
    /\ crowded' = (crowded \/ listeners > 0)
    /\ UNCHANGED <<doc, attempts, began, sentTo, performed, cutOff, requests>>

(* Access was revoked, or there is no tab to inject into.                    *)
InjectFails(c) ==
    /\ at[c] = "injecting"
    /\ Goes(c, Refused(c))
    /\ UNCHANGED <<tabVars, attempts, obsVars>>

-----------------------------------------------------------------------------
(* contentRequest.                                                           *)

Requests(r) ==
    /\ at[r] \in Free
    /\ requests < MaxRequests
    /\ requests' = requests + 1
    /\ Goes(r, "sending")
    /\ attempts' = [attempts EXCEPT ![r] = 0]
    /\ began' = [began EXCEPT ![r] = doc]
    /\ performed' = [performed EXCEPT ![r] = 0]
    /\ cutOff' = [cutOff EXCEPT ![r] = FALSE]
    /\ UNCHANGED <<tabVars, sentTo, crowded>>

(* Every listener of the document gets the message, and performs it at once. *)
Receives(r) ==
    /\ at[r] = "sending"
    /\ listeners > 0
    /\ Goes(r, "replying")
    /\ performed' = [performed EXCEPT ![r] = @ + listeners]
    /\ sentTo' = [sentTo EXCEPT ![r] = doc]
    /\ UNCHANGED <<tabVars, attempts, began, cutOff, crowded, requests>>

(* Mutant: a resend that found nobody is the last.                           *)
ResendOnce(r) ==
    IF attempts[r] < 1
    THEN Goes(r, "waiting") /\ attempts' = [attempts EXCEPT ![r] = @ + 1]
    ELSE Goes(r, "lost") /\ UNCHANGED attempts

(* Two resends after the first message.                                      *)
Resend(r) ==
    IF attempts[r] < 2
    THEN Goes(r, "waiting") /\ attempts' = [attempts EXCEPT ![r] = @ + 1]
    ELSE Goes(r, "lost") /\ UNCHANGED attempts

(* Mutant: a command that failed is sent again.                              *)
RepliesAgain(r) ==
    /\ at[r] = "replying"
    /\ (Goes(r, "answered") /\ UNCHANGED attempts) \/ Resend(r)
    /\ UNCHANGED <<tabVars, obsVars>>

(* The script's own failure is reported as it is.                            *)
Replies(r) ==
    /\ at[r] = "replying"
    /\ Goes(r, "answered") \/ Goes(r, "threw")
    /\ UNCHANGED <<tabVars, attempts, obsVars>>

(* "Receiving end does not exist".                                           *)
NobodyListens(r) ==
    /\ at[r] = "sending"
    /\ listeners = 0
    /\ Resend(r)
    /\ UNCHANGED <<tabVars, obsVars>>

(* "The message port closed before a response was received": the document    *)
(* that got the message was replaced before its reply was out. isNoReceiver  *)
(* takes this for the same.                                                  *)
PortCloses(r) ==
    /\ at[r] = "replying"
    /\ sentTo[r] # doc
    /\ Resend(r)
    /\ cutOff' = [cutOff EXCEPT ![r] = TRUE]
    /\ UNCHANGED <<tabVars, began, sentTo, performed, crowded, requests>>

(* waitForTabReady ends whatever the page does: the tab is complete, or it   *)
(* cannot be told, or time is up.                                            *)
Waited(r) ==
    /\ at[r] = "waiting"
    /\ Goes(r, "pinging")
    /\ UNCHANGED <<tabVars, attempts, obsVars>>

Caller(c) ==
    \/ Pings(c) \/ Injects(c) \/ InjectFails(c)
    \/ Waited(c) \/ Receives(c) \/ Replies(c) \/ NobodyListens(c) \/ PortCloses(c)

RequestNext ==
    \/ Commits
    \/ \E o \in Openers : Opens(o)
    \/ \E r \in Requesters : Requests(r)
    \/ \E c \in Callers : Caller(c)

(* Messages to a tab, pings and injections settle; nobody has to navigate    *)
(* or ask.                                                                   *)
RequestSpec == RequestInit /\ [][RequestNext]_requestVars /\ \A c \in Callers : WF_requestVars(Caller(c))

-----------------------------------------------------------------------------
RequestTypeOK ==
    /\ doc \in 1 .. MaxDocs
    /\ listeners \in Nat
    /\ at \in [Callers -> {"pinging", "injecting", "waiting", "sending", "replying"} \cup Free]
    /\ attempts \in [Requesters -> 0 .. 2]
    /\ began \in [Requesters -> Nat] /\ sentTo \in [Requesters -> Nat]
    /\ performed \in [Requesters -> Nat]
    /\ cutOff \in [Requesters -> BOOLEAN] /\ crowded \in BOOLEAN
    /\ requests \in 0 .. MaxRequests
    /\ \A o \in Openers : at[o] \in {"idle", "pinging", "injecting"}

(* However often a command is sent, it is performed at most once, unless its *)
(* reply was lost with the document that performed it, or two injections     *)
(* met in one document.                                                      *)
PerformedOnce ==
    \A r \in Requesters : performed[r] > 1 => cutOff[r] \/ crowded

(* A request is given up as unheard only when two more documents came after  *)
(* the one it was made for: one navigation, or a page without its script,    *)
(* never loses it.                                                           *)
LostToNavigation == \A r \in Requesters : at[r] = "lost" => doc >= began[r] + 2

(* Every request, and every injection, ends.                                 *)
RequestEnds == \A c \in Callers : at[c] \notin Free ~> at[c] \in Free
=============================================================================
