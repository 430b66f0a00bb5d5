------------------------------ MODULE Attachment ------------------------------
(***************************************************************************)
(* Which tab the agent is attached to: decideAttachment of                 *)
(* src/src/orchestrator/attach.ts and, in src/src/entrypoints/             *)
(* background.ts, the follower of the active tab, the toolbar button, the  *)
(* restore after an eviction of the worker, the panel's grant, and what a  *)
(* task reads of the attachment between its awaits.                        *)
(*                                                                         *)
(* The browser is the environment: one window, tabs that show a page of    *)
(* some origin, host permissions (`granted`) and activeTab grants          *)
(* (`transient`). A tab's url is readable exactly under one of the two.    *)
(* The page a capture returns is the one of the tab active at that moment. *)
(* Injection and messages to the page are ContentRequest's.                *)
(***************************************************************************)
EXTENDS Naturals

CONSTANTS
    Tabs, NoTabId,
    Origins,       \* origins a page can have
    Opaque,        \* a readable page without an origin (about:blank)
    NoOrigin,      \* AttachedTab.origin is null
    MaxEvents,     \* bound: what the user and the pages do
    MaxRestarts,   \* bound: evictions of the worker
    MaxTasks       \* bound: tasks started

ASSUME AttachmentAssumption ==
    /\ NoTabId \notin Tabs
    /\ Opaque \notin Origins
    /\ NoOrigin \notin Origins \cup {Opaque}
    /\ MaxEvents \in Nat /\ MaxRestarts \in Nat /\ MaxTasks \in Nat

AttachedTabs ==
    [tab : Tabs, origin : Origins \cup {NoOrigin}, durable : BOOLEAN]
NoTab   == [tab |-> NoTabId, origin |-> NoOrigin, durable |-> FALSE]
Targets ==
    [kind : {"none", "unreadable", "undrivable", "page"},
     tab  : Tabs \cup {NoTabId}, origin : Origins \cup {NoOrigin}]
NoTarget == [kind |-> "none", tab |-> NoTabId, origin |-> NoOrigin]

VARIABLES
    \* the browser
    open,         \* tabs that exist
    active,       \* the active tab of the window
    page,         \* the origin of the page each tab shows
    granted,      \* origins with a host permission
    transient,    \* tabs with a live activeTab grant
    \* the background's memory
    attachedTab,
    loopRunning,
    ready,        \* attachedReady: "reading", "checking" a saved tab, "done"
    restored,     \* the attachment the restore has read
    follows,      \* followActiveTab calls chained on followInFlight
    follow,       \* the one under way: the await it is in, and its locals
    task,         \* runTask: the await it is in, and its locals
    \* session storage
    saved,
    \* the panel
    shown,        \* the last tab/attached event
    grant,        \* the origin of a site/access-confirmed under way
    \* observations
    events, restarts, tasks,
    slips,        \* what went unnoticed: "restore", "grant", "navigation"
    clicked,      \* the toolbar was clicked while the task was under way
    swapped,      \* the active tab changed between the check and the picture
    pictured,     \* the tab whose page the last capture returned
    revoked       \* origins whose permission was taken back

browser == <<open, active, page, granted, transient, revoked>>
memory  == <<attachedTab, loopRunning, ready, restored, follows, follow, task>>
notes   == <<slips, clicked, swapped, pictured>>
vars    == <<browser, memory, saved, shown, grant, events, restarts, tasks, notes>>

NoFollow == [at |-> "idle", target |-> NoTarget, durable |-> FALSE]
NoTask   == [at |-> "off", tab |-> NoTabId, asked |-> NoOrigin, allowed |-> {}]

BrowserOK ==
    /\ open \subseteq Tabs
    /\ active \in open \cup {NoTabId}
    /\ page \in [Tabs -> Origins \cup {Opaque}]
    /\ granted \subseteq Origins
    /\ transient \subseteq open
    /\ revoked \subseteq Origins

AttachmentsOK ==
    /\ attachedTab \in AttachedTabs \cup {NoTab}
    /\ restored \in AttachedTabs \cup {NoTab}
    /\ saved \in AttachedTabs \cup {NoTab}
    /\ shown \in AttachedTabs \cup {NoTab}
    /\ grant \in Origins \cup {NoOrigin}

AwaitsOK ==
    /\ loopRunning = (task.at # "off")
    /\ ready \in {"reading", "checking", "done"}
    /\ follows \in Nat
    /\ follow \in [at : {"idle", "access", "recheck", "injecting"},
                   target : Targets, durable : BOOLEAN]
    /\ task \in [at : {"off", "starting", "access", "preparing", "stepping",
                       "checking", "shooting"},
                 tab : Tabs \cup {NoTabId}, asked : Origins \cup {NoOrigin},
                 allowed : SUBSET Origins]

ObservedOK ==
    /\ events \in 0..MaxEvents /\ restarts \in 0..MaxRestarts /\ tasks \in 0..MaxTasks
    /\ slips \subseteq {"restore", "grant", "navigation"}
    /\ clicked \in BOOLEAN /\ swapped \in BOOLEAN
    /\ pictured \in Tabs \cup {NoTabId}

TypeOK == BrowserOK /\ AttachmentsOK /\ AwaitsOK /\ ObservedOK

Init ==
    /\ open = Tabs
    /\ active \in Tabs
    /\ page \in [Tabs -> Origins]
    /\ granted \in SUBSET Origins      \* kept from earlier sessions
    /\ transient = {} /\ revoked = {}
    /\ attachedTab = NoTab /\ restored = NoTab /\ saved = NoTab /\ shown = NoTab
    /\ loopRunning = FALSE
    /\ ready = "reading"
    /\ follows = 1
    /\ follow = NoFollow /\ task = NoTask
    /\ grant = NoOrigin
    /\ events = 0 /\ restarts = 0 /\ tasks = 0
    /\ slips = {} /\ clicked = FALSE /\ swapped = FALSE
    /\ pictured = NoTabId

-----------------------------------------------------------------------------
(* Pieces the actions share.                                                 *)

Readable(t)      == t \in transient \/ page[t] \in granted
HasSiteAccess(o) == o \in granted

(* Mutant: the attachment changes without the panel being told.              *)
AttachSilently(a) ==
    /\ attachedTab' = a
    /\ saved' = a
    /\ UNCHANGED shown

(* Writes attachedTab, its copy in storage and the panel's view of it.       *)
Persist(a)  == saved' = a
Announce(a) == shown' = a
Attach(a)   == attachedTab' = a /\ Persist(a) /\ Announce(a)

ScheduleFollow == follows' = follows + 1

Happens == events < MaxEvents /\ events' = events + 1

(* resolveTarget of the active tab, as the follower's query returns it.      *)
ResolveTarget ==
    IF active = NoTabId THEN NoTarget
    ELSE [kind   |-> IF ~Readable(active) THEN "unreadable"
                     ELSE IF page[active] = Opaque THEN "undrivable" ELSE "page",
          tab    |-> active,
          origin |-> IF Readable(active) /\ page[active] # Opaque
                     THEN page[active] ELSE NoOrigin]

AttachmentOf(target, durable) ==
    [tab |-> target.tab, origin |-> target.origin, durable |-> durable]

(* Mutant: the run's lock is not looked at.                                  *)
DecideAnyway(target, durable) ==
    /\ IF target.kind = "page"
       THEN /\ follow' = [NoFollow EXCEPT !.at = "injecting"]
            /\ Attach(AttachmentOf(target, durable))
       ELSE follow' = NoFollow /\ Attach(NoTab)

(* decideAttachment and the switch over its answer.                          *)
Decide(target, durable) ==
    \/ /\ \/ loopRunning
          \/ target.kind = "page" /\ attachedTab = AttachmentOf(target, durable)
       /\ follow' = NoFollow
       /\ UNCHANGED <<attachedTab, saved, shown>>
    \/ /\ ~loopRunning
       /\ target.kind # "page"
       /\ follow' = NoFollow
       /\ IF attachedTab # NoTab
          THEN Attach(NoTab)
          ELSE shown' = NoTab /\ UNCHANGED <<attachedTab, saved>>
    \/ /\ ~loopRunning
       /\ target.kind = "page" /\ attachedTab # AttachmentOf(target, durable)
       /\ follow' = [NoFollow EXCEPT !.at = "injecting"]
       /\ Attach(AttachmentOf(target, durable))

-----------------------------------------------------------------------------
(* The browser and the user.                                                 *)

Switch(t) ==
    /\ Happens
    /\ t \in open /\ t # active
    /\ active' = t
    /\ swapped' = (swapped \/ task.at = "shooting")
    /\ ScheduleFollow
    /\ UNCHANGED <<open, page, granted, transient, revoked, attachedTab, loopRunning,
                   ready, restored, follow, task, saved, shown, grant, restarts,
                   tasks, slips, clicked, pictured>>

(* onUpdated leaves a navigation of another tab than the attached one alone. *)
Navigate(t, o) ==
    /\ Happens
    /\ t \in open /\ page[t] # o
    /\ page' = [page EXCEPT ![t] = o]
    /\ transient' = transient \ {t}
    /\ IF attachedTab \in {NoTab, [attachedTab EXCEPT !.tab = t]}
       THEN ScheduleFollow /\ UNCHANGED slips
       ELSE /\ slips' = IF t = active THEN slips \cup {"navigation"} ELSE slips
            /\ UNCHANGED follows
    /\ UNCHANGED <<open, active, granted, revoked, attachedTab, loopRunning, ready,
                   restored, follow, task, saved, shown, grant, restarts, tasks,
                   clicked, swapped, pictured>>

(* onRemoved detaches; the browser activates another tab, if there is one.   *)
Close(t) ==
    /\ Happens
    /\ t \in open
    /\ open' = open \ {t}
    /\ transient' = transient \ {t}
    /\ \/ active # t /\ UNCHANGED <<active, follows, swapped>>
       \/ /\ active = t
          /\ active' \in IF open = {t} THEN {NoTabId} ELSE open \ {t}
          /\ swapped' = (swapped \/ task.at = "shooting")
          /\ ScheduleFollow
    /\ IF attachedTab.tab = t
       THEN Attach(NoTab) ELSE UNCHANGED <<attachedTab, saved, shown>>
    /\ UNCHANGED <<page, granted, revoked, loopRunning, ready, restored, follow, task,
                   grant, restarts, tasks, slips, clicked, pictured>>

Revoke(o) ==
    /\ Happens
    /\ o \in granted
    /\ granted' = granted \ {o}
    /\ revoked' = revoked \cup {o}
    /\ ScheduleFollow
    /\ UNCHANGED <<open, active, page, transient, attachedTab, loopRunning, ready,
                   restored, follow, task, saved, shown, grant, restarts, tasks, notes>>

(* The panel asks for the origin it shows; onAdded fires, and the message    *)
(* site/access-confirmed is on its way.                                      *)
GrantAccess ==
    /\ Happens
    /\ shown.origin # NoOrigin /\ grant = NoOrigin
    /\ granted' = granted \cup {shown.origin}
    /\ grant' = shown.origin
    /\ ScheduleFollow
    /\ UNCHANGED <<open, active, page, transient, revoked, attachedTab, loopRunning,
                   ready, restored, follow, task, saved, shown, restarts, tasks, notes>>

(* onClicked: attached at once, with the origin left to the follower.        *)
ClickToolbar ==
    /\ Happens
    /\ active # NoTabId
    /\ transient' = transient \cup {active}
    /\ Attach([tab |-> active, origin |-> NoOrigin, durable |-> FALSE])
    /\ ScheduleFollow
    /\ clicked' = (clicked \/ loopRunning)
    /\ UNCHANGED <<open, active, page, granted, revoked, loopRunning, ready, restored,
                   follow, task, grant, restarts, tasks, slips, swapped,
                   pictured>>
-----------------------------------------------------------------------------
(* The follower: one followActiveTab after another.                          *)

FollowReads ==
    /\ follow.at = "idle" /\ follows > 0
    /\ follows' = follows - 1
    /\ IF ResolveTarget.kind = "page"
       THEN /\ follow' = [NoFollow EXCEPT !.at = "access", !.target = ResolveTarget]
            /\ UNCHANGED <<attachedTab, saved, shown>>
       ELSE Decide(ResolveTarget, FALSE)
    /\ UNCHANGED <<browser, loopRunning, ready, restored, task, grant, events, restarts,
                   tasks, notes>>

FollowAccess ==
    /\ follow.at = "access"
    /\ follow' = [follow EXCEPT !.at = "recheck",
                                !.durable = HasSiteAccess(follow.target.origin)]
    /\ UNCHANGED <<browser, attachedTab, loopRunning, ready, restored, follows, task,
                   saved, shown, grant, events, restarts, tasks, notes>>

FollowRechecks ==
    /\ follow.at = "recheck"
    /\ IF active = follow.target.tab
       THEN Decide(follow.target, follow.durable)
       ELSE follow' = NoFollow /\ UNCHANGED <<attachedTab, saved, shown>>
    /\ UNCHANGED <<browser, loopRunning, ready, restored, follows, task, grant, events,
                   restarts, tasks, notes>>

FollowInjects ==
    /\ follow.at = "injecting"
    /\ follow' = NoFollow
    /\ UNCHANGED <<browser, attachedTab, loopRunning, ready, restored, follows, task,
                   saved, shown, grant, events, restarts, tasks, notes>>

(* site/access-confirmed, once the restore is over: the origin of the panel's *)
(* message is written into the attachment of the moment.                     *)
AccessConfirmed ==
    /\ grant # NoOrigin /\ ready = "done"
    /\ grant' = NoOrigin
    /\ IF attachedTab = NoTab
       THEN UNCHANGED <<attachedTab, saved, slips>>
       ELSE /\ attachedTab' = [attachedTab EXCEPT !.origin = grant]
            /\ saved' = attachedTab'
            /\ slips' = IF attachedTab.origin = grant THEN slips ELSE slips \cup {"grant"}
    /\ UNCHANGED <<browser, loopRunning, ready, restored, follows, follow, task, shown,
                   events, restarts, tasks, clicked, swapped, pictured>>
-----------------------------------------------------------------------------
(* The worker is evicted and woken by the next event.                        *)

Restart ==
    /\ restarts < MaxRestarts
    /\ restarts' = restarts + 1
    /\ attachedTab' = NoTab /\ restored' = NoTab
    /\ loopRunning' = FALSE
    /\ ready' = "reading"
    /\ follows' = 1
    /\ follow' = NoFollow /\ task' = NoTask
    /\ grant' = NoOrigin
    /\ clicked' = FALSE /\ swapped' = FALSE
    /\ UNCHANGED <<browser, saved, shown, events, tasks, slips, pictured>>

RestoreReads ==
    /\ ready = "reading"
    /\ restored' = saved
    /\ ready' = IF saved = NoTab THEN "done" ELSE "checking"
    /\ UNCHANGED <<browser, attachedTab, loopRunning, follows, follow, task, saved, shown,
                   grant, events, restarts, tasks, notes>>

(* tabs.get of the saved tab: it is attached, or, when it is gone, nothing   *)
(* is; either way whatever was attached meanwhile is overwritten.            *)
RestoreLands ==
    /\ ready = "checking"
    /\ ready' = "done"
    /\ attachedTab' = IF restored.tab \in open THEN restored ELSE NoTab
    /\ slips' = IF attachedTab' = shown THEN slips ELSE slips \cup {"restore"}
    /\ UNCHANGED <<browser, loopRunning, restored, follows, follow, task, saved, shown,
                   grant, events, restarts, tasks, clicked, swapped, pictured>>
-----------------------------------------------------------------------------
(* A task: agent/run, what runTask reads of the attachment, its captures.    *)

RunTask ==
    /\ tasks < MaxTasks
    /\ ~loopRunning
    /\ loopRunning' = TRUE
    /\ task' = [NoTask EXCEPT !.at = "starting"]
    /\ tasks' = tasks + 1
    /\ clicked' = FALSE /\ swapped' = FALSE /\ pictured' = NoTabId
    /\ UNCHANGED <<browser, attachedTab, ready, restored, follows, follow, saved, shown,
                   grant, events, restarts, slips>>

(* Mutant: what was suspended by the task is not taken up after it.          *)
EndedUnfollowed ==
    /\ task' = NoTask
    /\ loopRunning' = FALSE
    /\ UNCHANGED follows

(* Every end of runTask goes through `finally`.                              *)
Ended ==
    /\ task' = NoTask
    /\ loopRunning' = FALSE
    /\ ScheduleFollow

TaskStarts ==
    /\ task.at = "starting" /\ ready = "done"
    /\ IF attachedTab = NoTab
       THEN Ended
       ELSE /\ task' = [task EXCEPT !.at = "access", !.tab = attachedTab.tab,
                                    !.asked = attachedTab.origin]
            /\ clicked' = FALSE
            /\ UNCHANGED <<loopRunning, follows>>
    /\ (attachedTab = NoTab => UNCHANGED clicked)
    /\ UNCHANGED <<browser, attachedTab, ready, restored, follow, saved, shown, grant,
                   events, restarts, tasks, slips, swapped, pictured>>

(* Mutant: a task runs on a page whose access dies with its first click.     *)
TaskAssumesAccess ==
    /\ task.at = "access"
    /\ task' = [task EXCEPT !.at = "preparing"]
    /\ UNCHANGED <<browser, attachedTab, loopRunning, ready, restored, follows, follow,
                   saved, shown, grant, events, restarts, tasks, notes>>

TaskAccess ==
    /\ task.at = "access"
    /\ IF HasSiteAccess(task.asked)
       THEN task' = [task EXCEPT !.at = "preparing"] /\ UNCHANGED <<loopRunning, follows>>
       ELSE Ended
    /\ UNCHANGED <<browser, attachedTab, ready, restored, follow, saved, shown, grant,
                   events, restarts, tasks, notes>>

(* runAgentLoop is called: navigableOrigins() is read now.                   *)
TaskLoops ==
    /\ task.at = "preparing"
    /\ task' = [task EXCEPT !.at = "stepping",
                            !.allowed = {attachedTab.origin} \ {NoOrigin}]
    /\ UNCHANGED <<browser, attachedTab, loopRunning, ready, restored, follows, follow,
                   saved, shown, grant, events, restarts, tasks, notes>>

(* captureVisibleTab as the adapter is given it: the attachment is compared  *)
(* first, then the tab is looked up, then the window is photographed.        *)
CaptureAsked ==
    /\ task.at = "stepping"
    /\ attachedTab.tab = task.tab
    /\ task' = [task EXCEPT !.at = "checking"]
    /\ pictured' = NoTabId
    /\ UNCHANGED <<browser, attachedTab, loopRunning, ready, restored, follows, follow,
                   saved, shown, grant, events, restarts, tasks, slips,
                   clicked, swapped>>

(* Mutant: the tab is not asked whether it is the visible one.               *)
CaptureUnchecked ==
    /\ task.at = "checking"
    /\ task' = [task EXCEPT !.at = "shooting"]
    /\ swapped' = FALSE
    /\ UNCHANGED <<browser, attachedTab, loopRunning, ready, restored, follows, follow,
                   saved, shown, grant, events, restarts, tasks, slips,
                   clicked, pictured>>

CaptureChecked ==
    /\ task.at = "checking"
    /\ task' = [task EXCEPT !.at = IF active = task.tab THEN "shooting" ELSE "stepping"]
    /\ swapped' = FALSE
    /\ UNCHANGED <<browser, attachedTab, loopRunning, ready, restored, follows, follow,
                   saved, shown, grant, events, restarts, tasks, slips,
                   clicked, pictured>>

CaptureTaken ==
    /\ task.at = "shooting"
    /\ task' = [task EXCEPT !.at = "stepping"]
    /\ pictured' = active
    /\ UNCHANGED <<browser, attachedTab, loopRunning, ready, restored, follows, follow,
                   saved, shown, grant, events, restarts, tasks, slips,
                   clicked, swapped>>

TaskEnds ==
    /\ task.at \in {"preparing", "stepping"}
    /\ Ended
    /\ UNCHANGED <<browser, attachedTab, ready, restored, follow, saved, shown, grant,
                   events, restarts, tasks, notes>>
-----------------------------------------------------------------------------
UserNext ==
    \/ \E t \in Tabs : Switch(t) \/ Close(t)
    \/ \E t \in Tabs, o \in Origins \cup {Opaque} : Navigate(t, o)
    \/ \E o \in Origins : Revoke(o)
    \/ GrantAccess \/ ClickToolbar

FollowNext == FollowReads \/ FollowAccess \/ FollowRechecks \/ FollowInjects

TaskNext ==
    \/ TaskStarts \/ TaskAccess \/ TaskLoops
    \/ CaptureAsked \/ CaptureChecked \/ CaptureTaken
    \/ TaskEnds

Next ==
    \/ UserNext
    \/ FollowNext \/ AccessConfirmed
    \/ Restart \/ RestoreReads \/ RestoreLands
    \/ RunTask \/ TaskNext

Spec == Init /\ [][Next]_vars
-----------------------------------------------------------------------------
(* Properties.                                                               *)

Quiet ==
    /\ follows = 0 /\ follow.at = "idle" /\ ready = "done"
    /\ ~loopRunning /\ grant = NoOrigin
CalledFor ==
    IF ResolveTarget.kind = "page"
    THEN AttachmentOf(ResolveTarget, HasSiteAccess(ResolveTarget.origin))
    ELSE NoTab

(* The tab the panel names is the tab a task would drive, at every moment:   *)
(* every path that writes attachedTab announces it. And when nothing is      *)
(* under way the attachment is what the active tab calls for: attached to it *)
(* under the origin of its page when that can be read and driven, to nothing *)
(* otherwise, whatever order switches, navigations, grants, revocations and  *)
(* the ends of tasks came in. Excused: a restore that landed late            *)
(* (background.ts:1282), a grant recorded for another page than it was asked *)
(* for, and a navigation that onUpdated took for one of a background tab.    *)
FollowsTheUser ==
    /\ ready = "done" /\ "restore" \notin slips => shown.tab = attachedTab.tab
    /\ Quiet /\ slips = {} => attachedTab = CalledFor

(* attach.ts, "a run owns the tab it started on": from the moment a task has *)
(* read its tab, whatever follows are under way, the attachment is that tab  *)
(* or none, unless the user clicked the toolbar meanwhile; a picture is of   *)
(* that tab, unless the user changed tabs between the check and the picture  *)
(* (background.ts:1859-1873); and the origins it may navigate to, read       *)
(* several awaits after the grant was checked, are ones the user granted.    *)
RunKeepsItsBounds ==
    /\ task.tab # NoTabId =>
           /\ clicked \/ attachedTab.tab \in {task.tab, NoTabId}
           /\ swapped \/ pictured \in {task.tab, NoTabId}
    /\ task.allowed \subseteq granted \cup revoked
=============================================================================
