------------------------------ MODULE TabProofs -------------------------------
(***************************************************************************)
(* What of the background's dealings with its tab holds in general: of the *)
(* attachment, for any tabs, origins and pages, and any number of switches,*)
(* grants, tasks and evictions; and of the requests to the page, for any   *)
(* number of callers, documents and requests.                              *)
(***************************************************************************)
EXTENDS Attachment, ContentRequest, TLAPS

-----------------------------------------------------------------------------
(* The attachment.                                                           *)

(* A follower that has gone past its query has found a page in a tab.        *)
Following ==
    follow.at \in {"access", "recheck"} =>
        follow.target.kind = "page" /\ follow.target.tab \in Tabs

Granted == granted \cup revoked \cup {NoOrigin}

(* A task has a tab once the restore is over, and until it is over; what it  *)
(* was asked for, and what the panel is about to confirm, was once granted.  *)
TaskOwns ==
    /\ task.at \in {"off", "starting"} <=> task.tab = NoTabId
    /\ task.at \in {"off", "starting", "access", "preparing"} => task.allowed = {}
    /\ task.tab # NoTabId => ready = "done"
    /\ grant \in Granted
    /\ task.at = "access" => attachedTab.origin \in Granted \cup {task.asked}
    /\ task.at = "preparing" => attachedTab.origin \in Granted

(* Between the check and the picture nothing has been taken yet, and the     *)
(* tab checked is the active one unless the user changed it.                 *)
Aimed ==
    /\ task.at \in {"starting", "checking", "shooting"} => pictured = NoTabId
    /\ task.at = "shooting" /\ ~swapped => active = task.tab

Bounds == TaskOwns /\ Aimed /\ RunKeepsItsBounds

(* What a restore finds: while it is under way, whatever is attached has     *)
(* been stored and announced, and nothing is shown when nothing is stored.   *)
Restorable ==
    /\ "restore" \notin slips /\ saved = NoTab => shown.tab = NoTabId
    /\ ready = "reading" /\ attachedTab # NoTab => saved = attachedTab
    /\ ready # "done" /\ attachedTab # NoTab => shown = attachedTab
    /\ ready = "done" /\ "restore" \notin slips => shown.tab = attachedTab.tab

(* A follower under way that still means the active tab as it is.            *)
UpToDate ==
    \/ follow.at = "access" /\ follow.target = ResolveTarget
    \/ /\ follow.at = "recheck" /\ follow.target = ResolveTarget
       /\ follow.durable = HasSiteAccess(ResolveTarget.origin)

Settled ==
    /\ follow.at \in {"idle", "injecting"}
    /\ attachedTab = CalledFor
    /\ ready # "done" => shown = attachedTab

(* Outside a task, what the active tab calls for is attached or will be.     *)
Followed == slips = {} /\ ~loopRunning => follows > 0 \/ UpToDate \/ Settled

IInv == Following /\ Bounds /\ Restorable /\ Followed
-----------------------------------------------------------------------------
(* Types.                                                                    *)

(* The tabs are not the absence of one, and so with the origins.             *)
LEMMA Distinct ==
    /\ NoTabId \notin Tabs /\ NoOrigin \notin Origins /\ Opaque \notin Origins
    /\ NoTab.tab = NoTabId /\ NoTab.origin = NoOrigin
    /\ NoTab \notin AttachedTabs
    /\ \A a \in AttachedTabs : a.tab \in Tabs /\ a.tab # NoTabId /\ a # NoTab
BY AttachmentAssumption DEF AttachedTabs, NoTab

(* What the query of the active tab finds.                                   *)
LEMMA Resolved ==
    ASSUME BrowserOK
    PROVE  /\ ResolveTarget \in Targets
           /\ ResolveTarget.kind = "page" =>
                  /\ ResolveTarget.tab = active /\ active \in Tabs
                  /\ ResolveTarget.origin = page[active]
BY Distinct DEF BrowserOK, ResolveTarget, Targets, NoTarget

LEMMA PageAttached ==
    ASSUME NEW r \in Targets, NEW d \in BOOLEAN, r.tab \in Tabs
    PROVE  AttachmentOf(r, d) \in AttachedTabs
BY DEF Targets, AttachmentOf, AttachedTabs

(* What the follower decides: nothing while a task runs.                     *)
LEMMA Decided ==
    ASSUME AttachmentsOK, AwaitsOK, NEW r \in Targets, NEW d \in BOOLEAN,
           r.kind = "page" => r.tab \in Tabs,
           Decide(r, d)
    PROVE  /\ follow' \in {NoFollow, [NoFollow EXCEPT !.at = "injecting"]}
           /\ \/ UNCHANGED <<attachedTab, saved, shown>>
              \/ ~loopRunning /\ Attach(NoTab)
              \/ ~loopRunning /\ attachedTab = NoTab /\ shown' = NoTab
                 /\ UNCHANGED <<attachedTab, saved>>
              \/ ~loopRunning /\ r.tab \in Tabs /\ Attach(AttachmentOf(r, d))
           /\ ~loopRunning =>
                  /\ attachedTab' = IF r.kind = "page" THEN AttachmentOf(r, d) ELSE NoTab
                  /\ \/ shown' = attachedTab'
                     \/ r.kind = "page" /\ UNCHANGED <<attachedTab, shown>>
<1>1. CASE loopRunning
  BY <1>1 DEF Decide
<1>2. CASE ~loopRunning
  <2>1. CASE r.kind # "page"
    BY <1>2, <2>1 DEF Decide, Attach, Announce
  <2>2. CASE r.kind = "page"
    BY <1>2, <2>2 DEF Decide, Attach, Announce
  <2> QED BY <2>1, <2>2
<1> QED BY <1>1, <1>2

(* The steps, one by one.                                                    *)
LEMMA Choices ==
    ASSUME Next
    PROVE  \/ \E t \in Tabs : Switch(t) \/ Close(t)
           \/ \E t \in Tabs, o \in Origins \cup {Opaque} : Navigate(t, o)
           \/ \E o \in Origins : Revoke(o)
           \/ GrantAccess \/ ClickToolbar
           \/ FollowReads \/ FollowAccess \/ FollowRechecks \/ FollowInjects
           \/ AccessConfirmed \/ Restart \/ RestoreReads \/ RestoreLands
           \/ RunTask \/ TaskStarts \/ TaskAccess \/ TaskLoops
           \/ CaptureAsked \/ CaptureChecked \/ CaptureTaken \/ TaskEnds
BY DEF Next, UserNext, FollowNext, TaskNext

LEMMA BrowserTyped ==
    ASSUME TypeOK, Next
    PROVE  BrowserOK'
<1> USE DEF TypeOK, BrowserOK
<1>1. ASSUME NEW t \in Tabs, Switch(t) PROVE BrowserOK'
  BY <1>1 DEF Switch
<1>2. ASSUME NEW t \in Tabs, Close(t) PROVE BrowserOK'
  BY <1>2 DEF Close
<1>3. ASSUME NEW t \in Tabs, NEW o \in Origins \cup {Opaque}, Navigate(t, o) PROVE BrowserOK'
  BY <1>3 DEF Navigate
<1>4. ASSUME NEW o \in Origins, Revoke(o) PROVE BrowserOK'
  BY <1>4 DEF Revoke
<1>5. CASE GrantAccess
  <2>1. shown.origin \in Origins
    BY <1>5, Distinct DEF GrantAccess, AttachmentsOK, AttachedTabs
  <2> QED BY <1>5, <2>1 DEF GrantAccess
<1>6. CASE ClickToolbar
  BY <1>6 DEF ClickToolbar
<1>7. CASE UNCHANGED browser
  BY <1>7 DEF browser
<1> QED BY Choices, <1>1, <1>2, <1>3, <1>4, <1>5, <1>6, <1>7
    DEF FollowReads, FollowAccess, FollowRechecks, FollowInjects, AccessConfirmed, Restart,
        RestoreReads, RestoreLands, RunTask, TaskStarts, TaskAccess, TaskLoops,
        CaptureAsked, CaptureChecked, CaptureTaken, TaskEnds

(* What a step can make of the attachment, of what is stored and of what is  *)
(* shown.                                                                    *)
LEMMA AttachmentsTyped ==
    ASSUME TypeOK, Following, Next
    PROVE  AttachmentsOK'
<1> USE DEF AttachmentsOK
<1>0. AttachmentsOK /\ AwaitsOK /\ BrowserOK
  BY DEF TypeOK
<1>a. ASSUME NEW r \in Targets, NEW d \in BOOLEAN, r.kind = "page" => r.tab \in Tabs,
             Decide(r, d), UNCHANGED <<restored, grant>>
      PROVE  AttachmentsOK'
  BY <1>0, <1>a, Decided, PageAttached DEF Attach, Persist, Announce
<1>1. ASSUME NEW t \in Tabs, Close(t) PROVE AttachmentsOK'
  BY <1>0, <1>1 DEF Close, Attach, Persist, Announce
<1>2. CASE GrantAccess
  <2>1. shown.origin \in Origins
    BY <1>0, <1>2, Distinct DEF GrantAccess, AttachedTabs
  <2> QED BY <1>0, <1>2, <2>1 DEF GrantAccess
<1>3. CASE ClickToolbar
  <2>1. active \in Tabs
    BY <1>0, <1>3 DEF ClickToolbar, BrowserOK
  <2>2. [tab |-> active, origin |-> NoOrigin, durable |-> FALSE] \in AttachedTabs
    BY <2>1 DEF AttachedTabs
  <2> QED BY <1>0, <1>3, <2>2 DEF ClickToolbar, Attach, Persist, Announce
<1>4. CASE FollowReads
  <2>1. CASE ResolveTarget.kind = "page"
    BY <1>0, <1>4, <2>1 DEF FollowReads
  <2>2. CASE ResolveTarget.kind # "page"
    <3>1. Decide(ResolveTarget, FALSE) /\ UNCHANGED <<restored, grant>>
      BY <1>4, <2>2 DEF FollowReads
    <3> QED BY <1>0, <1>a, <2>2, <3>1, Resolved
  <2> QED BY <2>1, <2>2
<1>5. CASE FollowRechecks
  <2>1. CASE active = follow.target.tab
    <3>1. Decide(follow.target, follow.durable) /\ UNCHANGED <<restored, grant>>
      BY <1>5, <2>1 DEF FollowRechecks
    <3>2. follow.target \in Targets /\ follow.durable \in BOOLEAN /\ follow.target.tab \in Tabs
      BY <1>0, <1>5 DEF FollowRechecks, Following, AwaitsOK
    <3> QED BY <1>a, <3>1, <3>2
  <2>2. CASE active # follow.target.tab
    BY <1>0, <1>5, <2>2 DEF FollowRechecks
  <2> QED BY <2>1, <2>2
<1>6. CASE AccessConfirmed
  <2>1. CASE attachedTab = NoTab
    BY <1>0, <1>6, <2>1 DEF AccessConfirmed
  <2>2. CASE attachedTab # NoTab
    <3>1. [attachedTab EXCEPT !.origin = grant] \in AttachedTabs
      BY <1>0, <2>2 DEF AttachedTabs
    <3> QED BY <1>0, <1>6, <2>2, <3>1 DEF AccessConfirmed
  <2> QED BY <2>1, <2>2
<1>7. CASE Restart
  BY <1>0, <1>7 DEF Restart
<1>8. CASE RestoreReads
  BY <1>0, <1>8 DEF RestoreReads
<1>9. CASE RestoreLands
  BY <1>0, <1>9 DEF RestoreLands
<1>10. CASE UNCHANGED <<attachedTab, restored, saved, shown, grant>>
  BY <1>0, <1>10
<1> QED BY Choices, <1>1, <1>2, <1>3, <1>4, <1>5, <1>6, <1>7, <1>8, <1>9, <1>10
    DEF Switch, Navigate, Revoke, FollowAccess, FollowInjects, RunTask, TaskStarts,
        TaskAccess, TaskLoops, CaptureAsked, CaptureChecked, CaptureTaken, TaskEnds

FollowStates ==
    [at : {"idle", "access", "recheck", "injecting"}, target : Targets, durable : BOOLEAN]
TaskStates ==
    [at : {"off", "starting", "access", "preparing", "stepping", "checking", "shooting"},
     tab : Tabs \cup {NoTabId}, asked : Origins \cup {NoOrigin}, allowed : SUBSET Origins]

LEMMA Idle ==
    /\ NoFollow \in FollowStates /\ NoFollow.at = "idle"
    /\ [NoFollow EXCEPT !.at = "injecting"] \in FollowStates
    /\ [NoFollow EXCEPT !.at = "injecting"].at = "injecting"
    /\ NoTask \in TaskStates /\ NoTask.at = "off" /\ NoTask.tab = NoTabId
    /\ NoTask.allowed = {}
BY DEF NoFollow, NoTask, NoTarget, Targets, FollowStates, TaskStates

(* The follower's own state.                                                 *)
LEMMA FollowTyped ==
    ASSUME TypeOK, Following, Next
    PROVE  follow' \in FollowStates /\ Following' /\ follows' \in Nat
<1>0. /\ AttachmentsOK /\ AwaitsOK /\ BrowserOK
      /\ follow \in FollowStates /\ follows \in Nat
  BY DEF TypeOK, AwaitsOK, FollowStates
<1>a. follows + 1 \in Nat /\ 1 \in Nat /\ (follows > 0 => follows - 1 \in Nat)
  BY <1>0
<1>b. ASSUME follow' \in {NoFollow, [NoFollow EXCEPT !.at = "injecting"]}
      PROVE  follow' \in FollowStates /\ Following'
  BY <1>b, Idle DEF Following
<1>1. CASE FollowReads
  <2>1. follows' \in Nat
    BY <1>1, <1>a DEF FollowReads
  <2>2. CASE ResolveTarget.kind = "page"
    <3> DEFINE r == ResolveTarget
    <3>1. /\ follow' = [NoFollow EXCEPT !.at = "access", !.target = r]
          /\ r \in Targets /\ r.kind = "page" /\ r.tab \in Tabs
      BY <1>0, <1>1, <2>2, Resolved DEF FollowReads
    <3> HIDE DEF r
    <3>2. follow' \in FollowStates /\ follow'.target = r
      BY <3>1 DEF NoFollow, FollowStates
    <3> QED BY <2>1, <3>1, <3>2 DEF Following
  <2>3. CASE ResolveTarget.kind # "page"
    <3>1. Decide(ResolveTarget, FALSE)
      BY <1>1, <2>3 DEF FollowReads
    <3>2. follow' \in {NoFollow, [NoFollow EXCEPT !.at = "injecting"]}
      BY <1>0, <2>3, <3>1, Resolved, Decided
    <3> QED BY <1>b, <2>1, <3>2
  <2> QED BY <2>2, <2>3
<1>2. CASE FollowAccess
  <2>1. HasSiteAccess(follow.target.origin) \in BOOLEAN
    BY DEF HasSiteAccess
  <2>2. follow' = [follow EXCEPT !.at = "recheck", !.durable = HasSiteAccess(follow.target.origin)]
    BY <1>2 DEF FollowAccess
  <2>3. follow' \in FollowStates /\ follow'.target = follow.target
    BY <1>0, <2>1, <2>2 DEF FollowStates
  <2> QED BY <1>0, <1>2, <2>3 DEF FollowAccess, Following
<1>3. CASE FollowRechecks
  <2>1. CASE active = follow.target.tab
    <3>1. Decide(follow.target, follow.durable)
      BY <1>3, <2>1 DEF FollowRechecks
    <3>2. follow.target \in Targets /\ follow.durable \in BOOLEAN /\ follow.target.tab \in Tabs
      BY <1>0, <1>3 DEF FollowRechecks, Following, FollowStates
    <3>3. follow' \in {NoFollow, [NoFollow EXCEPT !.at = "injecting"]}
      BY <1>0, <3>1, <3>2, Decided
    <3> QED BY <1>0, <1>3, <1>b, <3>3 DEF FollowRechecks
  <2>2. CASE active # follow.target.tab
    BY <1>0, <1>3, <1>b, <2>2 DEF FollowRechecks
  <2> QED BY <2>1, <2>2
<1>4. CASE follow' = NoFollow /\ follows' \in {1, follows}
  BY <1>0, <1>a, <1>b, <1>4
<1>5. CASE follow' = follow /\ follows' \in {follows, follows + 1}
  BY <1>0, <1>a, <1>5 DEF Following
<1> QED BY Choices, <1>1, <1>2, <1>3, <1>4, <1>5
    DEF Switch, Navigate, Close, Revoke, GrantAccess, ClickToolbar, ScheduleFollow,
        FollowInjects, AccessConfirmed, Restart, RestoreReads, RestoreLands, RunTask,
        TaskStarts, TaskAccess, TaskLoops, CaptureAsked, CaptureChecked, CaptureTaken,
        TaskEnds, Ended

(* The task's own state, and the lock it holds.                              *)
LEMMA TaskTyped ==
    ASSUME TypeOK, Next
    PROVE  task' \in TaskStates /\ loopRunning' = (task'.at # "off")
<1>0. /\ AttachmentsOK /\ task \in TaskStates /\ loopRunning = (task.at # "off")
  BY DEF TypeOK, AwaitsOK, TaskStates
<1>a. /\ attachedTab.origin \in Origins \cup {NoOrigin}
      /\ attachedTab.tab \in Tabs \cup {NoTabId}
  BY <1>0, Distinct DEF AttachmentsOK, AttachedTabs
<1>b. CASE task' = NoTask /\ loopRunning' = FALSE
  BY <1>b, Idle
<1>1. CASE RunTask
  <2>1. task' = [NoTask EXCEPT !.at = "starting"] /\ loopRunning' = TRUE
    BY <1>1 DEF RunTask
  <2>2. task' \in TaskStates /\ task'.at = "starting"
    BY <2>1, Idle DEF TaskStates
  <2> QED BY <2>1, <2>2
<1>2. CASE TaskStarts
  <2>1. CASE attachedTab = NoTab
    BY <1>2, <1>b, <2>1 DEF TaskStarts, Ended
  <2>2. CASE attachedTab # NoTab
    <3>1. /\ task' = [task EXCEPT !.at = "access", !.tab = attachedTab.tab,
                                  !.asked = attachedTab.origin]
          /\ loopRunning' = loopRunning /\ task.at = "starting"
      BY <1>2, <2>2 DEF TaskStarts
    <3>2. task' \in TaskStates /\ task'.at = "access"
      BY <1>0, <1>a, <3>1 DEF TaskStates
    <3> QED BY <1>0, <3>1, <3>2
  <2> QED BY <2>1, <2>2
<1>3. CASE TaskAccess
  <2>1. CASE HasSiteAccess(task.asked)
    <3>1. /\ task' = [task EXCEPT !.at = "preparing"] /\ loopRunning' = loopRunning
          /\ task.at = "access"
      BY <1>3, <2>1 DEF TaskAccess
    <3>2. task' \in TaskStates /\ task'.at = "preparing"
      BY <1>0, <3>1 DEF TaskStates
    <3> QED BY <1>0, <3>1, <3>2
  <2>2. CASE ~HasSiteAccess(task.asked)
    BY <1>3, <1>b, <2>2 DEF TaskAccess, Ended
  <2> QED BY <2>1, <2>2
<1>4. CASE TaskLoops
  <2>1. /\ task' = [task EXCEPT !.at = "stepping", !.allowed = {attachedTab.origin} \ {NoOrigin}]
        /\ loopRunning' = loopRunning /\ task.at = "preparing"
    BY <1>4 DEF TaskLoops
  <2>2. task' \in TaskStates /\ task'.at = "stepping"
    BY <1>0, <1>a, <2>1 DEF TaskStates
  <2> QED BY <1>0, <2>1, <2>2
<1>5. ASSUME NEW p \in {"stepping", "checking", "shooting"}, task' = [task EXCEPT !.at = p],
             loopRunning' = loopRunning, task.at \in {"stepping", "checking", "shooting"}
      PROVE  task' \in TaskStates /\ loopRunning' = (task'.at # "off")
  <2>1. task' \in TaskStates /\ task'.at = p
    BY <1>0, <1>5 DEF TaskStates
  <2> QED BY <1>0, <1>5, <2>1
<1>6. CASE CaptureAsked
  BY <1>5, <1>6 DEF CaptureAsked
<1>7. CASE CaptureChecked
  BY <1>5, <1>7 DEF CaptureChecked
<1>8. CASE CaptureTaken
  BY <1>5, <1>8 DEF CaptureTaken
<1>9. CASE UNCHANGED <<task, loopRunning>>
  BY <1>0, <1>9
<1>10. CASE TaskEnds \/ Restart
  BY <1>10, <1>b DEF TaskEnds, Restart, Ended
<1> QED BY Choices, <1>1, <1>2, <1>3, <1>4, <1>6, <1>7, <1>8, <1>9, <1>10
    DEF Switch, Navigate, Close, Revoke, GrantAccess, ClickToolbar, FollowReads,
        FollowAccess, FollowRechecks, FollowInjects, AccessConfirmed, RestoreReads,
        RestoreLands

LEMMA ObservedTyped ==
    ASSUME TypeOK, Next
    PROVE  ObservedOK' /\ ready' \in {"reading", "checking", "done"}
<1>0. /\ BrowserOK /\ ObservedOK /\ ready \in {"reading", "checking", "done"}
      /\ MaxEvents \in Nat /\ MaxRestarts \in Nat /\ MaxTasks \in Nat
  BY AttachmentAssumption DEF TypeOK, AwaitsOK
<1>1. ready' \in {"reading", "checking", "done"}
  BY <1>0, Choices
    DEF Switch, Navigate, Close, Revoke, GrantAccess, ClickToolbar, FollowReads,
        FollowAccess, FollowRechecks, FollowInjects, AccessConfirmed, Restart, RestoreReads,
        RestoreLands, RunTask, TaskStarts, TaskAccess, TaskLoops, CaptureAsked,
        CaptureChecked, CaptureTaken, TaskEnds
<1>2. /\ events' = events \/ (events < MaxEvents /\ events' = events + 1)
      /\ restarts' = restarts \/ (restarts < MaxRestarts /\ restarts' = restarts + 1)
      /\ tasks' = tasks \/ (tasks < MaxTasks /\ tasks' = tasks + 1)
  BY <1>0, Choices
    DEF Happens, notes, Switch, Navigate, Close, Revoke, GrantAccess, ClickToolbar,
        FollowReads, FollowAccess, FollowRechecks, FollowInjects, AccessConfirmed, Restart,
        RestoreReads, RestoreLands, RunTask, TaskStarts, TaskAccess, TaskLoops,
        CaptureAsked, CaptureChecked, CaptureTaken, TaskEnds
<1>3. slips' \subseteq {"restore", "grant", "navigation"}
  BY <1>0, Choices
    DEF ObservedOK, notes, Switch, Navigate, Close, Revoke, GrantAccess, ClickToolbar,
        FollowReads, FollowAccess, FollowRechecks, FollowInjects, AccessConfirmed, Restart,
        RestoreReads, RestoreLands, RunTask, TaskStarts, TaskAccess, TaskLoops,
        CaptureAsked, CaptureChecked, CaptureTaken, TaskEnds
<1>4. clicked' \in BOOLEAN /\ swapped' \in BOOLEAN
  BY <1>0, Choices
    DEF ObservedOK, notes, Switch, Navigate, Close, Revoke, GrantAccess, ClickToolbar,
        FollowReads, FollowAccess, FollowRechecks, FollowInjects, AccessConfirmed, Restart,
        RestoreReads, RestoreLands, RunTask, TaskStarts, TaskAccess, TaskLoops,
        CaptureAsked, CaptureChecked, CaptureTaken, TaskEnds
<1>5. pictured' \in Tabs \cup {NoTabId}
  BY <1>0, Choices
    DEF ObservedOK, BrowserOK, notes, Switch, Navigate, Close, Revoke, GrantAccess,
        ClickToolbar, FollowReads, FollowAccess, FollowRechecks, FollowInjects,
        AccessConfirmed, Restart, RestoreReads, RestoreLands, RunTask, TaskStarts,
        TaskAccess, TaskLoops, CaptureAsked, CaptureChecked, CaptureTaken, TaskEnds
<1>6. events' \in 0..MaxEvents /\ restarts' \in 0..MaxRestarts /\ tasks' \in 0..MaxTasks
  BY <1>0, <1>2 DEF ObservedOK
<1> QED BY <1>1, <1>3, <1>4, <1>5, <1>6 DEF ObservedOK

LEMMA TypeStep ==
    ASSUME TypeOK, Following, [Next]_vars
    PROVE  TypeOK' /\ Following'
<1>1. CASE Next
  BY <1>1, BrowserTyped, AttachmentsTyped, FollowTyped, TaskTyped, ObservedTyped
  DEF TypeOK, AwaitsOK, FollowStates, TaskStates
<1>2. CASE UNCHANGED vars
  BY <1>2 DEF vars, browser, memory, notes, TypeOK, BrowserOK, AttachmentsOK, AwaitsOK,
              ObservedOK, Following
<1> QED BY <1>1, <1>2

LEMMA TypeInit == Init => TypeOK /\ Following
<1> SUFFICES ASSUME Init PROVE TypeOK /\ Following
  OBVIOUS
<1>1. BrowserOK
  BY DEF Init, BrowserOK
<1>2. AttachmentsOK
  BY DEF Init, AttachmentsOK
<1>3. AwaitsOK /\ Following
  BY Idle DEF Init, AwaitsOK, Following, FollowStates, TaskStates
<1>4. 0 \in 0..MaxEvents /\ 0 \in 0..MaxRestarts /\ 0 \in 0..MaxTasks
  BY AttachmentAssumption
<1>5. ObservedOK
  BY <1>4 DEF Init, ObservedOK
<1> QED BY <1>1, <1>2, <1>3, <1>5 DEF TypeOK

(* Every variable of the attachment, of the follower and of the task keeps   *)
(* its type; a follower past its query means a page in a tab.                *)
THEOREM AttachmentTyped == Spec => [](TypeOK /\ Following)
BY TypeInit, TypeStep, PTL DEF Spec

-----------------------------------------------------------------------------
(* A run keeps its bounds.                                                   *)

(* What was granted once stays in the record of it.                          *)
LEMMA GrantsAreKept ==
    ASSUME Next
    PROVE  /\ Granted \subseteq Granted'
           /\ granted \cup revoked \subseteq granted' \cup revoked'
BY Choices
   DEF Granted, browser, notes, Switch, Navigate, Close, Revoke, GrantAccess, ClickToolbar,
       FollowReads, FollowAccess, FollowRechecks, FollowInjects, AccessConfirmed, Restart,
       RestoreReads, RestoreLands, RunTask, TaskStarts, TaskAccess, TaskLoops,
       CaptureAsked, CaptureChecked, CaptureTaken, TaskEnds

(* The follower leaves the attachment alone while a task runs.               *)
LEMMA FollowerSuspended ==
    ASSUME TypeOK, Following, loopRunning,
           FollowReads \/ FollowRechecks
    PROVE  UNCHANGED <<attachedTab, saved, shown>>
<1>0. AttachmentsOK /\ AwaitsOK /\ BrowserOK
  BY DEF TypeOK
<1>1. CASE FollowReads
  <2>1. CASE ResolveTarget.kind = "page"
    BY <1>1, <2>1 DEF FollowReads
  <2>2. CASE ResolveTarget.kind # "page"
    <3>1. Decide(ResolveTarget, FALSE)
      BY <1>1, <2>2 DEF FollowReads
    <3> QED BY <1>0, <2>2, <3>1, Resolved, Decided
  <2> QED BY <2>1, <2>2
<1>2. CASE FollowRechecks
  <2>1. CASE active = follow.target.tab
    <3>1. Decide(follow.target, follow.durable)
      BY <1>2, <2>1 DEF FollowRechecks
    <3>2. follow.target \in Targets /\ follow.durable \in BOOLEAN /\ follow.target.tab \in Tabs
      BY <1>0, <1>2 DEF FollowRechecks, Following, AwaitsOK
    <3> QED BY <1>0, <3>1, <3>2, Decided
  <2>2. CASE active # follow.target.tab
    BY <1>2, <2>2 DEF FollowRechecks
  <2> QED BY <2>1, <2>2
<1> QED BY <1>1, <1>2

(* What can happen to the attachment of a task that has read it.             *)
LEMMA OwnedTabMoves ==
    ASSUME TypeOK, Following, TaskOwns, task.tab # NoTabId, Next
    PROVE  \/ attachedTab' = attachedTab
           \/ attachedTab' = NoTab
           \/ attachedTab' = [attachedTab EXCEPT !.origin = grant]
           \/ ClickToolbar
<1>1. loopRunning /\ ready = "done"
  BY DEF TypeOK, AwaitsOK, TaskOwns
<1>2. CASE FollowReads \/ FollowRechecks
  BY <1>1, <1>2, FollowerSuspended
<1>3. ASSUME NEW t \in Tabs, Close(t) PROVE attachedTab' \in {attachedTab, NoTab}
  BY <1>3 DEF Close, Attach
<1> QED BY <1>1, <1>2, <1>3, Choices
    DEF Switch, Navigate, Revoke, GrantAccess, FollowAccess, FollowInjects, AccessConfirmed,
        Restart, RestoreReads, RestoreLands, RunTask, TaskStarts, TaskAccess, TaskLoops,
        CaptureAsked, CaptureChecked, CaptureTaken, TaskEnds

(* Its tab stays the one the task has read, or none, until the toolbar is    *)
(* clicked; its origin stays one that was granted.                           *)
LEMMA OwnedTabStays ==
    ASSUME TypeOK, Following, TaskOwns, task.tab # NoTabId, Next
    PROVE  /\ ClickToolbar \/ attachedTab'.tab \in {attachedTab.tab, NoTabId}
           /\ attachedTab'.origin \in {attachedTab.origin} \cup Granted
<1>0. AttachmentsOK /\ BrowserOK /\ grant \in Granted
  BY DEF TypeOK, TaskOwns
<1>1. CASE attachedTab' = NoTab
  BY <1>1, Distinct DEF Granted
<1>2. CASE attachedTab' = [attachedTab EXCEPT !.origin = grant]
  <2>1. attachedTab'.tab = attachedTab.tab /\ attachedTab'.origin = grant
    BY <1>0, <1>2 DEF AttachmentsOK, AttachedTabs, NoTab
  <2> QED BY <1>0, <2>1
<1>3. CASE ClickToolbar
  BY <1>3 DEF ClickToolbar, Attach, Granted
<1> QED BY <1>1, <1>2, <1>3, OwnedTabMoves

(* The steps that leave the task alone.                                      *)
Aside ==
    \/ \E t \in Tabs : Switch(t) \/ Close(t)
    \/ \E t \in Tabs, o \in Origins \cup {Opaque} : Navigate(t, o)
    \/ \E o \in Origins : Revoke(o)
    \/ GrantAccess \/ ClickToolbar
    \/ FollowReads \/ FollowAccess \/ FollowRechecks \/ FollowInjects
    \/ AccessConfirmed \/ RestoreReads \/ RestoreLands

LEMMA AsideKeepsTask ==
    ASSUME Aside
    PROVE  /\ UNCHANGED <<task, loopRunning, pictured>>
           /\ swapped => swapped'
           /\ active' = active \/ (task.at = "shooting" => swapped')
           /\ clicked => clicked'
           /\ ClickToolbar /\ loopRunning => clicked'
           /\ ready = "done" => ready' = "done"
           /\ grant' \in {grant, NoOrigin} \/ grant' \in granted'
           /\ Next
<1>1. UNCHANGED <<task, loopRunning, pictured>>
  BY DEF Aside, Switch, Navigate, Close, Revoke, GrantAccess, ClickToolbar, FollowReads,
         FollowAccess, FollowRechecks, FollowInjects, AccessConfirmed, RestoreReads,
         RestoreLands, browser, notes
<1>2. swapped' = swapped \/ swapped' = (swapped \/ task.at = "shooting")
  BY DEF Aside, Switch, Navigate, Close, Revoke, GrantAccess, ClickToolbar, FollowReads,
         FollowAccess, FollowRechecks, FollowInjects, AccessConfirmed, RestoreReads,
         RestoreLands, browser, notes
<1>3. active' = active \/ swapped' = (swapped \/ task.at = "shooting")
  BY DEF Aside, Switch, Navigate, Close, Revoke, GrantAccess, ClickToolbar, FollowReads,
         FollowAccess, FollowRechecks, FollowInjects, AccessConfirmed, RestoreReads,
         RestoreLands, browser, notes
<1>4. clicked' = clicked \/ (clicked' = (clicked \/ loopRunning))
  BY DEF Aside, Switch, Navigate, Close, Revoke, GrantAccess, ClickToolbar, FollowReads,
         FollowAccess, FollowRechecks, FollowInjects, AccessConfirmed, RestoreReads,
         RestoreLands, browser, notes
<1>5. ClickToolbar => clicked' = (clicked \/ loopRunning)
  BY DEF ClickToolbar
<1>6. ready = "done" => ready' = "done"
  BY DEF Aside, Switch, Navigate, Close, Revoke, GrantAccess, ClickToolbar, FollowReads,
         FollowAccess, FollowRechecks, FollowInjects, AccessConfirmed, RestoreReads,
         RestoreLands, browser, notes
<1>7. grant' \in {grant, NoOrigin} \/ grant' \in granted'
  BY DEF Aside, Switch, Navigate, Close, Revoke, GrantAccess, ClickToolbar, FollowReads,
         FollowAccess, FollowRechecks, FollowInjects, AccessConfirmed, RestoreReads,
         RestoreLands, browser, notes
<1>8. swapped => swapped'
  BY <1>2
<1>9. active' = active \/ (task.at = "shooting" => swapped')
  BY <1>3
<1>10. clicked => clicked'
  BY <1>4
<1>11. ClickToolbar /\ loopRunning => clicked'
  BY <1>5
<1>12. Next
  BY DEF Aside, Next, UserNext, FollowNext
<1> QED BY <1>12, <1>1, <1>6, <1>7, <1>8, <1>9, <1>10, <1>11

(* What the user, the follower or a restore does leaves a task its bounds.   *)
LEMMA BoundsAside ==
    ASSUME TypeOK, Following, Bounds, Aside
    PROVE  Bounds'
<1>0. /\ TaskOwns /\ Aimed /\ RunKeepsItsBounds /\ Next
      /\ UNCHANGED <<task, loopRunning, pictured>>
      /\ loopRunning = (task.at # "off")
  BY AsideKeepsTask DEF Bounds, TypeOK, AwaitsOK
<1>1. grant' \in Granted'
  BY <1>0, AsideKeepsTask, GrantsAreKept DEF TaskOwns, Granted
<1>2. task.tab # NoTabId => attachedTab'.origin \in {attachedTab.origin} \cup Granted
  BY <1>0, OwnedTabStays
<1>3. TaskOwns'
  <2>1. task.tab # NoTabId => ready' = "done"
    BY <1>0, AsideKeepsTask DEF TaskOwns
  <2>2. task.at = "access" => attachedTab'.origin \in Granted' \cup {task.asked}
    BY <1>0, <1>2, GrantsAreKept DEF TaskOwns
  <2>3. task.at = "preparing" => attachedTab'.origin \in Granted'
    BY <1>0, <1>2, GrantsAreKept DEF TaskOwns
  <2> QED BY <1>0, <1>1, <2>1, <2>2, <2>3 DEF TaskOwns
<1>4. Aimed'
  <2>1. task.at = "shooting" /\ ~swapped' => active' = task.tab
    BY <1>0, AsideKeepsTask DEF Aimed
  <2> QED BY <1>0, <2>1 DEF Aimed
<1>5. RunKeepsItsBounds'
  <2>1. task.allowed \subseteq granted' \cup revoked'
    BY <1>0, GrantsAreKept DEF RunKeepsItsBounds
  <2>2. ASSUME task.tab # NoTabId
        PROVE  clicked' \/ attachedTab'.tab \in {task.tab, NoTabId}
    <3>1. loopRunning
      BY <1>0, <2>2 DEF TaskOwns
    <3>2. CASE ClickToolbar
      BY <3>1, <3>2, AsideKeepsTask
    <3>3. CASE ~ClickToolbar
      <4>1. attachedTab'.tab \in {attachedTab.tab, NoTabId}
        BY <1>0, <2>2, <3>3, OwnedTabStays
      <4>2. clicked \/ attachedTab.tab \in {task.tab, NoTabId}
        BY <1>0, <2>2 DEF RunKeepsItsBounds
      <4>3. CASE clicked
        BY <4>3, AsideKeepsTask
      <4> QED BY <4>1, <4>2, <4>3
    <3> QED BY <3>2, <3>3
  <2>3. ASSUME task.tab # NoTabId
        PROVE  swapped' \/ pictured \in {task.tab, NoTabId}
    BY <1>0, <2>3, AsideKeepsTask DEF RunKeepsItsBounds
  <2> QED BY <1>0, <2>1, <2>2, <2>3 DEF RunKeepsItsBounds
<1> QED BY <1>3, <1>4, <1>5 DEF Bounds

(* So does each step of the task, and the end of it.                         *)
LEMMA BoundsOfTask ==
    ASSUME TypeOK, Following, Bounds, Next, ~Aside
    PROVE  Bounds'
<1>0. /\ TaskOwns /\ Aimed /\ RunKeepsItsBounds
      /\ task \in TaskStates /\ loopRunning = (task.at # "off")
      /\ attachedTab \in AttachedTabs \cup {NoTab}
  BY DEF Bounds, TypeOK, AwaitsOK, AttachmentsOK, TaskStates
<1>1. RunTask \/ TaskNext \/ Restart
  BY DEF Aside, Next, UserNext, FollowNext
<1>2. UNCHANGED <<granted, revoked, active>> /\ Granted' = Granted /\ grant' \in Granted
  BY <1>0, <1>1 DEF browser, Granted, TaskOwns, RunTask, TaskNext, Restart, TaskStarts,
     TaskAccess, TaskLoops, CaptureAsked, CaptureChecked, CaptureTaken, TaskEnds
<1>3. ASSUME task' = NoTask PROVE Bounds'
  BY <1>0, <1>2, <1>3, Idle DEF Bounds, TaskOwns, Aimed, RunKeepsItsBounds
<1>4. CASE RunTask
  <2>1. /\ task' = [NoTask EXCEPT !.at = "starting"]
        /\ pictured' = NoTabId
    BY <1>4 DEF RunTask
  <2>2. task'.at = "starting" /\ task'.tab = NoTabId /\ task'.allowed = {}
    BY <2>1, Idle DEF TaskStates
  <2> QED BY <1>2, <2>1, <2>2 DEF Bounds, TaskOwns, Aimed, RunKeepsItsBounds
<1>5. CASE TaskStarts /\ attachedTab # NoTab
  <2>1. /\ task' = [task EXCEPT !.at = "access", !.tab = attachedTab.tab,
                                !.asked = attachedTab.origin]
        /\ task.at = "starting" /\ ready' = "done"
        /\ UNCHANGED <<attachedTab, pictured>>
    BY <1>5 DEF TaskStarts
  <2>2. /\ task'.at = "access" /\ task'.tab = attachedTab.tab
        /\ task'.asked = attachedTab.origin /\ task'.allowed = task.allowed
    BY <1>0, <2>1 DEF TaskStates
  <2>3. attachedTab.tab # NoTabId /\ pictured = NoTabId /\ task.allowed = {}
    BY <1>0, <1>5, <2>1, Distinct DEF Aimed, TaskOwns
  <2> QED BY <1>2, <2>1, <2>2, <2>3 DEF Bounds, TaskOwns, Aimed, RunKeepsItsBounds
<1>6. CASE TaskAccess /\ HasSiteAccess(task.asked)
  <2>1. /\ task' = [task EXCEPT !.at = "preparing"] /\ task.at = "access"
        /\ task.asked \in Granted
        /\ UNCHANGED <<attachedTab, ready, pictured, clicked, swapped>>
    BY <1>6 DEF TaskAccess, HasSiteAccess, Granted, notes
  <2>2. task'.at = "preparing" /\ task'.tab = task.tab /\ task'.allowed = task.allowed
    BY <1>0, <2>1 DEF TaskStates
  <2> QED BY <1>0, <1>2, <2>1, <2>2 DEF Bounds, TaskOwns, Aimed, RunKeepsItsBounds
<1>7. CASE TaskLoops
  <2>1. /\ task' = [task EXCEPT !.at = "stepping",
                                !.allowed = {attachedTab.origin} \ {NoOrigin}]
        /\ task.at = "preparing"
        /\ UNCHANGED <<attachedTab, ready, pictured, clicked, swapped>>
    BY <1>7 DEF TaskLoops, notes
  <2>2. /\ task'.at = "stepping" /\ task'.tab = task.tab
        /\ task'.allowed = {attachedTab.origin} \ {NoOrigin}
    BY <1>0, <2>1 DEF TaskStates
  <2>3. {attachedTab.origin} \ {NoOrigin} \subseteq granted \cup revoked
    BY <1>0, <2>1 DEF TaskOwns, Granted
  <2> QED BY <1>0, <1>2, <2>1, <2>2, <2>3 DEF Bounds, TaskOwns, Aimed, RunKeepsItsBounds
<1>8. CASE CaptureAsked
  <2>1. /\ task' = [task EXCEPT !.at = "checking"] /\ task.at = "stepping"
        /\ pictured' = NoTabId
        /\ UNCHANGED <<attachedTab, ready, clicked, swapped>>
    BY <1>8 DEF CaptureAsked
  <2>2. task'.at = "checking" /\ task'.tab = task.tab /\ task'.allowed = task.allowed
    BY <1>0, <2>1 DEF TaskStates
  <2> QED BY <1>0, <1>2, <2>1, <2>2 DEF Bounds, TaskOwns, Aimed, RunKeepsItsBounds
<1>9. CASE CaptureChecked
  <2>1. /\ task' = [task EXCEPT !.at = IF active = task.tab THEN "shooting" ELSE "stepping"]
        /\ task.at = "checking"
        /\ UNCHANGED <<attachedTab, ready, clicked, pictured>>
    BY <1>9 DEF CaptureChecked
  <2>2. /\ task'.at = IF active = task.tab THEN "shooting" ELSE "stepping"
        /\ task'.tab = task.tab /\ task'.allowed = task.allowed
    BY <1>0, <2>1 DEF TaskStates
  <2>3. pictured = NoTabId
    BY <1>0, <2>1 DEF Aimed
  <2> QED BY <1>0, <1>2, <2>1, <2>2, <2>3 DEF Bounds, TaskOwns, Aimed, RunKeepsItsBounds
<1>10. CASE CaptureTaken
  <2>1. /\ task' = [task EXCEPT !.at = "stepping"] /\ task.at = "shooting"
        /\ pictured' = active
        /\ UNCHANGED <<attachedTab, ready, clicked, swapped>>
    BY <1>10 DEF CaptureTaken
  <2>2. task'.at = "stepping" /\ task'.tab = task.tab /\ task'.allowed = task.allowed
    BY <1>0, <2>1 DEF TaskStates
  <2>3. swapped \/ active = task.tab
    BY <1>0, <2>1 DEF Aimed
  <2>4. TaskOwns' /\ Aimed'
    BY <1>0, <1>2, <2>1, <2>2 DEF TaskOwns, Aimed
  <2>5. task.tab # NoTabId => clicked \/ attachedTab.tab \in {task.tab, NoTabId}
    BY <1>0 DEF RunKeepsItsBounds
  <2>6. RunKeepsItsBounds'
    BY <1>0, <1>2, <2>1, <2>2, <2>3, <2>5 DEF RunKeepsItsBounds
  <2> QED BY <2>4, <2>6 DEF Bounds
<1> QED BY <1>1, <1>3, <1>4, <1>5, <1>6, <1>7, <1>8, <1>9, <1>10
    DEF TaskNext, TaskStarts, TaskAccess, TaskEnds, Restart, Ended

-----------------------------------------------------------------------------
(* The attachment follows the user.                                          *)

Restoring == AccessConfirmed \/ Restart \/ RestoreReads \/ RestoreLands

(* Whatever else is attached is stored and announced; a panel without an     *)
(* attachment may be told of that again.                                     *)
LEMMA AttachedIsTold ==
    ASSUME TypeOK, Following, Next, ~Restoring
    PROVE  /\ ready' = ready /\ slips \subseteq slips' /\ ("restore" \in slips' => "restore" \in slips)
           /\ \/ UNCHANGED <<attachedTab, saved, shown>>
              \/ saved' = attachedTab' /\ shown' = attachedTab'
              \/ attachedTab = NoTab /\ shown' = NoTab /\ UNCHANGED <<attachedTab, saved>>
<1>0. AttachmentsOK /\ AwaitsOK /\ BrowserOK
  BY DEF TypeOK
<1> DEFINE Told == \/ UNCHANGED <<attachedTab, saved, shown>>
                   \/ saved' = attachedTab' /\ shown' = attachedTab'
                   \/ attachedTab = NoTab /\ shown' = NoTab /\ UNCHANGED <<attachedTab, saved>>
<1>b. \/ \E t \in Tabs : Switch(t) \/ Close(t)
      \/ \E t \in Tabs, o \in Origins \cup {Opaque} : Navigate(t, o)
      \/ \E o \in Origins : Revoke(o)
      \/ GrantAccess \/ ClickToolbar
      \/ FollowReads \/ FollowAccess \/ FollowRechecks \/ FollowInjects
      \/ RunTask \/ TaskStarts \/ TaskAccess \/ TaskLoops
      \/ CaptureAsked \/ CaptureChecked \/ CaptureTaken \/ TaskEnds
  BY Choices DEF Restoring
<1>1. ready' = ready
  BY <1>b
    DEF Switch, Navigate, Close, Revoke, GrantAccess, ClickToolbar, FollowReads, FollowAccess,
        FollowRechecks, FollowInjects, RunTask, TaskStarts, TaskAccess, TaskLoops,
        CaptureAsked, CaptureChecked, CaptureTaken, TaskEnds
<1>5. slips' \in {slips, slips \cup {"navigation"}}
  BY <1>b
    DEF notes, Switch, Navigate, Close, Revoke, GrantAccess, ClickToolbar, FollowReads,
        FollowAccess, FollowRechecks, FollowInjects, RunTask, TaskStarts, TaskAccess, TaskLoops,
        CaptureAsked, CaptureChecked, CaptureTaken, TaskEnds
<1>6. slips \subseteq slips' /\ ("restore" \in slips' => "restore" \in slips)
  BY <1>5
<1> SUFFICES Told
  BY <1>1, <1>6
<1>a. ASSUME NEW r \in Targets, NEW d \in BOOLEAN, r.kind = "page" => r.tab \in Tabs,
             Decide(r, d)
      PROVE  Told
  BY <1>0, <1>a, Decided DEF Attach, Persist, Announce
<1>2. CASE FollowReads
  <2>1. CASE ResolveTarget.kind = "page"
    BY <1>2, <2>1 DEF FollowReads
  <2>2. CASE ResolveTarget.kind # "page"
    <3>1. Decide(ResolveTarget, FALSE)
      BY <1>2, <2>2 DEF FollowReads
    <3> QED BY <1>0, <1>a, <2>2, <3>1, Resolved
  <2> QED BY <2>1, <2>2
<1>3. CASE FollowRechecks
  <2>1. CASE active = follow.target.tab
    <3>1. Decide(follow.target, follow.durable)
      BY <1>3, <2>1 DEF FollowRechecks
    <3>2. follow.target \in Targets /\ follow.durable \in BOOLEAN /\ follow.target.tab \in Tabs
      BY <1>0, <1>3 DEF FollowRechecks, Following, AwaitsOK
    <3> QED BY <1>a, <3>1, <3>2
  <2>2. CASE active # follow.target.tab
    BY <1>3, <2>2 DEF FollowRechecks
  <2> QED BY <2>1, <2>2
<1>4. CASE ~FollowReads /\ ~FollowRechecks
  BY <1>4, <1>b
  DEF Attach, Persist, Announce, Switch, Navigate, Close, Revoke, GrantAccess,
      ClickToolbar, FollowAccess, FollowInjects, RunTask, TaskStarts, TaskAccess, TaskLoops,
      CaptureAsked, CaptureChecked, CaptureTaken, TaskEnds
<1> QED BY <1>2, <1>3, <1>4

LEMMA RestorableStep ==
    ASSUME TypeOK, Following, Restorable, Next
    PROVE  Restorable'
<1>0. AttachmentsOK
  BY DEF TypeOK
<1>1. CASE ~Restoring
  BY <1>1, AttachedIsTold, Distinct DEF Restorable
<1>2. CASE AccessConfirmed
  <2>1. CASE attachedTab = NoTab
    BY <1>2, <2>1 DEF AccessConfirmed, Restorable
  <2>2. CASE attachedTab # NoTab
    <3>1. /\ attachedTab \in AttachedTabs
          /\ attachedTab' = [attachedTab EXCEPT !.origin = grant] /\ saved' = attachedTab'
          /\ shown' = shown /\ ready = "done" /\ ready' = "done"
          /\ "restore" \notin slips' => "restore" \notin slips
      BY <1>0, <1>2, <2>2 DEF AccessConfirmed, AttachmentsOK
    <3>2. attachedTab'.tab = attachedTab.tab /\ attachedTab'.tab # NoTabId
      BY <3>1, Distinct DEF AttachedTabs
    <3> QED BY <3>1, <3>2, Distinct DEF Restorable
  <2> QED BY <2>1, <2>2
<1>3. CASE Restart
  BY <1>3 DEF Restart, Restorable
<1>4. CASE RestoreReads
  BY <1>4, Distinct DEF RestoreReads, Restorable, notes
<1>5. CASE RestoreLands
  BY <1>5 DEF RestoreLands, Restorable
<1> QED BY <1>1, <1>2, <1>3, <1>4, <1>5 DEF Restoring

(* The query would find what it found before, if the active tab, its page,   *)
(* and the access to it are the same.                                        *)
LEMMA SameView ==
    ASSUME active' = active, granted' = granted,
           page'[active] = page[active] \/ active = NoTabId,
           active \in transient' <=> active \in transient
    PROVE  ResolveTarget' = ResolveTarget /\ CalledFor' = CalledFor
<1>1. ResolveTarget' = ResolveTarget
  BY DEF ResolveTarget, Readable
<1> QED BY <1>1 DEF CalledFor, HasSiteAccess, AttachmentOf

(* Whatever changes that has the follower called again, or goes unnoticed.   *)
LEMMA ChangesAreFollowed ==
    ASSUME TypeOK, Next
    PROVE  \/ follows' > 0
           \/ slips' # {}
           \/ /\ ResolveTarget' = ResolveTarget /\ CalledFor' = CalledFor
              /\ granted' = granted
<1>0. BrowserOK /\ follows \in Nat /\ follows + 1 > 0
  BY DEF TypeOK, AwaitsOK
<1>1. CASE UNCHANGED browser
  BY <1>1, SameView DEF browser
<1>2. ASSUME NEW t \in Tabs, NEW o \in Origins \cup {Opaque}, Navigate(t, o)
      PROVE  \/ follows' > 0
             \/ slips' # {}
             \/ /\ ResolveTarget' = ResolveTarget /\ CalledFor' = CalledFor
                /\ granted' = granted
  <2>1. CASE t = active
    BY <1>0, <1>2, <2>1 DEF Navigate, ScheduleFollow
  <2>2. CASE t # active
    <3>1. page'[active] = page[active] \/ active = NoTabId
      BY <1>0, <1>2, <2>2 DEF Navigate, BrowserOK
    <3>2. active' = active /\ granted' = granted /\ (active \in transient' <=> active \in transient)
      BY <1>2, <2>2 DEF Navigate
    <3> QED BY <3>1, <3>2, SameView
  <2> QED BY <2>1, <2>2
<1>3. ASSUME NEW t \in Tabs, Close(t)
      PROVE  \/ follows' > 0
             \/ /\ ResolveTarget' = ResolveTarget /\ CalledFor' = CalledFor
                /\ granted' = granted
  <2>1. CASE t = active
    BY <1>0, <1>3, <2>1 DEF Close, ScheduleFollow
  <2>2. CASE t # active
    BY <1>3, <2>2, SameView DEF Close
  <2> QED BY <2>1, <2>2
<1>4. CASE follows' = follows + 1
  BY <1>0, <1>4
<1>5. CASE Restart
  BY <1>5 DEF Restart
<1> QED BY Choices, <1>1, <1>2, <1>3, <1>4, <1>5
    DEF Switch, Revoke, GrantAccess, ClickToolbar, ScheduleFollow, FollowReads, FollowAccess,
        FollowRechecks, FollowInjects, AccessConfirmed, RestoreReads, RestoreLands, RunTask,
        TaskStarts, TaskAccess, TaskLoops, CaptureAsked, CaptureChecked, CaptureTaken,
        TaskEnds

(* What the follower decides upon an up-to-date query settles the matter.    *)
LEMMA DecisionSettles ==
    ASSUME TypeOK, Following, Restorable, ~loopRunning, NEW d \in BOOLEAN,
           Decide(ResolveTarget, d),
           ResolveTarget.kind = "page" => d = HasSiteAccess(ResolveTarget.origin),
           ready' = ready, CalledFor' = CalledFor
    PROVE  Settled'
<1>0. AttachmentsOK /\ AwaitsOK /\ BrowserOK
  BY DEF TypeOK
<1> DEFINE r == ResolveTarget
<1>1. r \in Targets /\ (r.kind = "page" => r.tab \in Tabs)
  BY <1>0, Resolved
<1>2. attachedTab' = IF r.kind = "page" THEN AttachmentOf(r, d) ELSE NoTab
  BY <1>0, <1>1, Decided
<1>3. attachedTab' = CalledFor
  BY <1>2 DEF CalledFor
<1>4. \/ shown' = attachedTab'
      \/ r.kind = "page" /\ UNCHANGED <<attachedTab, shown>>
  BY <1>0, <1>1, Decided
<1>5. follow' \in {NoFollow, [NoFollow EXCEPT !.at = "injecting"]}
  BY <1>0, <1>1, Decided
<1>6. CASE r.kind = "page" /\ UNCHANGED <<attachedTab, shown>>
  <2>1. attachedTab' \in AttachedTabs
    BY <1>1, <1>2, <1>6, PageAttached
  <2>2. attachedTab # NoTab
    BY <1>6, <2>1, Distinct
  <2>3. ready # "done" => shown = attachedTab
    BY <2>2 DEF Restorable
  <2> QED BY <1>3, <1>5, <1>6, <2>3, Idle DEF Settled
<1>7. CASE shown' = attachedTab'
  BY <1>3, <1>5, <1>7, Idle DEF Settled
<1> QED BY <1>4, <1>6, <1>7

(* A follower that is up to date, or has settled, stays so while nothing it  *)
(* has not been called for changes.                                          *)
LEMMA FollowedStep ==
    ASSUME TypeOK, Following, Restorable, Followed, Next
    PROVE  Followed'
<1> SUFFICES ASSUME slips' = {}, ~loopRunning', ~(follows' > 0)
             PROVE  UpToDate' \/ Settled'
  BY DEF Followed
<1>0. /\ AttachmentsOK /\ AwaitsOK /\ BrowserOK /\ follow \in FollowStates
      /\ follows \in Nat /\ follows + 1 > 0 /\ follows' \in Nat
  BY FollowTyped DEF TypeOK, AwaitsOK, FollowStates
<1>1. /\ ResolveTarget' = ResolveTarget /\ CalledFor' = CalledFor
      /\ granted' = granted
  BY ChangesAreFollowed
<1>2. HasSiteAccess(ResolveTarget.origin)' = HasSiteAccess(ResolveTarget.origin)
  BY <1>1 DEF HasSiteAccess
<1>3. ~Restart /\ ~TaskStarts /\ ~TaskAccess /\ ~RunTask /\ ~TaskEnds
  <2>1. ~Restart
    BY DEF Restart
  <2>2. ~TaskEnds
    BY <1>0 DEF TaskEnds, Ended, ScheduleFollow
  <2>3. ~RunTask
    BY DEF RunTask
  <2>4. ~TaskStarts
    BY <1>0 DEF TaskStarts, Ended, ScheduleFollow, AwaitsOK
  <2>5. ~TaskAccess
    BY <1>0 DEF TaskAccess, Ended, ScheduleFollow, AwaitsOK
  <2> QED BY <2>1, <2>2, <2>3, <2>4, <2>5
<1>4. loopRunning' = loopRunning /\ slips \subseteq slips'
  BY <1>3, Choices
  DEF notes, Switch, Navigate, Close, Revoke, GrantAccess, ClickToolbar,
      FollowReads, FollowAccess, FollowRechecks, FollowInjects, AccessConfirmed,
      RestoreReads, RestoreLands, TaskLoops, CaptureAsked, CaptureChecked, CaptureTaken
<1>5. slips = {} /\ ~loopRunning
  BY <1>4
<1>6. follows > 0 \/ UpToDate \/ Settled
  BY <1>5 DEF Followed
<1>7. CASE FollowReads
  <2>1. CASE ResolveTarget.kind = "page"
    <3> DEFINE r == ResolveTarget
    <3>1. /\ follow' = [NoFollow EXCEPT !.at = "access", !.target = r]
          /\ r \in Targets
      BY <1>0, <1>7, <2>1, Resolved DEF FollowReads
    <3> HIDE DEF r
    <3>2. follow'.at = "access" /\ follow'.target = r
      BY <3>1 DEF NoFollow
    <3> QED BY <1>1, <3>2 DEF UpToDate, r
  <2>2. CASE ResolveTarget.kind # "page"
    <3>1. Decide(ResolveTarget, FALSE) /\ ready' = ready
      BY <1>7, <2>2 DEF FollowReads
    <3> QED BY <1>1, <1>5, <2>2, <3>1, DecisionSettles
  <2> QED BY <2>1, <2>2
<1>8. ASSUME ~FollowReads PROVE UpToDate \/ Settled
  <2>1. follows' \in {follows, follows + 1}
    BY <1>3, <1>8, Choices
    DEF ScheduleFollow, Switch, Navigate, Close, Revoke, GrantAccess, ClickToolbar,
        FollowAccess, FollowRechecks, FollowInjects, AccessConfirmed,
        RestoreReads, RestoreLands, TaskLoops, CaptureAsked, CaptureChecked, CaptureTaken
  <2> QED BY <1>0, <1>6, <2>1
<1>9. CASE FollowAccess
  <2>1. follow.at = "access"
    BY <1>9 DEF FollowAccess
  <2>2. follow.target = ResolveTarget
    BY <1>8, <1>9, <2>1 DEF UpToDate, Settled, FollowReads
  <2>3. /\ follow'.at = "recheck" /\ follow'.target = follow.target
        /\ follow'.durable = HasSiteAccess(follow.target.origin)
    BY <1>0, <1>9 DEF FollowAccess, FollowStates
  <2> QED BY <1>1, <1>2, <2>2, <2>3 DEF UpToDate
<1>10. CASE FollowRechecks
  <2>1. follow.at = "recheck"
    BY <1>10 DEF FollowRechecks
  <2>2. /\ follow.target = ResolveTarget
        /\ follow.durable = HasSiteAccess(ResolveTarget.origin)
    BY <1>8, <1>10, <2>1 DEF UpToDate, Settled, FollowReads
  <2>3. ResolveTarget.tab = active
    BY <1>0, <2>1, <2>2, Resolved DEF Following
  <2>4. Decide(ResolveTarget, follow.durable) /\ ready' = ready
    BY <1>10, <2>2, <2>3 DEF FollowRechecks
  <2>5. follow.durable \in BOOLEAN
    BY <1>0 DEF FollowStates
  <2> QED BY <1>1, <1>5, <2>2, <2>4, <2>5, DecisionSettles
<1>11. CASE FollowInjects
  <2>1. follow.at = "injecting" /\ follow' = NoFollow
    BY <1>11 DEF FollowInjects
  <2>2. Settled
    BY <1>8, <1>11, <2>1 DEF UpToDate, FollowReads
  <2> QED BY <1>1, <1>11, <2>1, <2>2, Idle DEF FollowInjects, Settled
<1>12. CASE AccessConfirmed
  <2>1. UpToDate \/ Settled
    BY <1>8, <1>12 DEF AccessConfirmed, FollowReads
  <2>2. follow' = follow /\ ready' = "done"
    BY <1>12 DEF AccessConfirmed
  <2>3. attachedTab' = attachedTab
    <3>1. CASE attachedTab # NoTab
      <4>1. /\ attachedTab' = [attachedTab EXCEPT !.origin = grant]
            /\ attachedTab \in AttachedTabs /\ attachedTab.origin = grant
        BY <1>0, <1>12, <3>1 DEF AccessConfirmed, AttachmentsOK
      <4> QED BY <4>1 DEF AttachedTabs
    <3> QED BY <1>12, <3>1 DEF AccessConfirmed
  <2> QED BY <1>1, <1>2, <2>1, <2>2, <2>3 DEF UpToDate, Settled
<1>13. CASE RestoreReads \/ RestoreLands
  <2>1. UpToDate \/ Settled
    BY <1>8, <1>13 DEF RestoreReads, RestoreLands, FollowReads
  <2>2. follow' = follow /\ shown' = shown /\ ready # "done"
    BY <1>13 DEF RestoreReads, RestoreLands
  <2>3. attachedTab' = attachedTab \/ (ready' = "done" /\ attachedTab' = shown)
    BY <1>13 DEF RestoreReads, RestoreLands
  <2> QED BY <1>1, <1>2, <2>1, <2>2, <2>3 DEF UpToDate, Settled
<1>14. ASSUME NEW t \in Tabs, Close(t) PROVE UpToDate' \/ Settled'
  <2>1. /\ t # active /\ follow' = follow /\ ready' = ready
        /\ follows' = follows
    BY <1>0, <1>14 DEF Close, ScheduleFollow
  <2>2. UpToDate \/ Settled
    BY <1>0, <1>8, <2>1 DEF FollowReads
  <2>3. CASE UpToDate
    BY <1>1, <1>2, <2>1, <2>3 DEF UpToDate
  <2>4. CASE Settled
    <3>1. CalledFor = NoTab \/ CalledFor.tab = active
      BY <1>0, Resolved DEF CalledFor, AttachmentOf
    <3>2. attachedTab.tab # t
      BY <2>1, <2>4, <3>1, Distinct DEF Settled
    <3>3. attachedTab' = attachedTab /\ shown' = shown
      BY <1>14, <3>2 DEF Close
    <3> QED BY <1>1, <2>1, <2>4, <3>3 DEF Settled
  <2> QED BY <2>2, <2>3, <2>4
<1>15. CASE UNCHANGED <<follow, attachedTab, shown, ready>>
  <2>1. CASE FollowReads
    BY <1>7, <2>1
  <2>2. CASE ~FollowReads
    BY <1>1, <1>2, <1>8, <1>15, <2>2 DEF UpToDate, Settled
  <2> QED BY <2>1, <2>2
<1>16. CASE ClickToolbar
  BY <1>0, <1>16 DEF ClickToolbar, ScheduleFollow
<1> QED BY Choices, <1>3, <1>7, <1>9, <1>10, <1>11, <1>12, <1>13, <1>14, <1>15, <1>16
    DEF Switch, Navigate, Revoke, GrantAccess, TaskLoops, CaptureAsked, CaptureChecked,
        CaptureTaken
-----------------------------------------------------------------------------
LEMMA InvInit == Init => IInv
<1> SUFFICES ASSUME Init PROVE IInv
  OBVIOUS
<1>1. Bounds
  BY Idle, Distinct DEF Init, Bounds, TaskOwns, Aimed, RunKeepsItsBounds, Granted
<1>2. Following /\ Restorable /\ Followed
  BY Idle, Distinct DEF Init, Following, Restorable, Followed
<1> QED BY <1>1, <1>2 DEF IInv

LEMMA InvStep ==
    ASSUME TypeOK, IInv, [Next]_vars
    PROVE  IInv'
<1>1. CASE Next
  <2>1. Following' /\ Restorable' /\ Followed'
    BY <1>1, FollowTyped, RestorableStep, FollowedStep DEF IInv
  <2>2. Bounds'
    BY <1>1, BoundsAside, BoundsOfTask DEF IInv
  <2> QED BY <2>1, <2>2 DEF IInv
<1>2. CASE UNCHANGED vars
  <2>1. Following' /\ Restorable'
    BY <1>2 DEF IInv, vars, browser, memory, notes, Following, Restorable
  <2>2. Followed'
    <3>1. ResolveTarget' = ResolveTarget /\ CalledFor' = CalledFor
      BY <1>2, SameView DEF vars, browser
    <3> QED BY <1>2, <3>1 DEF IInv, vars, browser, memory, notes, Followed, UpToDate, Settled,
                              HasSiteAccess
  <2>3. Bounds'
    BY <1>2 DEF IInv, vars, browser, memory, notes, Bounds, TaskOwns, Aimed,
                RunKeepsItsBounds, Granted
  <2> QED BY <2>1, <2>2, <2>3 DEF IInv
<1> QED BY <1>1, <1>2

LEMMA Invariance == Spec => [](TypeOK /\ IInv)
<1>1. TypeOK /\ IInv /\ [Next]_vars => TypeOK' /\ IInv'
  BY TypeStep, InvStep DEF IInv
<1> QED BY TypeInit, InvInit, <1>1, PTL DEF Spec

(* However the user switches tabs, closes, navigates and revokes, and        *)
(* whatever the follower is in the middle of, a run stays on the tab it      *)
(* started on, pictures that tab, and may go only where access was granted.  *)
THEOREM RunIsBounded == Spec => []RunKeepsItsBounds
<1>1. IInv => RunKeepsItsBounds
  BY DEF IInv, Bounds
<1> QED BY Invariance, <1>1, PTL

(* Outside a run the attachment ends up being what the active tab calls for, *)
(* and the panel names it, for any number of tabs, switches and evictions.   *)
THEOREM UserIsFollowed == Spec => []FollowsTheUser
<1>1. IInv => FollowsTheUser
  BY DEF IInv, Restorable, Followed, UpToDate, Settled, FollowsTheUser, Quiet
<1> QED BY Invariance, <1>1, PTL

-----------------------------------------------------------------------------
(* The requests to the page.                                                 *)

(* Documents a request has come past: each resend but the first was made     *)
(* because a document went, and the one under way is about to find out.      *)
Passed(r) ==
    /\ doc >= began[r] /\ doc + 1 >= began[r] + attempts[r]
    /\ at[r] = "sending" /\ listeners = 0 => doc >= began[r] + attempts[r]
    /\ at[r] = "replying" => sentTo[r] <= doc /\ sentTo[r] + 1 >= began[r] + attempts[r]
    /\ at[r] = "lost" => doc >= began[r] + 2

(* Times a request was performed, unless it is excused.                      *)
Counted(r) ==
    crowded \/ cutOff[r]
        \/ /\ performed[r] <= 1
           /\ at[r] \in {"sending", "waiting", "pinging", "injecting"} => performed[r] = 0

RequestInv ==
    /\ crowded \/ listeners <= 1
    /\ \A r \in Requesters : Passed(r) /\ Counted(r)

-----------------------------------------------------------------------------
(* Types.                                                                    *)

Places == {"pinging", "injecting", "waiting", "sending", "replying"} \cup Free

(* Where a caller's next step takes it from, and to; the first five move     *)
(* requests only.                                                            *)
LEMMA CallerMoves ==
    ASSUME RequestTypeOK, NEW c \in Callers, Caller(c)
    PROVE  \/ c \in Requesters /\ Waited(c)
           \/ c \in Requesters /\ Receives(c)
           \/ c \in Requesters /\ Replies(c)
           \/ c \in Requesters /\ NobodyListens(c)
           \/ c \in Requesters /\ PortCloses(c)
           \/ Pings(c) \/ Injects(c) \/ InjectFails(c)
<1>1. at[c] \in {"waiting", "sending", "replying"} => c \in Requesters
  BY DEF RequestTypeOK, Callers
<1> QED BY <1>1 DEF Caller, Waited, Receives, Replies, NobodyListens, PortCloses

(* A caller goes to a place it may be in.                                    *)
LEMMA GoesType ==
    ASSUME RequestTypeOK, NEW c \in Callers, NEW place \in Places, Goes(c, place),
           c \in Openers => place \in {"idle", "pinging", "injecting"}
    PROVE  /\ at' \in [Callers -> Places]
           /\ at'[c] = place
           /\ \A d \in Callers : d # c => at'[d] = at[d]
           /\ \A o \in Openers : at'[o] \in {"idle", "pinging", "injecting"}
<1>1. at \in [Callers -> Places] /\ at' = [at EXCEPT ![c] = place]
  BY DEF RequestTypeOK, Places, Goes
<1>2. /\ at' \in [Callers -> Places]
      /\ at'[c] = place
      /\ \A d \in Callers : d # c => at'[d] = at[d]
  BY <1>1
<1>3. \A o \in Openers : o \in Callers /\ at[o] \in {"idle", "pinging", "injecting"}
  BY DEF RequestTypeOK, Callers
<1> QED BY <1>2, <1>3

LEMMA EnsuredPlace ==
    ASSUME NEW c \in Callers
    PROVE  /\ Ensured(c) \in Places
           /\ Refused(c) \in Places
           /\ c \in Openers => Ensured(c) = "idle" /\ Refused(c) = "idle"
           /\ c \in Requesters => Ensured(c) = "sending" /\ Refused(c) = "threw"
BY RequestAssumption DEF Ensured, Refused, Places, Free, Finished, Callers

LEMMA ResendMoves ==
    ASSUME RequestTypeOK, NEW r \in Requesters, Resend(r)
    PROVE  /\ at' \in [Callers -> Places]
           /\ \A o \in Openers : at'[o] \in {"idle", "pinging", "injecting"}
           /\ \A d \in Callers : d # r => at'[d] = at[d]
           /\ attempts' \in [Requesters -> 0 .. 2]
           /\ \A d \in Requesters : d # r => attempts'[d] = attempts[d]
           /\ \/ at'[r] = "waiting" /\ attempts'[r] = attempts[r] + 1
              \/ at'[r] = "lost" /\ attempts'[r] = 2 /\ attempts[r] = 2
<1>0. r \in Callers /\ r \notin Openers /\ attempts \in [Requesters -> 0 .. 2]
  BY RequestAssumption DEF Callers, RequestTypeOK
<1>1. CASE attempts[r] < 2
  <2>1. Goes(r, "waiting") /\ attempts' = [attempts EXCEPT ![r] = @ + 1]
    BY <1>1 DEF Resend
  <2>2. attempts[r] + 1 \in 0 .. 2
    BY <1>0, <1>1
  <2>3. /\ attempts' \in [Requesters -> 0 .. 2] /\ attempts'[r] = attempts[r] + 1
        /\ \A d \in Requesters : d # r => attempts'[d] = attempts[d]
    BY <1>0, <2>1, <2>2
  <2> QED BY <1>0, <2>1, <2>3, GoesType DEF Places
<1>2. CASE ~(attempts[r] < 2)
  <2>1. Goes(r, "lost") /\ attempts' = attempts
    BY <1>2 DEF Resend
  <2>2. attempts[r] = 2
    BY <1>0, <1>2
  <2> QED BY <1>0, <2>1, <2>2, GoesType DEF Places, Free, Finished
<1> QED BY <1>1, <1>2

LEMMA InitType == RequestInit => RequestTypeOK
<1> SUFFICES ASSUME RequestInit PROVE RequestTypeOK
    OBVIOUS
<1>1. /\ doc \in 1 .. MaxDocs /\ listeners \in Nat /\ requests \in 0 .. MaxRequests
      /\ attempts \in [Requesters -> 0 .. 2]
      /\ began \in [Requesters -> Nat] /\ sentTo \in [Requesters -> Nat]
      /\ performed \in [Requesters -> Nat]
  BY RequestAssumption DEF RequestInit
<1>2. /\ at \in [Callers -> {"pinging", "injecting", "waiting", "sending", "replying"} \cup Free]
      /\ \A o \in Openers : at[o] \in {"idle", "pinging", "injecting"}
  BY DEF RequestInit, Free, Callers
<1>3. cutOff \in [Requesters -> BOOLEAN] /\ crowded \in BOOLEAN
  BY DEF RequestInit
<1> QED BY <1>1, <1>2, <1>3 DEF RequestTypeOK

(* The parts of RequestTypeOK: numbers, places and flags.                           *)
Numbers ==
    /\ doc \in 1 .. MaxDocs
    /\ listeners \in Nat
    /\ attempts \in [Requesters -> 0 .. 2]
    /\ began \in [Requesters -> Nat] /\ sentTo \in [Requesters -> Nat]
    /\ performed \in [Requesters -> Nat]
    /\ requests \in 0 .. MaxRequests

Positions ==
    /\ at \in [Callers -> Places]
    /\ \A o \in Openers : at[o] \in {"idle", "pinging", "injecting"}

Flags == cutOff \in [Requesters -> BOOLEAN] /\ crowded \in BOOLEAN

LEMMA Parts == RequestTypeOK <=> Numbers /\ Positions /\ Flags
BY DEF RequestTypeOK, Numbers, Positions, Flags, Places

LEMMA StepType == RequestTypeOK /\ [RequestNext]_requestVars => RequestTypeOK'
<1> SUFFICES ASSUME RequestTypeOK, [RequestNext]_requestVars PROVE Numbers' /\ Positions' /\ Flags'
    BY DEF RequestTypeOK, Numbers, Positions, Flags, Places
<1>0. Numbers /\ Positions /\ Flags
  BY Parts
<1>1. CASE UNCHANGED requestVars
  BY <1>0, <1>1 DEF requestVars, tabVars, obsVars, Numbers, Positions, Flags
<1>2. CASE Commits
  <2>1. Numbers'
    <3>1. doc' \in 1 .. MaxDocs /\ listeners' \in Nat
      BY <1>0, <1>2, RequestAssumption DEF Commits, Numbers
    <3>2. UNCHANGED <<attempts, began, sentTo, performed, requests>>
      BY <1>2 DEF Commits, obsVars
    <3> QED BY <1>0, <3>1, <3>2 DEF Numbers
  <2>2. Positions' /\ Flags'
    BY <1>0, <1>2 DEF Commits, Positions, Flags, obsVars
  <2> QED BY <2>1, <2>2
<1>3. ASSUME NEW o \in Openers, Opens(o) PROVE Numbers' /\ Positions' /\ Flags'
  <2>1. o \in Callers /\ "pinging" \in Places /\ Goes(o, "pinging")
    BY <1>3 DEF Callers, Places, Opens
  <2>2. Positions'
    BY <2>1, GoesType DEF Positions
  <2> QED BY <1>0, <1>3, <2>2 DEF Opens, tabVars, obsVars, Numbers, Flags
<1>4. ASSUME NEW r \in Requesters, Requests(r) PROVE Numbers' /\ Positions' /\ Flags'
  <2>1. r \in Callers /\ r \notin Openers /\ "sending" \in Places /\ Goes(r, "sending")
    BY <1>4, RequestAssumption DEF Callers, Places, Requests
  <2>2. Positions'
    BY <2>1, GoesType DEF Positions
  <2>3. Numbers'
    <3>1. UNCHANGED <<doc, listeners, sentTo>> /\ requests' = requests + 1
          /\ requests < MaxRequests
      BY <1>4 DEF Requests, tabVars
    <3>2. /\ attempts' = [attempts EXCEPT ![r] = 0] /\ began' = [began EXCEPT ![r] = doc]
          /\ performed' = [performed EXCEPT ![r] = 0]
      BY <1>4 DEF Requests
    <3>3. requests' \in 0 .. MaxRequests
      BY <1>0, <3>1, RequestAssumption DEF Numbers
    <3> QED BY <1>0, <3>1, <3>2, <3>3 DEF Numbers
  <2>4. Flags'
    BY <1>0, <1>4 DEF Requests, Flags
  <2> QED BY <2>2, <2>3, <2>4
<1>5. ASSUME NEW c \in Callers, Pings(c) \/ InjectFails(c) PROVE Numbers' /\ Positions' /\ Flags'
  <2>1. UNCHANGED <<tabVars, attempts, obsVars>>
    BY <1>5 DEF Pings, InjectFails
  <2>2. PICK place \in {Ensured(c), "injecting", Refused(c)} : Goes(c, place)
    BY <1>5 DEF Pings, Ping, InjectFails
  <2>3. place \in Places /\ (c \in Openers => place \in {"idle", "pinging", "injecting"})
    BY <2>2, EnsuredPlace DEF Places, Free, Finished
  <2>4. Positions'
    BY <2>2, <2>3, GoesType DEF Positions
  <2> QED BY <1>0, <2>1, <2>4 DEF tabVars, obsVars, Numbers, Flags
<1>6. ASSUME NEW c \in Callers, Injects(c) PROVE Numbers' /\ Positions' /\ Flags'
  <2>1. Positions'
    BY <1>6, EnsuredPlace, GoesType DEF Positions, Injects
  <2>2. Numbers'
    BY <1>0, <1>6 DEF Injects, Numbers
  <2>3. Flags'
    BY <1>0, <1>6 DEF Injects, Flags
  <2> QED BY <2>1, <2>2, <2>3
<1>7. ASSUME NEW r \in Requesters, Receives(r) PROVE Numbers' /\ Positions' /\ Flags'
  <2>1. r \in Callers /\ r \notin Openers /\ "replying" \in Places
    BY RequestAssumption DEF Callers, Places
  <2>2. Positions'
    BY <1>7, <2>1, GoesType DEF Positions, Receives
  <2>3. Numbers'
    BY <1>0, <1>7 DEF Receives, Numbers, tabVars
  <2>4. Flags'
    BY <1>0, <1>7 DEF Receives, Flags
  <2> QED BY <2>2, <2>3, <2>4
<1>8. ASSUME NEW r \in Requesters, Replies(r) \/ Waited(r) PROVE Numbers' /\ Positions' /\ Flags'
  <2>1. r \in Callers /\ r \notin Openers /\ {"answered", "threw", "pinging"} \subseteq Places
    BY RequestAssumption DEF Callers, Places, Free, Finished
  <2>2. UNCHANGED <<tabVars, attempts, obsVars>>
    BY <1>8 DEF Replies, Waited
  <2>3. PICK place \in {"answered", "threw", "pinging"} : Goes(r, place)
    BY <1>8 DEF Replies, Waited
  <2>4. Positions'
    BY <2>1, <2>3, GoesType DEF Positions
  <2> QED BY <1>0, <2>2, <2>4 DEF tabVars, obsVars, Numbers, Flags
<1>9. ASSUME NEW r \in Requesters, NobodyListens(r) \/ PortCloses(r)
      PROVE  Numbers' /\ Positions' /\ Flags'
  <2>1. Resend(r)
    BY <1>9 DEF NobodyListens, PortCloses
  <2>2. Positions' /\ attempts' \in [Requesters -> 0 .. 2]
    BY <2>1, ResendMoves DEF Positions
  <2>3. UNCHANGED <<doc, listeners, began, sentTo, performed, crowded, requests>>
    BY <1>9 DEF NobodyListens, PortCloses, tabVars, obsVars
  <2>4. cutOff' \in [Requesters -> BOOLEAN]
    BY <1>0, <1>9 DEF NobodyListens, PortCloses, obsVars, Flags
  <2>5. Numbers'
    BY <1>0, <2>2, <2>3 DEF Numbers
  <2> QED BY <1>0, <2>2, <2>3, <2>4, <2>5 DEF Flags
<1>10. ASSUME NEW c \in Callers, Caller(c) PROVE Numbers' /\ Positions' /\ Flags'
  BY <1>5, <1>6, <1>7, <1>8, <1>9, <1>10, CallerMoves
<1> QED BY <1>1, <1>2, <1>3, <1>4, <1>10 DEF RequestNext

(* Every variable keeps its type: no request is resent more than twice, and  *)
(* the toolbar and the following of tabs only ever ping and inject.          *)
THEOREM RequestTyped == RequestSpec => []RequestTypeOK
<1> QED BY InitType, StepType, PTL DEF RequestSpec

-----------------------------------------------------------------------------
(* Requests.                                                                 *)

LEMMA InitInv == RequestInit => RequestInv
<1> SUFFICES ASSUME RequestInit PROVE RequestInv
    OBVIOUS
<1>1. listeners = 0
  BY DEF RequestInit
<1>2. ASSUME NEW r \in Requesters PROVE Passed(r)
  <2>1. at[r] = "idle" /\ doc = 1 /\ began[r] = 1 /\ attempts[r] = 0
    BY DEF RequestInit, Callers
  <2> QED BY <2>1 DEF Passed
<1>3. ASSUME NEW r \in Requesters PROVE Counted(r)
  BY DEF RequestInit, Counted
<1> QED BY <1>1, <1>2, <1>3 DEF RequestInv

(* A request nobody's step concerns stays as it was, whatever listeners      *)
(* come.                                                                     *)
LEMMA OthersPassed ==
    ASSUME RequestTypeOK, NEW r \in Requesters, Passed(r), at'[r] = at[r], doc' = doc,
           attempts'[r] = attempts[r], began'[r] = began[r], sentTo'[r] = sentTo[r],
           listeners' >= listeners, listeners' \in Nat
    PROVE  Passed(r)'
<1>1. listeners \in Nat /\ (listeners' = 0 => listeners = 0)
  BY DEF RequestTypeOK
<1> QED BY <1>1 DEF Passed

LEMMA OthersCounted ==
    ASSUME NEW r \in Requesters, Counted(r), at'[r] = at[r], crowded => crowded',
           cutOff'[r] = cutOff[r], performed'[r] = performed[r]
    PROVE  Counted(r)'
BY DEF Counted

(* A step leaves the requests of others alone.                               *)
LEMMA StepInv ==
    ASSUME RequestTypeOK, RequestInv, [RequestNext]_requestVars
    PROVE  RequestInv'
<1>0. /\ Numbers /\ Positions /\ Flags
      /\ Numbers' /\ Positions' /\ Flags'
      /\ \A r \in Requesters : r \in Callers /\ r \notin Openers
  BY Parts, StepType, RequestAssumption DEF Callers, RequestTypeOK, Numbers, Positions, Flags, Places
<1>1. CASE UNCHANGED requestVars
  <2>1. UNCHANGED <<doc, listeners, at, attempts, began, sentTo, performed, cutOff, crowded>>
    BY <1>1 DEF requestVars, tabVars, obsVars
  <2> QED BY <2>1 DEF RequestInv, Passed, Counted
<1>2. CASE Commits
  <2>1. /\ UNCHANGED <<at, attempts, began, sentTo, performed, cutOff, crowded>>
        /\ doc' = doc + 1 /\ listeners' = 0
    BY <1>2 DEF Commits, obsVars
  <2>2. ASSUME NEW r \in Requesters PROVE Passed(r)'
    <3>1. /\ doc \in Nat /\ began[r] \in Nat /\ attempts[r] \in 0 .. 2
          /\ sentTo[r] \in Nat /\ Passed(r)
      BY <1>0 DEF Numbers, RequestInv
    <3> QED BY <2>1, <3>1 DEF Passed
  <2>3. ASSUME NEW r \in Requesters PROVE Counted(r)'
    BY <2>1 DEF RequestInv, Counted
  <2> QED BY <2>1, <2>2, <2>3 DEF RequestInv
<1>3. ASSUME NEW o \in Openers, Opens(o) PROVE RequestInv'
  <2>1. UNCHANGED <<doc, listeners, attempts, began, sentTo, performed, cutOff, crowded>>
    BY <1>3 DEF Opens, tabVars, obsVars
  <2>2. \A r \in Requesters : at'[r] = at[r]
    BY <1>0, <1>3 DEF Opens, Goes, Positions
  <2> QED BY <2>1, <2>2 DEF RequestInv, Passed, Counted
<1>4. ASSUME NEW q \in Requesters, Requests(q) PROVE RequestInv'
  <2>1. UNCHANGED <<doc, listeners, sentTo, crowded>>
    BY <1>4 DEF Requests, tabVars
  <2>2. /\ at'[q] = "sending" /\ attempts'[q] = 0 /\ began'[q] = doc
        /\ performed'[q] = 0 /\ ~cutOff'[q]
    BY <1>0, <1>4 DEF Requests, Goes, Numbers, Positions, Flags
  <2>3. ASSUME NEW r \in Requesters, r # q
        PROVE  /\ at'[r] = at[r] /\ attempts'[r] = attempts[r] /\ began'[r] = began[r]
               /\ performed'[r] = performed[r] /\ cutOff'[r] = cutOff[r]
    BY <1>0, <1>4, <2>3 DEF Requests, Goes, Numbers, Positions, Flags
  <2>4. Passed(q)'
    BY <1>0, <2>1, <2>2 DEF Passed, Numbers
  <2>5. Counted(q)'
    BY <2>2 DEF Counted
  <2>6. ASSUME NEW r \in Requesters, r # q PROVE Passed(r)' /\ Counted(r)'
    BY <2>1, <2>3, <2>6 DEF RequestInv, Passed, Counted
  <2> QED BY <2>1, <2>4, <2>5, <2>6 DEF RequestInv
<1>5. ASSUME NEW c \in Callers, Pings(c) \/ InjectFails(c) PROVE RequestInv'
  <2>1. UNCHANGED <<doc, listeners, attempts, began, sentTo, performed, cutOff, crowded>>
    BY <1>5 DEF Pings, InjectFails, tabVars, obsVars
  <2>2. ASSUME NEW r \in Requesters, r # c PROVE at'[r] = at[r]
    BY <1>0, <1>5, <2>2 DEF Pings, Ping, InjectFails, Goes, Positions
  <2>3. ASSUME c \in Requesters
        PROVE  /\ at[c] \in {"pinging", "injecting"}
               /\ at'[c] \in {"sending", "injecting", "threw"}
               /\ at'[c] = "sending" => listeners > 0
    BY <1>0, <1>5, <2>3, EnsuredPlace DEF Pings, Ping, InjectFails, Goes, Positions
  <2>4. ASSUME NEW r \in Requesters PROVE Passed(r)' /\ Counted(r)'
    <3>1. CASE r # c
      BY <2>1, <2>2, <3>1 DEF RequestInv, Passed, Counted
    <3>2. CASE r = c
      <4>1. Passed(c)'
        BY <1>0, <2>1, <2>3, <3>2 DEF RequestInv, Passed, Numbers
      <4>2. Counted(c)'
        BY <2>1, <2>3, <3>2 DEF RequestInv, Counted
      <4> QED BY <3>2, <4>1, <4>2
    <3> QED BY <3>1, <3>2
  <2> QED BY <2>1, <2>4 DEF RequestInv
<1>6. ASSUME NEW c \in Callers, Injects(c) PROVE RequestInv'
  <2>1. /\ UNCHANGED <<doc, attempts, began, sentTo, performed, cutOff>>
        /\ listeners' = listeners + 1
        /\ crowded' = (crowded \/ listeners > 0)
    BY <1>6 DEF Injects
  <2>2. ASSUME NEW r \in Requesters, r # c PROVE at'[r] = at[r]
    BY <1>0, <1>6, <2>2 DEF Injects, Goes, Positions
  <2>3. ASSUME c \in Requesters PROVE at[c] = "injecting" /\ at'[c] = "sending"
    BY <1>0, <1>6, <2>3, EnsuredPlace DEF Injects, Goes, Positions
  <2>4. listeners \in Nat
    BY <1>0 DEF Numbers
  <2>5. ASSUME NEW r \in Requesters PROVE Passed(r)'
    <3>1. CASE r # c
      BY <2>1, <2>2, <2>4, <3>1, OthersPassed DEF RequestInv
    <3>2. CASE r = c
      <4>1. listeners' # 0
        BY <2>1, <2>4
      <4> QED BY <1>0, <2>1, <2>3, <3>2, <4>1 DEF RequestInv, Passed, Numbers
    <3> QED BY <3>1, <3>2
  <2>6. ASSUME NEW r \in Requesters PROVE Counted(r)'
    <3>1. CASE r # c
      BY <2>1, <2>2, <3>1, OthersCounted DEF RequestInv
    <3>2. CASE r = c
      BY <2>1, <2>3, <3>2 DEF RequestInv, Counted
    <3> QED BY <3>1, <3>2
  <2>7. crowded' \/ listeners' <= 1
    <3>1. CASE listeners > 0
      BY <2>1, <3>1
    <3>2. CASE ~(listeners > 0)
      BY <2>1, <2>4, <3>2
    <3> QED BY <3>1, <3>2
  <2> QED BY <2>5, <2>6, <2>7 DEF RequestInv
<1>7. ASSUME NEW q \in Requesters, Receives(q) PROVE RequestInv'
  <2>1. UNCHANGED <<doc, listeners, attempts, began, cutOff, crowded>>
    BY <1>7 DEF Receives, tabVars
  <2>2. /\ at[q] = "sending" /\ at'[q] = "replying" /\ sentTo'[q] = doc
        /\ performed'[q] = performed[q] + listeners
    BY <1>0, <1>7 DEF Receives, Goes, Numbers, Positions
  <2>3. ASSUME NEW r \in Requesters, r # q
        PROVE  at'[r] = at[r] /\ sentTo'[r] = sentTo[r] /\ performed'[r] = performed[r]
    BY <1>0, <1>7, <2>3 DEF Receives, Goes, Numbers, Positions
  <2>4. Passed(q)'
    BY <1>0, <2>1, <2>2 DEF RequestInv, Passed, Numbers
  <2>5. Counted(q)'
    <3>1. CASE crowded \/ cutOff[q]
      BY <2>1, <3>1 DEF Counted
    <3>2. CASE ~(crowded \/ cutOff[q])
      <4>1. performed[q] = 0 /\ listeners <= 1
        BY <2>2, <3>2 DEF RequestInv, Counted
      <4>2. performed'[q] <= 1
        BY <1>0, <2>2, <4>1 DEF Numbers
      <4> QED BY <2>2, <4>2 DEF Counted
    <3> QED BY <3>1, <3>2
  <2>6. ASSUME NEW r \in Requesters, r # q PROVE Passed(r)' /\ Counted(r)'
    BY <2>1, <2>3, <2>6 DEF RequestInv, Passed, Counted
  <2> QED BY <2>1, <2>4, <2>5, <2>6 DEF RequestInv
<1>8. ASSUME NEW q \in Requesters, Replies(q) \/ Waited(q) PROVE RequestInv'
  <2>1. UNCHANGED <<doc, listeners, attempts, began, sentTo, performed, cutOff, crowded>>
    BY <1>8 DEF Replies, Waited, tabVars, obsVars
  <2>2. \/ at[q] = "waiting" /\ at'[q] = "pinging"
        \/ at'[q] \in {"answered", "threw"}
    BY <1>0, <1>8 DEF Replies, Waited, Goes, Positions
  <2>3. ASSUME NEW r \in Requesters, r # q PROVE at'[r] = at[r]
    BY <1>0, <1>8, <2>3 DEF Replies, Waited, Goes, Positions
  <2>4. Passed(q)'
    BY <2>1, <2>2 DEF RequestInv, Passed
  <2>5. Counted(q)'
    BY <2>1, <2>2 DEF RequestInv, Counted
  <2>6. ASSUME NEW r \in Requesters, r # q PROVE Passed(r)' /\ Counted(r)'
    BY <2>1, <2>3, <2>6 DEF RequestInv, Passed, Counted
  <2> QED BY <2>1, <2>4, <2>5, <2>6 DEF RequestInv
<1>9. ASSUME NEW q \in Requesters, NobodyListens(q) \/ PortCloses(q) PROVE RequestInv'
  <2>1. Resend(q)
    BY <1>9 DEF NobodyListens, PortCloses
  <2>2. UNCHANGED <<doc, listeners, began, sentTo, performed, crowded>>
    BY <1>9 DEF NobodyListens, PortCloses, tabVars, obsVars
  <2>3. ASSUME NEW r \in Requesters, r # q
        PROVE  at'[r] = at[r] /\ attempts'[r] = attempts[r] /\ cutOff'[r] = cutOff[r]
    <3>1. at'[r] = at[r] /\ attempts'[r] = attempts[r]
      BY <1>0, <2>1, <2>3, ResendMoves
    <3>2. cutOff'[r] = cutOff[r]
      BY <1>0, <1>9, <2>3 DEF NobodyListens, PortCloses, obsVars, Flags
    <3> QED BY <3>1, <3>2
  <2>4. doc >= began[q] + attempts[q]
    <3>1. CASE NobodyListens(q)
      BY <3>1 DEF NobodyListens, RequestInv, Passed
    <3>2. CASE PortCloses(q)
      <4>1. at[q] = "replying" /\ sentTo[q] # doc
        BY <3>2 DEF PortCloses
      <4>2. sentTo[q] <= doc /\ sentTo[q] + 1 >= began[q] + attempts[q]
        BY <4>1 DEF RequestInv, Passed
      <4> QED BY <1>0, <4>1, <4>2 DEF Numbers
    <3> QED BY <1>9, <3>1, <3>2
  <2>5. \/ at'[q] = "waiting" /\ attempts'[q] = attempts[q] + 1
        \/ at'[q] = "lost" /\ attempts'[q] = 2 /\ attempts[q] = 2
    BY <2>1, ResendMoves
  <2>6. Passed(q)'
    <3>1. doc >= began[q] /\ doc \in Nat /\ began[q] \in Nat /\ attempts[q] \in 0 .. 2
      BY <1>0 DEF RequestInv, Passed, Numbers
    <3> QED BY <2>2, <2>4, <2>5, <3>1 DEF Passed
  <2>7. Counted(q)'
    <3>1. CASE NobodyListens(q)
      <4>1. at[q] = "sending" /\ cutOff'[q] = cutOff[q]
        BY <3>1 DEF NobodyListens, obsVars
      <4> QED BY <2>2, <2>5, <4>1 DEF RequestInv, Counted
    <3>2. CASE PortCloses(q)
      <4>1. cutOff'[q]
        BY <1>0, <3>2 DEF PortCloses, Flags
      <4> QED BY <4>1 DEF Counted
    <3> QED BY <1>9, <3>1, <3>2
  <2>8. ASSUME NEW r \in Requesters, r # q PROVE Passed(r)' /\ Counted(r)'
    <3>1. Passed(r)'
      BY <2>2, <2>3, <2>8 DEF RequestInv, Passed
    <3>2. Counted(r)'
      BY <2>2, <2>3, <2>8 DEF RequestInv, Counted
    <3> QED BY <3>1, <3>2
  <2> QED BY <2>2, <2>6, <2>7, <2>8 DEF RequestInv
<1>10. ASSUME NEW c \in Callers, Caller(c) PROVE RequestInv'
  BY <1>5, <1>6, <1>7, <1>8, <1>9, <1>10, CallerMoves
<1> QED BY <1>1, <1>2, <1>3, <1>4, <1>10 DEF RequestNext

(* LostToNavigation: whoever injects beside it and whatever is lost, a       *)
(* request reported as unheard has seen two more documents commit.           *)
THEOREM LostOnlyToNavigation == RequestSpec => []LostToNavigation
<1>1. RequestInv => LostToNavigation BY DEF RequestInv, Passed, LostToNavigation
<1>2. RequestTypeOK /\ RequestInv /\ [RequestNext]_requestVars => RequestInv' BY StepInv
<1> QED BY <1>1, <1>2, InitInv, InitType, StepType, PTL DEF RequestSpec

(* PerformedOnce: resending performs nothing twice, but for a reply that was *)
(* lost and for a document with two listeners.                               *)
THEOREM PerformedAtMostOnce == RequestSpec => []PerformedOnce
<1>1. RequestTypeOK /\ RequestInv => PerformedOnce
  <2> SUFFICES ASSUME RequestTypeOK, RequestInv, NEW r \in Requesters, performed[r] > 1
               PROVE  cutOff[r] \/ crowded
      BY DEF PerformedOnce
  <2>1. ~(performed[r] <= 1)
    BY DEF RequestTypeOK
  <2> QED BY <2>1 DEF RequestInv, Counted
<1>2. RequestTypeOK /\ RequestInv /\ [RequestNext]_requestVars => RequestInv' BY StepInv
<1> QED BY <1>1, <1>2, InitInv, InitType, StepType, PTL DEF RequestSpec
===============================================================================
