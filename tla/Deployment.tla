------------------------------ MODULE Deployment ------------------------------
(***************************************************************************)
(* Where planning goes: the backend the user selected, the endpoint and    *)
(* the token of each, what is known of its health, and the task or single  *)
(* step that plans on it. src/src/entrypoints/background.ts (deployment/*, *)
(* server/origin, runTask, runOneStep, attachedReady), src/src/contracts/  *)
(* deployment.ts, src/src/agent-server/backend.ts and client.ts.           *)
(*                                                                         *)
(* The handlers of deployment/configure, deployment/token and              *)
(* server/origin run to their end in one go, and do not wait for the       *)
(* restore after an eviction; deployment/select, deployment/health and     *)
(* the runs await it and the network. A token is the host it was set for.  *)
(***************************************************************************)
EXTENDS Naturals

CONSTANTS
    OffDevice,     \* OFF_DEVICE_KINDS
    Hosts, NoHost, \* origins of servers; '' or null
    Loopback,      \* hosts a plain-http or "local" endpoint may name
    BakedOrigin,   \* __AGENT_ORIGIN__ of the build
    LegacyOrigin,  \* what an older version left under ORIGIN_KEY
    MaxCommands,   \* bound: commands of the panel, changes of permissions
    MaxRestarts,   \* bound: evictions of the worker
    MaxPlans       \* bound: plan requests

Device == "on-device"
Kinds  == OffDevice \cup {Device}

ASSUME DeploymentAssumption ==
    /\ {"local", "cloud"} \subseteq OffDevice /\ Device \notin OffDevice
    /\ "none" \notin Kinds
    /\ NoHost \notin Hosts /\ Loopback \subseteq Hosts
    /\ BakedOrigin \in (Hosts \ Loopback) \cup {NoHost}
    /\ LegacyOrigin \in Loopback \cup {NoHost}
    /\ MaxCommands \in Nat /\ MaxRestarts \in Nat /\ MaxPlans \in Nat

HostOrNone == Hosts \cup {NoHost}
Configs    == [backend : Kinds, endpoint : [OffDevice -> HostOrNone]]
NoConfig   == [backend |-> "none", endpoint |-> [k \in OffDevice |-> NoHost]]
(* BackendHealth: unknown, or of the host that answered, whether it is       *)
(* reachable and whether it asks for a token.                                *)
Healths  == [of : HostOrNone, reachable : BOOLEAN, auth : BOOLEAN]
NoHealth == [of |-> NoHost, reachable |-> FALSE, auth |-> FALSE]

VARIABLES
    \* the background's memory
    deployment, intendedBackend, backendTokens, lastHealth,
    ready,        \* attachedReady: "config", "access", "tokens", "done"
    loopRunning,
    select,       \* a deployment/select under way: its await and its locals
    probe,        \* a health request under way
    run,          \* runTask or runOneStep: its await and its locals
    \* storage and the browser
    savedConfig, savedIntent, savedTokens, permitted,
    \* the panel
    alternatives, \* the backends the last backend/unavailable offered
    \* observations
    commands, restarts, plans,
    sent,         \* the last plan request: to, with which token
    wanted,       \* what the user last entered as the endpoint of each kind
    early,        \* a configuration was written before it was restored
    crossed,      \* kinds re-pointed while a probe of theirs was out
    switched      \* the deployment changed under a run

config  == <<deployment, intendedBackend, backendTokens, lastHealth>>
storage == <<savedConfig, savedIntent, savedTokens>>
notes   == <<alternatives, sent, wanted, early, crossed, switched>>
vars    == <<config, ready, loopRunning, select, probe, run, storage, permitted,
             commands, restarts, plans, notes>>

NoSelect == [at |-> "idle", kind |-> Device, host |-> NoHost]
NoProbe  == [at |-> "idle", kind |-> Device, host |-> NoHost]
NoRun    == [at |-> "off", task |-> FALSE, told |-> NoHost, kind |-> Device,
             host |-> NoHost, used |-> {}]
NoSent   == [to |-> NoHost, token |-> NoHost]

(* What is in memory, under way, stored, and observed.                       *)
MemoryOK ==
    /\ deployment \in Configs
    /\ intendedBackend \in Kinds \cup {"none"}
    /\ backendTokens \subseteq Hosts
    /\ lastHealth \in [OffDevice -> Healths]
    /\ ready \in {"config", "access", "tokens", "done"}

PendingOK ==
    /\ loopRunning = (run.at # "off" /\ run.task)
    /\ select \in [at : {"idle", "waiting", "access"}, kind : Kinds, host : HostOrNone]
    /\ probe \in [at : {"idle", "waiting", "asked"}, kind : Kinds, host : HostOrNone]
    /\ run \in [at : {"off", "starting", "started", "window", "preparing", "planning"},
                task : BOOLEAN, told : HostOrNone, kind : Kinds, host : HostOrNone,
                used : SUBSET Hosts]

StoredOK ==
    /\ savedConfig \in Configs \cup {NoConfig}
    /\ savedIntent \in Kinds \cup {"none"}
    /\ savedTokens \subseteq Hosts
    /\ permitted \subseteq Hosts

ObservedOK ==
    /\ alternatives \subseteq Kinds
    /\ commands \in 0..MaxCommands /\ restarts \in 0..MaxRestarts
    /\ plans \in 0..MaxPlans
    /\ sent \in [to : HostOrNone, token : HostOrNone]
    /\ wanted \in [OffDevice -> HostOrNone]
    /\ early \in BOOLEAN /\ crossed \subseteq OffDevice /\ switched \in BOOLEAN

TypeOK == MemoryOK /\ PendingOK /\ StoredOK /\ ObservedOK
-----------------------------------------------------------------------------
(* contracts/deployment.ts.                                                  *)

DefaultDeployment == [NoConfig EXCEPT !.backend = Device]

OnlyWith(kind, host) ==
    [backend |-> kind, endpoint |-> [k \in OffDevice |-> IF k = kind THEN host ELSE NoHost]]

SeededDeployment ==
    IF BakedOrigin = NoHost THEN DefaultDeployment ELSE OnlyWith("cloud", BakedOrigin)

EndpointOf(conf, kind) == IF kind = Device THEN NoHost ELSE conf.endpoint[kind]

(* Mutant: the build's and the older version's origins are asked first.      *)
RestoredOldFirst ==
    IF BakedOrigin # NoHost THEN OnlyWith("cloud", BakedOrigin)
    ELSE IF LegacyOrigin # NoHost THEN OnlyWith("local", LegacyOrigin)
    ELSE IF savedConfig # NoConfig THEN savedConfig ELSE DefaultDeployment

(* restoreDeployment: what was stored, else the build's origin, else what an *)
(* older version stored.                                                     *)
RestoredConfig ==
    IF savedConfig # NoConfig THEN savedConfig
    ELSE IF BakedOrigin # NoHost THEN OnlyWith("cloud", BakedOrigin)
    ELSE IF LegacyOrigin # NoHost THEN OnlyWith("local", LegacyOrigin)
    ELSE DefaultDeployment

RestoredIntent ==
    IF savedIntent = "none" /\ RestoredConfig.backend # Device
    THEN RestoredConfig.backend ELSE savedIntent

Alternatives(failed) ==
    {k \in Kinds \ {failed} : k = Device \/ deployment.endpoint[k] # NoHost}

(* deriveBackendOrigin: anything but the local backend needs https.          *)
Usable(kind, host) == host \in Hosts /\ (kind = "local" \/ host \notin Loopback)
-----------------------------------------------------------------------------
(* Pieces of background.ts.                                                  *)

ActiveOrigin   == EndpointOf(deployment, deployment.backend)
OriginOf(kind) == EndpointOf(deployment, kind)

(* Mutant: tokens are looked up by kind: whichever was set for one.          *)
TokenForKind(kind) ==
    IF kind # Device /\ backendTokens # {} THEN CHOOSE t \in backendTokens : TRUE ELSE NoHost

TokenFor(kind) == IF OriginOf(kind) \in backendTokens THEN OriginOf(kind) ELSE NoHost

HasSiteAccess(host) == host \in permitted

DeploymentLocked == loopRunning

Persist ==
    /\ savedConfig' = deployment'
    /\ savedIntent' = intendedBackend'

Commanded == commands < MaxCommands /\ commands' = commands + 1

(* What the changes of the deployment are watched for.                       *)
Noted(kind) ==
    /\ early' = (early \/ ready # "done")
    /\ crossed' = IF \/ probe.at = "asked" /\ probe.kind = kind
                     \/ run.at = "window" /\ run.kind = kind
                  THEN crossed \cup {kind} ELSE crossed \ {kind}
    /\ switched' = (switched \/ run.at # "off")

BackendMismatch == intendedBackend # "none" /\ deployment.backend # intendedBackend

MissingToken ==
    /\ deployment.backend # Device
    /\ lastHealth[deployment.backend].auth
    /\ ActiveOrigin # NoHost /\ ActiveOrigin \notin backendTokens
-----------------------------------------------------------------------------
Init ==
    /\ deployment = SeededDeployment
    /\ intendedBackend = "none"
    /\ backendTokens = {}
    /\ lastHealth = [k \in OffDevice |-> NoHealth]
    /\ ready = "config"
    /\ loopRunning = FALSE
    /\ select = NoSelect /\ probe = NoProbe /\ run = NoRun
    /\ savedConfig = NoConfig /\ savedIntent = "none" /\ savedTokens = {}
    /\ permitted \in SUBSET Hosts
    /\ alternatives = {}
    /\ commands = 0 /\ restarts = 0 /\ plans = 0
    /\ sent = NoSent
    /\ wanted = RestoredConfig.endpoint
    /\ early = FALSE /\ crossed = {} /\ switched = FALSE
-----------------------------------------------------------------------------
(* The restore: storage, then the permission of the selected endpoint, then  *)
(* the tokens.                                                               *)

RestoreConfig ==
    /\ ready = "config"
    /\ deployment' = RestoredConfig
    /\ intendedBackend' = RestoredIntent
    /\ ready' = IF RestoredConfig.backend = Device
                   \/ EndpointOf(RestoredConfig, RestoredConfig.backend)
                          \in {BakedOrigin} \ {NoHost}
                THEN "tokens" ELSE "access"
    /\ UNCHANGED <<backendTokens, lastHealth, loopRunning, select, probe, run, storage,
                   permitted, commands, restarts, plans, notes>>

(* A selection that may no longer be reached is given up, in memory only.    *)
RestoreAccess ==
    /\ ready = "access"
    /\ ready' = "tokens"
    /\ deployment' = IF HasSiteAccess(ActiveOrigin)
                     THEN deployment ELSE [deployment EXCEPT !.backend = Device]
    /\ UNCHANGED <<intendedBackend, backendTokens, lastHealth, loopRunning, select, probe,
                   run, storage, permitted, commands, restarts, plans, notes>>

RestoreTokens ==
    /\ ready = "tokens"
    /\ ready' = "done"
    /\ backendTokens' = savedTokens
    /\ UNCHANGED <<deployment, intendedBackend, lastHealth, loopRunning, select, probe,
                   run, storage, permitted, commands, restarts, plans, notes>>

Restart ==
    /\ restarts < MaxRestarts
    /\ restarts' = restarts + 1
    /\ deployment' = SeededDeployment
    /\ intendedBackend' = "none"
    /\ backendTokens' = {}
    /\ lastHealth' = [k \in OffDevice |-> NoHealth]
    /\ ready' = "config"
    /\ loopRunning' = FALSE
    /\ select' = NoSelect /\ probe' = NoProbe /\ run' = NoRun
    /\ sent' = NoSent /\ crossed' = {} /\ switched' = FALSE
    /\ UNCHANGED <<storage, permitted, commands, plans, alternatives, wanted, early>>
-----------------------------------------------------------------------------
(* The panel's commands.                                                     *)

SelectAsked(kind) ==
    /\ Commanded
    /\ ~DeploymentLocked
    /\ select.at = "idle"
    /\ kind = Device \/ OriginOf(kind) # NoHost
    /\ select' = [at |-> "waiting", kind |-> kind, host |-> OriginOf(kind)]
    /\ UNCHANGED <<config, ready, loopRunning, probe, run, storage, permitted, restarts,
                   plans, notes>>

Selects(kind) ==
    /\ deployment' = [deployment EXCEPT !.backend = kind]
    /\ intendedBackend' = kind
    /\ Persist
    /\ Noted("none")
    /\ select' = NoSelect

SelectResumes ==
    /\ select.at = "waiting" /\ ready = "done"
    /\ IF select.kind = Device
       THEN Selects(Device)
       ELSE /\ select' = [select EXCEPT !.at = "access"]
            /\ UNCHANGED <<deployment, intendedBackend, savedConfig, savedIntent, early,
                           crossed, switched>>
    /\ UNCHANGED <<backendTokens, lastHealth, ready, loopRunning, probe, run, savedTokens,
                   permitted, commands, restarts, plans, alternatives, sent, wanted>>

SelectAccess ==
    /\ select.at = "access"
    /\ IF HasSiteAccess(select.host)
       THEN Selects(select.kind)
       ELSE /\ select' = NoSelect
            /\ UNCHANGED <<deployment, intendedBackend, savedConfig, savedIntent, early,
                           crossed, switched>>
    /\ UNCHANGED <<backendTokens, lastHealth, ready, loopRunning, probe, run, savedTokens,
                   permitted, commands, restarts, plans, alternatives, sent, wanted>>

(* deployment/configure with an empty URL.                                   *)
ConfigureClears(kind) ==
    /\ Commanded
    /\ ~DeploymentLocked
    /\ deployment' = [backend  |-> IF deployment.backend = kind
                                   THEN Device ELSE deployment.backend,
                      endpoint |-> [deployment.endpoint EXCEPT ![kind] = NoHost]]
    /\ UNCHANGED intendedBackend
    /\ Persist
    /\ wanted' = [wanted EXCEPT ![kind] = NoHost]
    /\ Noted(kind)
    /\ UNCHANGED <<backendTokens, lastHealth, ready, loopRunning, select, probe, run,
                   savedTokens, permitted, restarts, plans, alternatives, sent>>

(* Mutant: what is known of the old endpoint is kept for the new one.        *)
KeepHealth(kind) == UNCHANGED lastHealth

DropHealth(kind) == lastHealth' = [lastHealth EXCEPT ![kind] = NoHealth]

ConfigureSets(kind, host) ==
    /\ Commanded
    /\ ~DeploymentLocked
    /\ Usable(kind, host)
    /\ deployment' = [deployment EXCEPT !.endpoint[kind] = host]
    /\ UNCHANGED intendedBackend
    /\ DropHealth(kind)
    /\ Persist
    /\ wanted' = [wanted EXCEPT ![kind] = host]
    /\ Noted(kind)
    /\ UNCHANGED <<backendTokens, ready, loopRunning, select, probe, run, savedTokens,
                   permitted, restarts, plans, alternatives, sent>>

(* deployment/token: set or cleared under the origin of the kind.            *)
SetToken(kind, on) ==
    /\ Commanded
    /\ ~DeploymentLocked
    /\ OriginOf(kind) # NoHost
    /\ backendTokens' = IF on THEN backendTokens \cup {OriginOf(kind)}
                        ELSE backendTokens \ {OriginOf(kind)}
    /\ savedTokens' = backendTokens'
    /\ UNCHANGED <<deployment, intendedBackend, lastHealth, ready, loopRunning, select,
                   probe, run, savedConfig, savedIntent, permitted, restarts, plans, notes>>

(* server/origin, of which no run keeps it out: '' deselects, a loopback URL *)
(* becomes the local backend and is selected.                                *)
ServerOriginEmpty ==
    /\ Commanded
    /\ deployment.backend # Device
    /\ deployment' = [deployment EXCEPT !.backend = Device]
    /\ UNCHANGED intendedBackend
    /\ Persist
    /\ Noted("none")
    /\ UNCHANGED <<backendTokens, lastHealth, ready, loopRunning, select, probe, run,
                   savedTokens, permitted, restarts, plans, alternatives, sent, wanted>>

ServerOrigin(host) ==
    /\ Commanded
    /\ host \in Loopback
    /\ deployment' = [backend |-> "local",
                      endpoint |-> [deployment.endpoint EXCEPT !["local"] = host]]
    /\ intendedBackend' = "local"
    /\ DropHealth("local")
    /\ Persist
    /\ wanted' = [wanted EXCEPT !["local"] = host]
    /\ Noted("local")
    /\ UNCHANGED <<backendTokens, ready, loopRunning, select, probe, run, savedTokens,
                   permitted, restarts, plans, alternatives, sent>>

ChangePermission(host) ==
    /\ Commanded
    /\ permitted' = IF host \in permitted THEN permitted \ {host} ELSE permitted \cup {host}
    /\ UNCHANGED <<config, ready, loopRunning, select, probe, run, storage, restarts, plans,
                   notes>>

HealthAsked(kind) ==
    /\ Commanded
    /\ probe.at = "idle"
    /\ probe' = [NoProbe EXCEPT !.at = "waiting", !.kind = kind]
    /\ UNCHANGED <<config, ready, loopRunning, select, run, storage, permitted, restarts,
                   plans, notes>>

(* A backend without a usable endpoint has an answer at once.                *)
HealthResumes ==
    /\ probe.at = "waiting" /\ ready = "done"
    /\ IF Usable(probe.kind, OriginOf(probe.kind))
       THEN /\ probe' = [probe EXCEPT !.at = "asked", !.host = OriginOf(probe.kind)]
            /\ UNCHANGED lastHealth
       ELSE probe' = NoProbe /\ DropHealth(probe.kind)
    /\ UNCHANGED <<deployment, intendedBackend, backendTokens, ready, loopRunning, select,
                   run, storage, permitted, commands, restarts, plans, notes>>

HealthAnswered(reachable, auth) ==
    /\ probe.at = "asked"
    /\ auth => reachable
    /\ lastHealth' = [lastHealth EXCEPT ![probe.kind] =
                         [of |-> probe.host, reachable |-> reachable, auth |-> auth]]
    /\ probe' = NoProbe
    /\ UNCHANGED <<deployment, intendedBackend, backendTokens, ready, loopRunning, select,
                   run, storage, permitted, commands, restarts, plans, notes>>
-----------------------------------------------------------------------------
(* A task (under the lock) or a single step (without).                       *)

RunAsked(task) ==
    /\ Commanded
    /\ run.at = "off"
    /\ run' = [NoRun EXCEPT !.at = "starting", !.task = task]
    /\ loopRunning' = task
    /\ switched' = FALSE
    /\ sent' = NoSent
    /\ UNCHANGED <<config, ready, select, probe, storage, permitted, restarts, plans,
                   alternatives, wanted, early, crossed>>

Ended == run' = NoRun /\ loopRunning' = FALSE

(* Mutant: nothing compares the selection with what the user chose.          *)
StartsAnyway ==
    /\ run.at = "starting" /\ ready = "done"
    /\ run' = [run EXCEPT !.at = "started", !.told = ActiveOrigin]
    /\ switched' = FALSE
    /\ UNCHANGED <<config, ready, loopRunning, select, probe, storage, permitted, commands,
                   restarts, plans, alternatives, sent, wanted, early, crossed>>

(* What is announced, and the two refusals.                                  *)
RunStarts ==
    /\ run.at = "starting" /\ ready = "done"
    /\ IF BackendMismatch \/ MissingToken
       THEN Ended
       ELSE run' = [run EXCEPT !.at = "started", !.told = ActiveOrigin]
            /\ UNCHANGED loopRunning
    /\ switched' = FALSE
    /\ UNCHANGED <<config, ready, select, probe, storage, permitted, commands, restarts,
                   plans, alternatives, sent, wanted, early, crossed>>

(* ensureBackendWindow: a backend not known to be reachable is probed, and   *)
(* the answer counts when there is one.                                      *)
EnsureWindow ==
    /\ run.at = "started"
    /\ LET kind == deployment.backend IN
       run' = IF /\ kind # Device /\ Usable(kind, ActiveOrigin)
                 /\ ~lastHealth[kind].reachable
              THEN [run EXCEPT !.at = "window", !.kind = kind, !.host = ActiveOrigin]
              ELSE [run EXCEPT !.at = "preparing"]
    /\ UNCHANGED <<config, ready, loopRunning, select, probe, storage, permitted, commands,
                   restarts, plans, notes>>

WindowAnswered(reachable, auth) ==
    /\ run.at = "window"
    /\ auth => reachable
    /\ run' = [run EXCEPT !.at = "preparing"]
    /\ lastHealth' = IF reachable
                     THEN [lastHealth EXCEPT ![run.kind] =
                              [of |-> run.host, reachable |-> TRUE, auth |-> auth]]
                     ELSE lastHealth
    /\ UNCHANGED <<deployment, intendedBackend, backendTokens, ready, loopRunning, select,
                   probe, storage, permitted, commands, restarts, plans, notes>>

(* createAgentBackend: one client for the whole run, bound to its endpoint.  *)
BuildBackend ==
    /\ run.at = "preparing"
    /\ IF deployment.backend # Device /\ ~Usable(deployment.backend, ActiveOrigin)
       THEN Ended
       ELSE /\ run' = [run EXCEPT !.at = "planning", !.kind = deployment.backend,
                                  !.host = ActiveOrigin]
            /\ UNCHANGED loopRunning
    /\ UNCHANGED <<config, ready, select, probe, storage, permitted, commands, restarts,
                   plans, notes>>

(* Mutant: a server that cannot be reached is replaced by another one.       *)
FallBack(host) == \E k \in OffDevice : deployment.endpoint[k] # NoHost
                    /\ run' = [run EXCEPT !.used = @ \cup {host, deployment.endpoint[k]}]

Used(host) == run' = [run EXCEPT !.used = @ \cup {host}]

(* HttpAgentClient.plan: the token is read now, the host was fixed when the  *)
(* client was built. Not reached, too late or 5xx is a transport failure,    *)
(* and offers the alternatives; everything else is an answer of the server.  *)
Plan(reached) ==
    /\ run.at = "planning" /\ run.kind # Device
    /\ plans < MaxPlans
    /\ plans' = plans + 1
    /\ sent' = [to |-> run.host, token |-> TokenFor(run.kind)]
    /\ Used(run.host)
    /\ alternatives' = IF reached THEN alternatives ELSE Alternatives(run.kind)
    /\ UNCHANGED <<config, ready, loopRunning, select, probe, storage, permitted, commands,
                   restarts, wanted, early, crossed, switched>>

RunEnds ==
    /\ run.at \in {"started", "window", "preparing", "planning"}
    /\ Ended
    /\ UNCHANGED <<config, ready, select, probe, storage, permitted, commands, restarts,
                   plans, notes>>
-----------------------------------------------------------------------------
Commands ==
    \/ \E k \in Kinds : SelectAsked(k)
    \/ \E k \in OffDevice : ConfigureClears(k) \/ HealthAsked(k)
    \/ \E k \in OffDevice, h \in Hosts : ConfigureSets(k, h)
    \/ \E k \in OffDevice, on \in BOOLEAN : SetToken(k, on)
    \/ ServerOriginEmpty
    \/ \E h \in Hosts : ServerOrigin(h) \/ ChangePermission(h)
    \/ \E task \in BOOLEAN : RunAsked(task)

Continuations ==
    \/ SelectResumes \/ SelectAccess
    \/ HealthResumes
    \/ \E reachable, auth \in BOOLEAN :
           HealthAnswered(reachable, auth) \/ WindowAnswered(reachable, auth)
    \/ RunStarts \/ EnsureWindow \/ BuildBackend
    \/ \E reached \in BOOLEAN : Plan(reached)
    \/ RunEnds

Next ==
    \/ Commands \/ Continuations
    \/ RestoreConfig \/ RestoreAccess \/ RestoreTokens \/ Restart

Spec == Init /\ [][Next]_vars
-----------------------------------------------------------------------------
(* Properties.                                                               *)

(* A token goes to the host it was set for and no other, unless the endpoint *)
(* of its kind was changed after the client was built (background.ts:1047,   *)
(* backend.ts:451).                                                          *)
TokenToItsHost ==
    sent.token \notin {sent.to, NoHost} => switched

(* A whole run plans on one server, the one announced when it started, of    *)
(* the kind the user chose whatever path deselected it; a failure to reach   *)
(* it leads nowhere else. Excused: the deployment was changed during the run.*)
RunOnOneHost ==
    /\ \A g, h \in run.used : g = h
    /\ run.at = "planning" /\ ~switched => run.host = run.told
    /\ run.at \in {"started", "window", "preparing", "planning"} /\ ~switched => ~BackendMismatch

(* What is remembered of servers is right: the endpoint the user entered     *)
(* stays until the user changes it, across evictions, unless a command was   *)
(* handled before the restore was over; and a health is of the server now    *)
(* configured, unless its kind was re-pointed while the probe was out.       *)
ServersRemembered ==
    /\ ready \in {"tokens", "done"} /\ ~early => deployment.endpoint = wanted
    /\ \A k \in OffDevice \ crossed :
           lastHealth[k].of \in {NoHost, OriginOf(k)} \/ OriginOf(k) = NoHost
=============================================================================
