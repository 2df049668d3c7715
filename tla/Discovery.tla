------------------------------ MODULE Discovery ------------------------------
(***************************************************************************)
(* How the discovery agent keeps Central up to date with the APIs in Kong: *)
(* pkg/discovery/agent/agent.go and the loop of pkg/discovery/cmd/cmd.go.  *)
(*                                                                         *)
(* Round after round the agent lists the services of every workspace and   *)
(* starts a goroutine (a worker) for each; a worker reads the routes and   *)
(* the specification of its service and then, route by route, the plugins, *)
(* and publishes the API unless the checksum of what it read is in the     *)
(* agent's cache.  An operator changes specifications and plugins at any   *)
(* time, any call may fail, and the agent may crash and lose its cache.    *)
(***************************************************************************)
EXTENDS Naturals, Sequences, FiniteSets, SequencesExt

CONSTANTS
    None,
    Workspaces,   \* the workspaces in the order of the configuration
    ServicesOf,   \* the services of each workspace that pass the tag filter
    RoutesOf,     \* the routes of each service
    Unnamed,      \* the routes without a name
    Unreachable,  \* the routes without an enabled endpoint
    SpecLess,     \* the services without a specification
    AclDisable,   \* KONG_ACL_DISABLE: the agent does not insist on an ACL plugin
    Orders,       \* the orders in which Go may range over the plugins of a route
    Period,       \* a change number Period brings the first content back
    MaxChanges,   \* bound on the changes of an operator
    FaultKinds,   \* what may fail: "list", "read", "publish", "crash"
    MaxFaults     \* bound on failures

Services == UNION {ServicesOf[w] : w \in DOMAIN ServicesOf}
Routes   == UNION {RoutesOf[s] : s \in Services}

(* A configuration that names a workspace twice would start two workers for  *)
(* each of its services.                                                     *)
ASSUME WorkspacesAssumption ==
    /\ Workspaces \in Seq(DOMAIN ServicesOf)
    /\ \A k, l \in DOMAIN Workspaces : Workspaces[k] = Workspaces[l] => k = l
ASSUME ServicesAssumption ==
    /\ \A w, x \in DOMAIN ServicesOf : w # x => ServicesOf[w] \cap ServicesOf[x] = {}
    /\ \A s, t \in Services : s # t => RoutesOf[s] \cap RoutesOf[t] = {}
ASSUME OrdersAssumption == Orders # {}
ASSUME AclDisableAssumption == AclDisable \in BOOLEAN
ASSUME BoundsAssumption ==
    Period \in Nat \ {0} /\ MaxChanges \in Nat /\ MaxFaults \in Nat
ASSUME FaultKindsAssumption == FaultKinds \subseteq {"list", "read", "publish", "crash"}

VARIABLES
    (* Kong: how often each specification and each route's plugins changed *)
    specVersion, pluginVersion,
    acl,        \* the workspaces with an enabled global ACL plugin
    (* Central *)
    published,  \* published[r]: the API last published for route r, or None
    (* the agent *)
    loop,       \* where its loop is
    next,       \* the workspace it lists next
    workers,    \* the goroutines of the services in hand
    cache,      \* the checksums of what it has published or tried to
    (* what happened, for the properties *)
    sent,       \* the APIs published in this life of the agent, and in which order
    lost,       \* the APIs whose publication failed in this life
    judged,     \* the last API taken for already published
    changes,    \* changes so far
    faults      \* failures so far

kong  == <<specVersion, pluginVersion, acl, changes>>
agent == <<loop, next, workers, cache, sent, lost, judged>>
vars  == <<kong, published, agent, faults>>

(* A version stands for a content; a later version may bring it back.        *)
Content(version) == version % Period

Api == [route : Routes, spec : Nat, plugins : Nat, order : Orders]

ASSUME NoneAssumption == None \notin Nat \cup Api

(* Mutant: the checksum covers when the API was changed. *)
M_makeChecksum(api) == <<api.route, api.spec, api.plugins, api.order>>

(* What makeChecksum tells apart, and what a reader of the API does. *)
makeChecksum(api) == <<api.route, Content(api.spec), Content(api.plugins), api.order>>
Meaning(api)      == <<api.route, Content(api.spec), Content(api.plugins)>>

Worker ==
    [service : Services, step : {"routes", "spec", "next", "publish"},
     todo : SUBSET Routes, spec : Nat \cup {None}, api : Api \cup {None}]

TypeOK ==
    /\ specVersion \in [Services -> 0..MaxChanges]
    /\ pluginVersion \in [Routes -> 0..MaxChanges]
    /\ acl \subseteq DOMAIN ServicesOf
    /\ published \in [Routes -> Api \cup {None}]
    /\ loop \in {"starting", "listing", "sleeping", "stopping", "down"}
    /\ next \in 1..(Len(Workspaces) + 1)
    /\ workers \subseteq Worker
    /\ \A x, y \in workers : x.service = y.service => x = y
    /\ judged \in Api \cup {None}
    /\ changes \in 0..MaxChanges
    /\ faults \in 0..MaxFaults

Init ==
    /\ specVersion = [s \in Services |-> 0]
    /\ pluginVersion = [r \in Routes |-> 0]
    /\ acl = DOMAIN ServicesOf
    /\ published = [r \in Routes |-> None]
    /\ loop = "starting"
    /\ next = 1
    /\ workers = {}
    /\ cache = {}
    /\ sent = {}
    /\ lost = {}
    /\ judged = None
    /\ changes = 0
    /\ faults = 0

Fault(kind) == kind \in FaultKinds /\ faults < MaxFaults /\ faults' = faults + 1

-----------------------------------------------------------------------------
(* The operator. *)

Change ==
    /\ changes < MaxChanges
    /\ changes' = changes + 1
    /\ \/ /\ \E s \in Services : specVersion' = [specVersion EXCEPT ![s] = @ + 1]
          /\ UNCHANGED <<pluginVersion, acl>>
       \/ /\ \E r \in Routes : pluginVersion' = [pluginVersion EXCEPT ![r] = @ + 1]
          /\ UNCHANGED <<specVersion, acl>>
       \/ /\ \E w \in DOMAIN ServicesOf :
                acl' = IF w \in acl THEN acl \ {w} ELSE acl \cup {w}
          /\ UNCHANGED <<specVersion, pluginVersion>>
    /\ UNCHANGED <<published, agent, faults>>

-----------------------------------------------------------------------------
(* The loop. *)

(* NewAgent gives up if it cannot list the plugins of a workspace, or finds  *)
(* no enabled global ACL plugin there although it is to insist on one.       *)
NewAgent ==
    LET verified(w) == AclDisable \/ w \in acl
    IN  /\ loop = "starting"
        /\ \/ /\ \A k \in DOMAIN Workspaces : verified(Workspaces[k])
              /\ loop' = "listing"
              /\ UNCHANGED faults
           \/ /\ \E k \in DOMAIN Workspaces : ~verified(Workspaces[k])
              /\ loop' = "down"
              /\ UNCHANGED faults
           \/ loop' = "down" /\ Fault("list")
        /\ UNCHANGED <<kong, published, next, workers, cache, sent, lost, judged>>

(* The worker of a service, about to list its routes. *)
NewWorker(s) == [service |-> s, step |-> "routes", todo |-> {}, spec |-> None, api |-> None]

(* DiscoverAPIs lists the services of the next workspace and starts their    *)
(* workers; an error ends the loop at once.                                  *)
ListServices ==
    /\ loop = "listing"
    /\ next <= Len(Workspaces)
    /\ \/ /\ workers' = workers \cup {NewWorker(s) : s \in ServicesOf[Workspaces[next]]}
          /\ next' = next + 1
          /\ UNCHANGED <<loop, faults>>
       \/ /\ loop' = "stopping"
          /\ Fault("list")
          /\ UNCHANGED <<next, workers>>
    /\ UNCHANGED <<kong, published, cache, sent, lost, judged>>

(* Mutant: the round does not wait for its workers. *)
M_Wait ==
    /\ loop = "listing"
    /\ next > Len(Workspaces)
    /\ loop' = "sleeping"
    /\ UNCHANGED <<kong, published, next, workers, cache, sent, lost, judged, faults>>

Wait ==
    /\ loop = "listing"
    /\ next > Len(Workspaces)
    /\ workers = {}
    /\ loop' = "sleeping"
    /\ UNCHANGED <<kong, published, next, workers, cache, sent, lost, judged, faults>>

(* Mutant: the next round starts after the last workspace. *)
M_NextRound ==
    /\ loop = "sleeping"
    /\ loop' = "listing"
    /\ UNCHANGED <<kong, published, next, workers, cache, sent, lost, judged, faults>>

NextRound ==
    /\ loop = "sleeping"
    /\ loop' = "listing"
    /\ next' = 1
    /\ UNCHANGED <<kong, published, workers, cache, sent, lost, judged, faults>>

(* run returns and the process ends, its workers with it. *)
Exit ==
    /\ loop = "stopping"
    /\ loop' = "down"
    /\ workers' = {}
    /\ UNCHANGED <<kong, published, next, cache, sent, lost, judged, faults>>

Crash ==
    /\ loop # "down"
    /\ loop' = "down"
    /\ workers' = {}
    /\ Fault("crash")
    /\ UNCHANGED <<kong, published, next, cache, sent, lost, judged>>

(* The container is started again, with an empty cache. *)
Restart ==
    /\ loop = "down"
    /\ loop' = "starting"
    /\ next' = 1
    /\ cache' = {}
    /\ sent' = {}
    /\ lost' = {}
    /\ judged' = None
    /\ UNCHANGED <<kong, published, workers, faults>>

-----------------------------------------------------------------------------
(* A worker: processSingleKongService, and specPreparation per route.        *)

Becomes(x, y) == workers' = (workers \ {x}) \cup {y}
Ends(x)       == workers' = workers \ {x}

ListRoutesForService(x) ==
    /\ x.step = "routes"
    /\ \/ Becomes(x, [x EXCEPT !.step = "spec", !.todo = RoutesOf[x.service]])
          /\ UNCHANGED faults
       \/ Ends(x) /\ Fault("read")
    /\ UNCHANGED <<kong, published, loop, next, cache, sent, lost, judged>>

(* Nothing is published without a specification. *)
GetSpecForService(x) ==
    /\ x.step = "spec"
    /\ \/ /\ x.service \notin SpecLess
          /\ Becomes(x, [x EXCEPT !.step = "next", !.spec = specVersion[x.service]])
          /\ UNCHANGED faults
       \/ x.service \in SpecLess /\ Ends(x) /\ UNCHANGED faults
       \/ Ends(x) /\ Fault("read")
    /\ UNCHANGED <<kong, published, loop, next, cache, sent, lost, judged>>

(* The API as newKongAPI puts it together: the specification as it was read, *)
(* the plugins as they are now, in whatever order the map yields them.       *)
NewKongAPI(x, r, order) ==
    [route |-> r, spec |-> x.spec, plugins |-> pluginVersion[r], order |-> order]

isPublished(api) == makeChecksum(api) \in cache

(* A route that is unnamed, has unreadable plugins or no endpoint is passed  *)
(* over; of the others processKongAPI caches the checksum before anything is *)
(* published.                                                                *)
PrepareRoute(x) ==
    /\ x.step = "next"
    /\ \E r \in x.todo :
        LET rest == [x EXCEPT !.todo = @ \ {r}]
        IN  \/ /\ r \in Unnamed \cup Unreachable
               /\ Becomes(x, rest)
               /\ UNCHANGED <<cache, judged, faults>>
            \/ /\ r \notin Unnamed
               /\ Becomes(x, rest)
               /\ Fault("read")
               /\ UNCHANGED <<cache, judged>>
            \/ /\ r \notin Unnamed \cup Unreachable
               /\ \E order \in Orders :
                    LET api == NewKongAPI(x, r, order)
                    IN  IF isPublished(api)
                           THEN /\ Becomes(x, rest)
                                /\ judged' = api
                                /\ UNCHANGED cache
                           ELSE /\ Becomes(x, [rest EXCEPT !.step = "publish", !.api = api])
                                /\ cache' = cache \cup {makeChecksum(api)}
                                /\ UNCHANGED judged
               /\ UNCHANGED faults
    /\ UNCHANGED <<kong, published, loop, next, sent, lost>>

(* The API is built and published; whether that worked is only logged.       *)
PublishAPI(x) ==
    /\ x.step = "publish"
    /\ Becomes(x, [x EXCEPT !.step = "next", !.api = None])
    /\ \/ /\ published' = [published EXCEPT ![x.api.route] = x.api]
          /\ sent' = sent \cup {<<Meaning(x.api), x.api.order>>}
          /\ UNCHANGED <<lost, faults>>
       \/ /\ lost' = lost \cup {Meaning(x.api)}
          /\ UNCHANGED <<published, sent>>
          /\ Fault("publish")
    /\ UNCHANGED <<kong, loop, next, cache, judged>>

EndService(x) ==
    /\ x.step = "next"
    /\ x.todo = {}
    /\ Ends(x)
    /\ UNCHANGED <<kong, published, loop, next, cache, sent, lost, judged, faults>>

WorkerStep(x) ==
    \/ ListRoutesForService(x) \/ GetSpecForService(x) \/ PrepareRoute(x)
    \/ PublishAPI(x) \/ EndService(x)

-----------------------------------------------------------------------------
LoopStep == NewAgent \/ ListServices \/ Wait \/ NextRound \/ Exit \/ Restart

Next ==
    \/ Change \/ LoopStep \/ Crash
    \/ \E x \in workers : WorkerStep(x)

Spec == Init /\ [][Next]_vars

(* The loop and every worker go on, and the container is restarted.          *)
FairSpec ==
    /\ Spec
    /\ WF_vars(LoopStep)
    /\ \A s \in Services : WF_vars(\E x \in workers : x.service = s /\ WorkerStep(x))

-----------------------------------------------------------------------------
(* Properties. *)

(* An API is never replaced in Central by an older state of it: rounds do    *)
(* not overlap, and a service is in the hands of one worker (agent.go:172).  *)
NeverOlder ==
    [][\A r \in Routes : published[r] # None /\ published'[r] # None =>
          /\ published'[r].spec >= published[r].spec
          /\ published'[r].plugins >= published[r].plugins]_vars

(* Within one life of the agent the same state of an API is published once,  *)
(* also when several workers use the cache, unless the map yields its        *)
(* plugins in another order (agent.go:318-327, 388).                         *)
PublishesNews ==
    \A x \in workers : x.step = "publish" => <<Meaning(x.api), x.api.order>> \notin sent

Publishable ==
    {r \in Routes \ (Unnamed \cup Unreachable) :
        \E w \in DOMAIN Workspaces, s \in Services \ SpecLess :
            s \in ServicesOf[Workspaces[w]] /\ r \in RoutesOf[s]}

(* What the agent has to publish for a route of service s by now.            *)
Current(s, r) == <<r, Content(specVersion[s]), Content(pluginVersion[r])>>

(* A content can only come back after Period changes.                        *)
ChangedBack(s, r) == specVersion[s] >= Period \/ pluginVersion[r] >= Period

UpToDate(r) ==
    \A s \in Services : r \in RoutesOf[s] =>
        \/ published[r] # None /\ Meaning(published[r]) = Current(s, r)
        \/ Current(s, r) \in lost
        \/ ChangedBack(s, r)

(* When Kong no longer changes, every API that can be published is in        *)
(* Central in its last state, whatever services have no specification,       *)
(* reads failed, or crashes happened on the way.  The exceptions are an      *)
(* agent that finds no ACL plugin when it starts, a state whose publication  *)
(* failed, and one that the agent has cached earlier in its life             *)
(* (cmd.go:47-57, agent.go:318-327).                                         *)
CatchesUp == <>[](ToSet(Workspaces) \subseteq acl) => <>[](\A r \in Publishable : UpToDate(r))

(* The comment at agent.go:517: isPublished returns true if the API is       *)
(* published with the latest changes.                                        *)
TrueMeansPublished ==
    [][judged' # judged /\ judged' # None =>
          /\ published[judged'.route] # None
          /\ Meaning(published[judged'.route]) = Meaning(judged')]_vars
=============================================================================
