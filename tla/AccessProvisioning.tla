------------------------- MODULE AccessProvisioning -------------------------
(***************************************************************************)
(* How the discovery agent provisions and deprovisions access requests:    *)
(* pkg/discovery/subscription/access/access.go and the part of             *)
(* pkg/discovery/kong/provisioning.go it calls.                            *)
(*                                                                         *)
(* The agent handles one request at a time, as a sequence of calls to the  *)
(* Kong admin API and to Central.  Every call is a step of its own: others *)
(* act between two calls, a call may fail or its answer be lost after it   *)
(* took effect, and the agent may crash, after which Central delivers the  *)
(* unanswered request again.                                               *)
(***************************************************************************)
EXTENDS KongPlugins

CONSTANTS
    Apps,             \* managed applications, by name
    MetadataId,       \* Metadata.ID of each managed application
    WorkspaceOf,      \* the workspace in the instance details of each route,
                      \* None if the details are incomplete
    InitialPlugins,   \* the plugin tables Kong may hold at first
    Weekly,           \* a quota with a weekly interval
    Quotas,           \* the quotas of the plans; None: the plan has no quota
    Deletable,        \* the states of a request whose deletion Central has
                      \* deprovisioned by the agent
    AclDisable,       \* KONG_ACL_DISABLE
    OperatorActions,  \* what an operator does in Kong: "allow", "protect", "disable",
                      \* "limit"
    MaxFaults         \* bound on failed calls and crashes together

ASSUME WorkspaceOfAssumption == WorkspaceOf \in [Routes -> Workspaces \cup {None}]
ASSUME MetadataIdAssumption ==
    /\ DOMAIN MetadataId = Apps
    /\ \A a \in Apps :
        /\ MetadataId[a] \notin Apps \cup ConsumerIds \cup {None}
        /\ \A b \in Apps : MetadataId[a] = MetadataId[b] => a = b
ASSUME AppsAssumption == Apps \cap (ConsumerIds \cup {None}) = {}
ASSUME GroupsAssumption == Groups \cap ConsumerIds = {}
ASSUME InitialPluginsAssumption ==
    \A table \in InitialPlugins :
        /\ table \in PluginTable
        /\ \A i \in Present(table) : /\ table[i].consumer = None
                                     /\ table[i].allow \subseteq Groups
        /\ \A i \in Named(table, ACL) : table[i].route = None
ASSUME WeeklyAssumption == Weekly \notin Limits \cup {None}
ASSUME QuotasAssumption == Quotas \subseteq Limits \cup {None, Weekly}
ASSUME DeletableAssumption == Deletable \subseteq {"granted", "failed"}
ASSUME OutcomeAssumption == None \notin {"success", "failed"}
ASSUME AclDisableAssumption == AclDisable \in BOOLEAN
ASSUME MaxFaultsAssumption == MaxFaults \in Nat

VARIABLES
    (* Kong *)
    consumers,   \* consumers[c]: the consumer with identifier c, or None
    plugins,     \* plugins[i]: the plugin with identifier i, or None
    (* Central *)
    status,      \* status[<<a, r>>]: state of the access request of a for r
    quota,       \* quota[<<a, r>>]: its quota, None if the plan has none
    details,     \* details[a][w]: consumer recorded in the agent details of a
    (* the agent *)
    pc,          \* the call it makes next
    cur,         \* the request it is working on
    appID,       \* AccessProvisioner.appID, the consumer of the application
    listed,      \* the plugins as ListAll last returned them
    outcome,     \* the request status it has decided on
    faults       \* failed calls and crashes so far

kong    == <<consumers, plugins>>
central == <<status, quota, details>>
agent   == <<pc, cur, appID, listed, outcome>>
vars    == <<kong, central, agent, faults>>

Requests == Apps \X Routes
Statuses == {"none", "pending", "granted", "failed", "deleting", "deleteFailed", "deleted"}
Steps    == {"idle", "getApp", "getConsumer", "createConsumer", "addGroup", "saveDetails",
             "listForGrant", "createACL", "updateACL", "listForQuota", "enableQuota",
             "createQuota", "listForRevoke", "revokeACL", "disableQuota", "report"}

Consumer ==
    [ws : Workspaces, username : Apps, customID : {MetadataId[a] : a \in Apps},
     groups : SUBSET ConsumerIds]

CurRequest == [op : {"provision", "deprovision"}, app : Apps, route : Routes]

ASSUME NoRecordAssumption == None \notin Consumer /\ None \notin CurRequest

TypeOK ==
    /\ consumers \in [ConsumerIds -> Consumer \cup {None}]
    /\ plugins \in PluginTable
    /\ status \in [Requests -> Statuses]
    /\ quota \in [Requests -> Quotas \cup {None}]
    /\ details \in [Apps -> [Workspaces -> ConsumerIds \cup {None}]]
    /\ pc \in Steps
    /\ cur \in CurRequest \cup {None}
    /\ appID \in ConsumerIds \cup {None}
    /\ listed \in PluginTable \cup {None}
    /\ outcome \in {"success", "failed", None}
    /\ faults \in 0..MaxFaults

Init ==
    /\ consumers = [c \in ConsumerIds |-> None]
    /\ plugins \in InitialPlugins
    /\ status = [p \in Requests |-> "none"]
    /\ quota = [p \in Requests |-> None]
    /\ details = [a \in Apps |-> [w \in Workspaces |-> None]]
    /\ pc = "idle"
    /\ cur = None
    /\ appID = None
    /\ listed = None
    /\ outcome = None
    /\ faults = 0

-----------------------------------------------------------------------------
(* Calls.  A read answers or fails.  A write takes effect and answers, takes *)
(* effect although its answer is lost, or fails without effect.  Kong may    *)
(* also refuse a write.  "done" and "failed" say where the handler goes.     *)

Goto(step) == [pc |-> step, outcome |-> None]
Finish(result) == [pc |-> "report", outcome |-> result]
Failure == Finish("failed")
Jump(target) == pc' = target.pc /\ outcome' = target.outcome

Fault == faults < MaxFaults /\ faults' = faults + 1

Write(Effect, done, failed) ==
    /\ \/ Effect /\ Jump(done) /\ UNCHANGED faults
       \/ Effect /\ Jump(failed) /\ Fault
       \/ UNCHANGED kong /\ Jump(failed) /\ Fault
    /\ UNCHANGED <<central, cur, appID, listed>>

Refused(failed) == Jump(failed) /\ UNCHANGED <<kong, central, cur, appID, listed, faults>>

CurPair == <<cur.app, cur.route>>

CurWs == WorkspaceOf[cur.route]

(* Kong accepts one plugin of a name for a workspace, service, route and     *)
(* consumer, and addresses a plugin of a route under that route only.        *)
NewPlugin(name, w, r, c, allow, limit) ==
    [name |-> name, ws |-> w, service |-> None, route |-> r, consumer |-> c,
     enabled |-> TRUE, allow |-> allow, limit |-> limit]

Occupied(p) ==
    \E i \in Present(plugins) :
        \A field \in {"name", "ws", "service", "route", "consumer"} :
            plugins[i][field] = p[field]

CreateForRoute(p, done, failed) ==
    \/ /\ ~Occupied(p)
       /\ \E i \in PluginIds \ Present(plugins) :
            Write(plugins' = [plugins EXCEPT ![i] = p] /\ UNCHANGED consumers, done, failed)
    \/ Occupied(p) /\ Refused(failed)

OfRoute(i, r) == plugins[i] # None /\ plugins[i].route = r

UpdateForRoute(r, i, p, done, failed) ==
    \/ /\ OfRoute(i, r)
       /\ Write(plugins' = [plugins EXCEPT ![i] = p] /\ UNCHANGED consumers, done, failed)
    \/ ~OfRoute(i, r) /\ Refused(failed)

DeleteForRoute(i, done, failed) ==
    Write(plugins' = [plugins EXCEPT ![i] = None] /\ UNCHANGED consumers, done, failed)

-----------------------------------------------------------------------------
(* Central and its users. *)

RequestAccess(a, r, q) ==
    /\ status[<<a, r>>] \in {"none", "deleted"}
    /\ status' = [status EXCEPT ![<<a, r>>] = "pending"]
    /\ quota' = [quota EXCEPT ![<<a, r>>] = q]
    /\ UNCHANGED <<kong, details, agent, faults>>

DeleteAccess(a, r) ==
    /\ status[<<a, r>>] \in Deletable
    /\ status' = [status EXCEPT ![<<a, r>>] = "deleting"]
    /\ UNCHANGED <<kong, quota, details, agent, faults>>

Retry(a, r) ==
    /\ \/ /\ status[<<a, r>>] = "failed"
          /\ status' = [status EXCEPT ![<<a, r>>] = "pending"]
       \/ /\ status[<<a, r>>] = "deleteFailed"
          /\ status' = [status EXCEPT ![<<a, r>>] = "deleting"]
    /\ UNCHANGED <<kong, quota, details, agent, faults>>

-----------------------------------------------------------------------------
(* An operator working on Kong, at any moment.  The operator does not touch  *)
(* what belongs to the agent's consumers.                                    *)

OnRoute(i, name) == plugins[i] # None /\ plugins[i].name = name /\ plugins[i].route # None

OperatorProtect(r, g) ==
    LET p == NewPlugin(ACL, WorkspaceOf[r], r, None, {g}, None)
    IN  /\ "protect" \in OperatorActions
        /\ WorkspaceOf[r] # None
        /\ ~Occupied(p)
        /\ \E i \in PluginIds \ Present(plugins) : plugins' = [plugins EXCEPT ![i] = p]
        /\ UNCHANGED <<consumers, central, agent, faults>>

(* A limit for everybody who uses the route. *)
OperatorLimit(r, limit) ==
    LET p == NewPlugin(RateLimiting, WorkspaceOf[r], r, None, {}, limit)
    IN  /\ "limit" \in OperatorActions
        /\ WorkspaceOf[r] # None
        /\ ~Occupied(p)
        /\ \E i \in PluginIds \ Present(plugins) : plugins' = [plugins EXCEPT ![i] = p]
        /\ UNCHANGED <<consumers, central, agent, faults>>

OperatorAllow(i, g) ==
    /\ "allow" \in OperatorActions
    /\ OnRoute(i, ACL)
    /\ plugins' = [plugins EXCEPT ![i].allow = @ \cup {g}]
    /\ UNCHANGED <<consumers, central, agent, faults>>

OperatorDisallow(i, g) ==
    /\ "allow" \in OperatorActions
    /\ OnRoute(i, ACL)
    /\ plugins[i].allow # {g}
    /\ plugins' = [plugins EXCEPT ![i].allow = @ \ {g}]
    /\ UNCHANGED <<consumers, central, agent, faults>>

OperatorDisable(i) ==
    /\ "disable" \in OperatorActions
    /\ OnRoute(i, ACL)
    /\ plugins' = [plugins EXCEPT ![i].enabled = FALSE]
    /\ UNCHANGED <<consumers, central, agent, faults>>
-----------------------------------------------------------------------------
(* Delivery of a request: NewAccessProvisioner reads the instance details of *)
(* the route and the agent details of the application, then Provision or     *)
(* Deprovision runs up to its first call.                                    *)

AppIDInDetails(a, r) ==
    IF WorkspaceOf[r] = None THEN None ELSE details[a][WorkspaceOf[r]]

(* Provision, once the consumer of the application is known. *)
AfterApp(a, r) ==
    IF AclDisable THEN Finish("success")
    ELSE IF quota[<<a, r>>] = Weekly THEN Failure
    ELSE Goto("listForGrant")

StartProvision(a, r) ==
    /\ pc = "idle"
    /\ status[<<a, r>>] = "pending"
    /\ cur' = [op |-> "provision", app |-> a, route |-> r]
    /\ appID' = AppIDInDetails(a, r)
    /\ Jump(IF WorkspaceOf[r] = None THEN Failure
            ELSE IF appID' = None THEN Goto("getApp")
            ELSE AfterApp(a, r))
    /\ UNCHANGED <<kong, central, listed, faults>>

StartDeprovision(a, r) ==
    /\ pc = "idle"
    /\ status[<<a, r>>] = "deleting"
    /\ cur' = [op |-> "deprovision", app |-> a, route |-> r]
    /\ appID' = AppIDInDetails(a, r)
    /\ Jump(IF appID' = None THEN Failure
            ELSE IF AclDisable THEN Finish("success")
            ELSE Goto("listForRevoke"))
    /\ UNCHANGED <<kong, central, listed, faults>>

-----------------------------------------------------------------------------
(* provisionApp: the consumer of the application in the workspace of the     *)
(* route.                                                                    *)

GetManagedApplication ==
    /\ pc = "getApp"
    /\ \/ Jump(Goto("getConsumer")) /\ UNCHANGED faults
       \/ Jump(Failure) /\ Fault
    /\ UNCHANGED <<kong, central, cur, appID, listed>>

(* GET /consumers/{key} finds a consumer by its identifier or its username. *)
ConsumersAt(w, key) ==
    {c \in ConsumerIds :
        /\ consumers[c] # None
        /\ consumers[c].ws = w
        /\ c = key \/ consumers[c].username = key}

(* CreateConsumer looks for the consumer under the Metadata.ID; an error of  *)
(* any kind counts as "does not exist".                                      *)
GetConsumer ==
    LET found == ConsumersAt(CurWs, MetadataId[cur.app])
    IN  /\ pc = "getConsumer"
        /\ \/ /\ UNCHANGED faults
              /\ IF found = {} THEN Jump(Goto("createConsumer")) /\ UNCHANGED appID
                 ELSE Jump(Goto("addGroup")) /\ appID' \in found
           \/ Jump(Goto("createConsumer")) /\ UNCHANGED appID /\ Fault
        /\ UNCHANGED <<kong, central, cur, listed>>

(* Usernames and custom identifiers are unique in a workspace. *)
ConsumerConflict(w, name, id) ==
    \E c \in ConsumerIds :
        /\ consumers[c] # None
        /\ consumers[c].ws = w
        /\ consumers[c].username = name \/ consumers[c].customID = id

NewConsumer(w, name, id) == [ws |-> w, username |-> name, customID |-> id, groups |-> {}]

CreateConsumer ==
    LET id == MetadataId[cur.app]
        conflict == ConsumerConflict(CurWs, cur.app, id)
        Created(c) == consumers' = [consumers EXCEPT ![c] = NewConsumer(CurWs, cur.app, id)]
    IN  /\ pc = "createConsumer"
        /\ \/ /\ conflict
              /\ Jump(Failure)
              /\ UNCHANGED <<consumers, appID, faults>>
           \/ /\ ~conflict
              /\ \E c \in {c \in ConsumerIds : consumers[c] = None} :
                    /\ Created(c)
                    /\ \/ appID' = c /\ Jump(Goto("addGroup")) /\ UNCHANGED faults
                       \/ UNCHANGED appID /\ Jump(Failure) /\ Fault
           \/ Jump(Failure) /\ UNCHANGED <<consumers, appID>> /\ Fault
        /\ UNCHANGED <<plugins, central, cur, listed>>

(* AddConsumerACL names the group after the consumer; its error is logged *)
(* and otherwise ignored.                                                 *)
AddConsumerACL ==
    /\ pc = "addGroup"
    /\ \/ /\ consumers' = [consumers EXCEPT ![appID].groups = @ \cup {appID}]
          /\ UNCHANGED faults
       \/ UNCHANGED consumers /\ Fault
    /\ Jump(Goto("saveDetails"))
    /\ UNCHANGED <<plugins, central, cur, appID, listed>>

(* Mutant: the key has no workspace prefix. *)
M_UpdateManagedAppDetails_noPrefix ==
    /\ pc = "saveDetails"
    /\ details' = [details EXCEPT ![cur.app] = [w \in Workspaces |-> appID]]
    /\ Jump(AfterApp(cur.app, cur.route))
    /\ UNCHANGED <<kong, status, quota, cur, appID, listed, faults>>

(* The error of CreateSubResource is ignored. *)
UpdateManagedAppDetails ==
    /\ pc = "saveDetails"
    /\ \/ details' = [details EXCEPT ![cur.app][CurWs] = appID] /\ UNCHANGED faults
       \/ UNCHANGED details /\ Fault
    /\ Jump(AfterApp(cur.app, cur.route))
    /\ UNCHANGED <<kong, status, quota, cur, appID, listed>>

-----------------------------------------------------------------------------
(* AddRouteACL: list the plugins, then create or update the ACL plugin of    *)
(* the route from what the listing showed.                                   *)

ListPlugins(target) ==
    /\ \/ /\ listed' = ListAll(plugins, CurWs)
          /\ Jump(target)
          /\ UNCHANGED faults
       \/ Jump(Failure) /\ UNCHANGED listed /\ Fault
    /\ UNCHANGED <<kong, central, cur, appID>>

AclOf(list) == getSpecificPlugin(list, None, cur.route, None, ACL)

RateOf(list) == getSpecificPlugin(list, None, cur.route, appID, RateLimiting)

AfterGrant == IF quota[CurPair] = None THEN Finish("success") ELSE Goto("listForQuota")

GrantFrom(list) ==
    LET acl == AclOf(list)
    IN  IF acl = None THEN Goto("createACL")
        ELSE IF checkAccess(list[acl], appID) THEN AfterGrant
        ELSE Goto("updateACL")

ListForGrant == pc = "listForGrant" /\ ListPlugins(GrantFrom(listed'))

(* Mutant: the error of the creation is dropped. *)
M_CreateACL_errorDropped ==
    /\ pc = "createACL"
    /\ CreateForRoute(NewPlugin(ACL, CurWs, cur.route, None, {appID}, None),
                      AfterGrant, AfterGrant)

CreateACL ==
    /\ pc = "createACL"
    /\ CreateForRoute(NewPlugin(ACL, CurWs, cur.route, None, {appID}, None),
                      AfterGrant, Failure)

(* updateOrDeleteACL with a group more: what the listing showed of the plugin *)
(* is written back, enabled.                                                  *)
UpdateACL ==
    LET acl == AclOf(listed)
    IN  /\ pc = "updateACL"
        /\ UpdateForRoute(cur.route, acl,
                          [listed[acl] EXCEPT !.allow = @ \cup {appID}, !.enabled = TRUE],
                          AfterGrant, Failure)

-----------------------------------------------------------------------------
(* AddQuota: list again, then enable the rate limiting plugin that is there  *)
(* or create one.                                                            *)

(* Mutant: a plugin that is there counts as enabled. *)
M_LimitFrom_neverEnables(list) ==
    IF RateOf(list) = None THEN Goto("createQuota") ELSE Finish("success")

LimitFrom(list) ==
    LET rate == RateOf(list)
    IN  IF rate = None THEN Goto("createQuota")
        ELSE IF list[rate].enabled THEN Finish("success")
        ELSE Goto("enableQuota")

ListForQuota == pc = "listForQuota" /\ ListPlugins(LimitFrom(listed'))

EnableQuota ==
    LET rate == RateOf(listed)
    IN  /\ pc = "enableQuota"
        /\ UpdateForRoute(cur.route, rate, [listed[rate] EXCEPT !.enabled = TRUE],
                          Finish("success"), Failure)

CreateQuota ==
    /\ pc = "createQuota"
    /\ CreateForRoute(NewPlugin(RateLimiting, CurWs, cur.route, appID, {}, quota[CurPair]),
                      Finish("success"), Failure)

-----------------------------------------------------------------------------
(* RemoveRouteACL: list, take the group out of the ACL plugin (deleting the  *)
(* plugin with its last group), then disable the rate limiting plugin of the *)
(* same listing.                                                             *)

RevokeFrom(list) ==
    LET acl == AclOf(list)
    IN  IF acl = None THEN Failure
        ELSE IF checkAccess(list[acl], appID) THEN Goto("revokeACL")
        ELSE Finish("success")

ListForRevoke == pc = "listForRevoke" /\ ListPlugins(RevokeFrom(listed'))

AfterRevoke == IF RateOf(listed) = None THEN Finish("success") ELSE Goto("disableQuota")

(* Mutants: the error of the write is dropped; the plugin is deleted with *)
(* whatever groups are left.                                              *)
M_RevokeACL_errorDropped ==
    LET acl  == AclOf(listed)
        left == listed[acl].allow \ {appID}
    IN  /\ pc = "revokeACL"
        /\ \/ left = {} /\ DeleteForRoute(acl, AfterRevoke, AfterRevoke)
           \/ /\ left # {}
              /\ UpdateForRoute(cur.route, acl,
                                [listed[acl] EXCEPT !.allow = left, !.enabled = TRUE],
                                AfterRevoke, AfterRevoke)

M_RevokeACL_deletes ==
    pc = "revokeACL" /\ DeleteForRoute(AclOf(listed), AfterRevoke, Failure)

RevokeACL ==
    LET acl  == AclOf(listed)
        left == listed[acl].allow \ {appID}
    IN  /\ pc = "revokeACL"
        /\ \/ left = {} /\ DeleteForRoute(acl, AfterRevoke, Failure)
           \/ /\ left # {}
              /\ UpdateForRoute(cur.route, acl,
                                [listed[acl] EXCEPT !.allow = left, !.enabled = TRUE],
                                AfterRevoke, Failure)

DisableQuota ==
    LET rate == RateOf(listed)
    IN  /\ pc = "disableQuota"
        /\ UpdateForRoute(cur.route, rate, [listed[rate] EXCEPT !.enabled = FALSE],
                          Finish("success"), Failure)

-----------------------------------------------------------------------------
(* The handler returns and Central shows the result; or the agent crashes,   *)
(* and the request stays as it is, to be delivered again.                    *)

Rest ==
    /\ pc' = "idle"
    /\ cur' = None
    /\ appID' = None
    /\ listed' = None
    /\ outcome' = None

(* Mutant: a failed provisioning leaves the request as it was. *)
M_Answer_failureKept ==
    CASE cur.op = "provision" /\ outcome = "success"   -> "granted"
      [] cur.op = "provision" /\ outcome = "failed"    -> "pending"
      [] cur.op = "deprovision" /\ outcome = "success" -> "deleted"
      [] cur.op = "deprovision" /\ outcome = "failed"  -> "deleteFailed"

Answer ==
    CASE cur.op = "provision" /\ outcome = "success"   -> "granted"
      [] cur.op = "provision" /\ outcome = "failed"    -> "failed"
      [] cur.op = "deprovision" /\ outcome = "success" -> "deleted"
      [] cur.op = "deprovision" /\ outcome = "failed"  -> "deleteFailed"

Report ==
    /\ pc = "report"
    /\ status' = [status EXCEPT ![CurPair] = Answer]
    /\ Rest
    /\ UNCHANGED <<kong, quota, details, faults>>

Crash ==
    /\ pc # "idle"
    /\ Rest
    /\ Fault
    /\ UNCHANGED <<kong, central>>

-----------------------------------------------------------------------------
ProvisionApp ==
    \/ GetManagedApplication
    \/ GetConsumer
    \/ CreateConsumer
    \/ AddConsumerACL
    \/ UpdateManagedAppDetails

AddRouteACL == ListForGrant \/ CreateACL \/ UpdateACL

AddQuota == ListForQuota \/ EnableQuota \/ CreateQuota

RemoveRouteACL == ListForRevoke \/ RevokeACL \/ DisableQuota

Handler == ProvisionApp \/ AddRouteACL \/ AddQuota \/ RemoveRouteACL \/ Report

Start == \E a \in Apps, r \in Routes : StartProvision(a, r) \/ StartDeprovision(a, r)

Users ==
    \E a \in Apps, r \in Routes :
        \/ \E q \in Quotas : RequestAccess(a, r, q)
        \/ DeleteAccess(a, r)
        \/ Retry(a, r)

Operator ==
    \/ \E r \in Routes, g \in Groups : OperatorProtect(r, g)
    \/ \E r \in Routes, limit \in Limits : OperatorLimit(r, limit)
    \/ \E i \in PluginIds, g \in Groups : OperatorAllow(i, g) \/ OperatorDisallow(i, g)
    \/ \E i \in PluginIds : OperatorDisable(i)

Next == Start \/ Handler \/ Crash \/ Users \/ Operator

Spec == Init /\ [][Next]_vars

(* The handler runs on, and the event queue of the SDK delivers every request *)
(* that waits: not always at once, as other requests are delivered between.   *)
Fairness ==
    /\ WF_vars(Handler)
    /\ \A a \in Apps, r \in Routes :
        SF_vars(StartProvision(a, r) \/ StartDeprovision(a, r))

FairSpec == Spec /\ Fairness
-----------------------------------------------------------------------------
(* What Kong enforces, read off its state. *)

HasGroup(r, c) ==
    \E i \in Named(plugins, ACL) : plugins[i].route = r /\ c \in plugins[i].allow

LetIn(a, r) ==
    \E c \in ConsumerIds :
        /\ consumers[c] # None
        /\ consumers[c].ws = WorkspaceOf[r]
        /\ consumers[c].username = a
        /\ HasGroup(r, c)

Limited(a, r, enabled) ==
    {i \in Named(plugins, RateLimiting) :
        /\ plugins[i].route = r
        /\ plugins[i].consumer # None
        /\ consumers[plugins[i].consumer].username = a
        /\ plugins[i].enabled = enabled}

(* The parts of the inductive invariant behind the properties below.         *)

(* Every ACL plugin is scoped to nothing but its route, in the workspace of  *)
(* that route, and a route has one at most.                                  *)
AclShape ==
    \A i \in Named(plugins, ACL) :
        /\ plugins[i].consumer = None
        /\ plugins[i].route # None =>
            /\ plugins[i].service = None
            /\ plugins[i].ws = WorkspaceOf[plugins[i].route]
            /\ \A j \in Named(plugins, ACL) :
                plugins[j].route = plugins[i].route => i = j

(* Only consumers that exist are allowed, and only on routes; none at all    *)
(* without access control.                                                   *)
AllowedExist ==
    \A i \in Named(plugins, ACL), c \in ConsumerIds :
        c \in plugins[i].allow =>
            consumers[c] # None /\ plugins[i].route # None /\ ~AclDisable

OneConsumerPerApp ==
    \A c, d \in ConsumerIds :
        /\ consumers[c] # None
        /\ consumers[d] # None
        /\ consumers[c].ws = consumers[d].ws
        /\ consumers[c].username = consumers[d].username
        => c = d

(* What the agent details in Central name for an application and a          *)
(* workspace is the consumer Kong has for it there (updateManagedAppDetails *)
(* against CreateConsumer): all later requests act on that identifier.      *)
DetailsNameItsConsumer ==
    \A a \in Apps, w \in Workspaces :
        LET c == details[a][w]
        IN  c # None => /\ consumers[c] # None
                        /\ consumers[c].ws = w
                        /\ consumers[c].username = a

ProvisionSteps   == {"getApp", "getConsumer", "createConsumer", "addGroup", "saveDetails",
                     "listForGrant", "createACL", "updateACL", "listForQuota",
                     "enableQuota", "createQuota"}
DeprovisionSteps == {"listForRevoke", "revokeACL", "disableQuota"}
WithoutApp       == {"getApp", "getConsumer", "createConsumer"}
AppSteps         == WithoutApp \cup {"addGroup", "saveDetails"}

(* The agent is idle, or works on a request that still waits for its answer. *)
WorksOnRequest ==
    /\ pc = "idle" <=> cur = None
    /\ cur # None =>
        /\ status[CurPair] = IF cur.op = "provision" THEN "pending" ELSE "deleting"
        /\ pc \in ProvisionSteps => cur.op = "provision"
        /\ pc \in DeprovisionSteps => cur.op = "deprovision"
        /\ pc # "report" => CurWs # None
        /\ pc = "report" => outcome # None
        /\ AclDisable => pc \in AppSteps \cup {"report"}
        /\ pc \in ProvisionSteps \ AppSteps => quota[CurPair] # Weekly
        /\ pc \in WithoutApp => appID = None

(* From the moment it has one, its consumer is the application's.            *)
ActsForItsConsumer ==
    cur # None =>
        /\ pc \notin WithoutApp \cup {"report"} => appID # None
        /\ appID # None =>
            /\ CurWs # None
            /\ consumers[appID] # None
            /\ consumers[appID].ws = CurWs
            /\ consumers[appID].username = cur.app

(* What the agent is about to write back is still what Kong holds, but for   *)
(* the operator's groups and the switch.                                     *)
ListingIsFresh ==
    /\ pc \in {"updateACL", "revokeACL", "enableQuota", "disableQuota"} =>
        /\ listed \in PluginTable
        /\ \A i \in Named(listed, RateLimiting) : i \in Named(plugins, RateLimiting)
    /\ pc \in {"updateACL", "revokeACL"} =>
        LET acl == AclOf(listed)
        IN  /\ acl \in Named(listed, ACL) \cap Named(plugins, ACL)
            /\ \A field \in {"ws", "service", "route", "consumer"} :
                listed[acl][field] = plugins[acl][field]
            /\ listed[acl].route = cur.route
            /\ listed[acl].allow \cap ConsumerIds = plugins[acl].allow \cap ConsumerIds
    /\ pc \in {"enableQuota", "disableQuota"} => RateOf(listed) # None

(* Once the agent has nothing to do but to report a deprovisioning as done,  *)
(* the consumer is out.                                                      *)
RevokedBeforeReport ==
    /\ cur # None
    /\ cur.op = "deprovision"
    /\ pc = "disableQuota" \/ (pc = "report" /\ outcome = "success")
    => appID # None /\ ~HasGroup(cur.route, appID)

(* No application is let in on a route unless its access request for that   *)
(* route exists and has not been answered as deprovisioned, whatever calls  *)
(* failed, whenever the agent crashed, and whatever an operator changed     *)
(* between a listing and the write that follows it (provisioning.go         *)
(* 127-218).                                                                *)
NoAccessWithoutRequest ==
    \A a \in Apps, r \in Routes :
        LetIn(a, r) => status[<<a, r>>] \notin {"none", "deleted"}

(* The inductive invariant that implies it. *)
AccessInv ==
    /\ TypeOK
    /\ AclShape
    /\ AllowedExist
    /\ OneConsumerPerApp
    /\ DetailsNameItsConsumer
    /\ WorksOnRequest
    /\ ActsForItsConsumer
    /\ ListingIsFresh
    /\ RevokedBeforeReport
    /\ NoAccessWithoutRequest

(* An access request shown as granted is granted in Kong: no later request  *)
(* for the same route, no stale write and no deletion of the plugin with    *)
(* its last group takes the application out again.                          *)
GrantedIsLetIn ==
    \A a \in Apps, r \in Routes :
        status[<<a, r>>] = "granted" => AclDisable \/ LetIn(a, r)

(* Once the agent is past the group, and until it reports a provisioning as  *)
(* done, the consumer is in.                                                 *)
GrantedBeforeReport ==
    /\ cur # None
    /\ cur.op = "provision"
    /\ ~AclDisable
    /\ \/ pc \in {"listForQuota", "enableQuota", "createQuota"}
       \/ pc = "report" /\ outcome = "success"
    => appID # None /\ HasGroup(cur.route, appID)

(* With AccessInv, the inductive invariant that implies GrantedIsLetIn.      *)
GrantInv == GrantedIsLetIn /\ GrantedBeforeReport

(* The agent takes out of a route's ACL nothing but the group of the        *)
(* application it deprovisions and puts in nothing but the group of the one *)
(* it provisions, and only on the route of the request.                     *)
OnlyTheRequestedGroupMoves ==
    [][\A r \in Routes, c \in ConsumerIds :
        HasGroup(r, c) # HasGroup(r, c)' =>
            /\ cur # None
            /\ r = cur.route
            /\ c = appID
            /\ HasGroup(r, c)' <=> cur.op = "provision"]_vars

(* Provisioning implements the contract with Central: granted is what Kong  *)
(* lets through.                                                            *)
Granted == {p \in Requests : LetIn(p[1], p[2])}

Contract == INSTANCE AccessContract WITH granted <- Granted

ImplementsContract == Contract!Spec

(* A quota is in force for every granted request that has one: Kong holds   *)
(* an enabled rate limiting plugin of just that route and application       *)
(* (README.md:56; AddQuota, provisioning.go 220-256).                       *)
HasQuota(a, r) ==
    /\ status[<<a, r>>] = "granted"
    /\ quota[<<a, r>>] \in Limits
    /\ ~AclDisable

QuotaInForce ==
    \A a \in Apps, r \in Routes : HasQuota(a, r) => Limited(a, r, TRUE) # {}

(* The application is the only one that ever asked for access to the route, *)
(* and no operator has put a limit on it.                                   *)
SoleUser(a, r) ==
    /\ \A b \in Apps \ {a} : status[<<b, r>>] = "none"
    /\ \A i \in Named(plugins, RateLimiting) :
          plugins[i].route = r => plugins[i].consumer # None

(* What the code does ensure: a quota is in force for an application that   *)
(* has a route to itself, whatever limits there are on other routes and in  *)
(* whatever order Kong lists them, whoever's requests come and go there.    *)
(* With anybody else's limit on the route, or anybody else's request for    *)
(* it, the sticky flags of getSpecificPlugin may pick a wrong plugin        *)
(* (provisioning.go 204, 230 and 356-381).                                  *)
QuotaOfSoleUser ==
    \A a \in Apps, r \in Routes :
        HasQuota(a, r) /\ SoleUser(a, r) => Limited(a, r, TRUE) # {}

(* Every request that waits is answered, or the agent crashed too often to  *)
(* be restarted within the bound: no handler is stuck, and no request is    *)
(* starved by the others.                                                   *)
EveryRequestIsAnswered ==
    \A p \in Requests :
        /\ status[p] = "pending"  ~> status[p] \in {"granted", "failed"}
        /\ status[p] = "deleting" ~> status[p] \in {"deleted", "deleteFailed"}
=============================================================================
