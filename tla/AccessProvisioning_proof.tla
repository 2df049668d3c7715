---------------------- MODULE AccessProvisioning_proof ----------------------
(* AccessInv is an inductive invariant of AccessProvisioning, for every      *)
(* number of applications, routes, workspaces, plugins and faults.           *)
EXTENDS AccessProvisioning, KongPlugins_proof

(* A plugin that the lookup finds is one of that name in the listing.        *)
LEMMA LookupInListing ==
    ASSUME NEW list \in PluginTable, NEW s, NEW r, NEW c, NEW name,
           getSpecificPlugin(list, s, r, c, name) # None
    PROVE  getSpecificPlugin(list, s, r, c, name) \in Named(list, name)
BY LookupAnswer DEF ReturnPoints

(* What a listing shows is a table of plugins again.                         *)
LEMMA ListAllIsTable ==
    ASSUME NEW table \in PluginTable, NEW w
    PROVE  ListAll(table, w) \in PluginTable
BY DEF ListAll, PluginTable

(* The invariant holds before the agent has done anything: no consumer       *)
(* exists, and no plugin of Kong lets one in.                                *)
THEOREM InitInv == Init => AccessInv
<1>. SUFFICES ASSUME Init PROVE AccessInv
    OBVIOUS
<1>. USE DEF Init
<1>1. /\ plugins \in PluginTable
      /\ \A i \in Named(plugins, ACL) :
            /\ plugins[i].route = None
            /\ plugins[i].consumer = None
            /\ plugins[i].allow \subseteq Groups
    BY InitialPluginsAssumption DEF Named
<1>2. TypeOK
    BY <1>1, MaxFaultsAssumption DEF TypeOK, Steps, Statuses
<1>3. AclShape /\ AllowedExist
    BY <1>1, GroupsAssumption DEF AclShape, AllowedExist
<1>4. OneConsumerPerApp /\ DetailsNameItsConsumer
    BY DEF OneConsumerPerApp, DetailsNameItsConsumer
<1>5. WorksOnRequest /\ ActsForItsConsumer /\ ListingIsFresh /\ RevokedBeforeReport
    BY DEF WorksOnRequest, ActsForItsConsumer, ListingIsFresh, RevokedBeforeReport
<1>6. NoAccessWithoutRequest
    BY DEF NoAccessWithoutRequest, LetIn
<1>. QED
    BY <1>2, <1>3, <1>4, <1>5, <1>6 DEF AccessInv

(* Central takes a request, a deletion or a retry: none of them touches a    *)
(* request the agent works on.                                               *)
LEMMA UsersStep ==
    ASSUME AccessInv, Users
    PROVE  AccessInv'
<1>. USE DEF AccessInv
<1>1. PICK a \in Apps, r \in Routes :
        \/ \E q \in Quotas : RequestAccess(a, r, q)
        \/ DeleteAccess(a, r)
        \/ Retry(a, r)
    BY DEF Users
<1>2. /\ UNCHANGED <<kong, details, agent, faults>>
      /\ \E s \in {"pending", "deleting"} : status' = [status EXCEPT ![<<a, r>>] = s]
      /\ status[<<a, r>>] \notin {"pending", "deleting"}
      /\ status[<<a, r>>] \in {"none", "deleted"} => status' = [status EXCEPT ![<<a, r>>] = "pending"]
    BY <1>1, DeletableAssumption DEF RequestAccess, DeleteAccess, Retry
<1>3. quota' \in [Requests -> Quotas \cup {None}]
    BY <1>1 DEF TypeOK, RequestAccess, DeleteAccess, Retry, Requests
<1>4. TypeOK'
    <2>1. status' \in [Requests -> Statuses]
        BY <1>2 DEF TypeOK, Requests, Statuses
    <2>. QED
        BY <1>2, <1>3, <2>1 DEF TypeOK, kong, agent
<1>5. AclShape' /\ AllowedExist' /\ OneConsumerPerApp' /\ DetailsNameItsConsumer'
    BY <1>2 DEF kong, AclShape, AllowedExist, OneConsumerPerApp, DetailsNameItsConsumer
<1>6. WorksOnRequest'
    <2>1. cur # None => status'[CurPair] = status[CurPair] /\ quota'[CurPair] = quota[CurPair]
        BY <1>1, <1>2 DEF TypeOK, WorksOnRequest, CurPair, CurRequest, Requests,
            RequestAccess, DeleteAccess, Retry
    <2>. QED
        BY <1>2, <2>1 DEF WorksOnRequest, agent, CurPair, CurWs
<1>7. ActsForItsConsumer' /\ ListingIsFresh' /\ RevokedBeforeReport'
    BY <1>2 DEF kong, agent, ActsForItsConsumer, ListingIsFresh, RevokedBeforeReport,
        CurWs, AclOf, RateOf, HasGroup
<1>8. NoAccessWithoutRequest'
    BY <1>2 DEF NoAccessWithoutRequest, LetIn, HasGroup, kong, TypeOK, Requests
<1>. QED
    BY <1>4, <1>5, <1>6, <1>7, <1>8

(* What a step may do to the groups that Kong lets in: nothing, or give or    *)
(* take the group of the application the agent works for, on its route.      *)
GroupsKept == \A r \in Routes, c \in ConsumerIds : HasGroup(r, c)' = HasGroup(r, c)

GroupMoved(given) ==
    \A r \in Routes, c \in ConsumerIds :
        HasGroup(r, c)' <=> IF r = cur.route /\ c = appID THEN given ELSE HasGroup(r, c)

(* A step that leaves the groups of consumers as they are, and everything    *)
(* but the plugins, keeps what is said about groups.                         *)
LEMMA SameGroups ==
    ASSUME AccessInv, UNCHANGED <<consumers, central, agent, faults>>,
           \A r \in Routes, c \in ConsumerIds : HasGroup(r, c)' = HasGroup(r, c)
    PROVE  /\ OneConsumerPerApp' /\ DetailsNameItsConsumer'
           /\ WorksOnRequest' /\ ActsForItsConsumer'
           /\ RevokedBeforeReport' /\ NoAccessWithoutRequest'
<1>. USE DEF AccessInv, central, agent
<1>1. OneConsumerPerApp' /\ DetailsNameItsConsumer'
    BY DEF OneConsumerPerApp, DetailsNameItsConsumer
<1>2. WorksOnRequest' /\ ActsForItsConsumer'
    BY DEF WorksOnRequest, ActsForItsConsumer, CurPair, CurWs
<1>3. RevokedBeforeReport'
    BY DEF RevokedBeforeReport, TypeOK, CurRequest
<1>4. NoAccessWithoutRequest'
    <2>1. ASSUME NEW a \in Apps, NEW r \in Routes PROVE LetIn(a, r)' <=> LetIn(a, r)
        BY DEF LetIn
    <2>. QED
        BY <2>1 DEF NoAccessWithoutRequest
<1>. QED
    BY <1>1, <1>2, <1>3, <1>4

(* The operator changes an ACL plugin on a route without its consumers.      *)
LEMMA OperatorEdits ==
    ASSUME AccessInv, NEW i \in PluginIds, NEW allow \in SUBSET (ConsumerIds \cup Groups),
           NEW enabled \in BOOLEAN,
           OnRoute(i, ACL),
           allow \cap ConsumerIds = plugins[i].allow \cap ConsumerIds,
           plugins' = [plugins EXCEPT ![i] = [@ EXCEPT !.allow = allow, !.enabled = enabled]],
           UNCHANGED <<consumers, central, agent, faults>>
    PROVE  AccessInv' /\ GroupsKept
<1>. USE DEF AccessInv, OnRoute
<1>1. plugins[i] \in Plugin
    BY DEF TypeOK, PluginTable
<1>2. /\ plugins'[i] \in Plugin
      /\ plugins'[i].allow \cap ConsumerIds = plugins[i].allow \cap ConsumerIds
      /\ \A field \in {"name", "ws", "service", "route", "consumer"} :
            plugins'[i][field] = plugins[i][field]
      /\ \A j \in PluginIds \ {i} : plugins'[j] = plugins[j]
    BY <1>1 DEF TypeOK, PluginTable, Plugin
<1>3. plugins' \in PluginTable
    BY <1>2 DEF TypeOK, PluginTable
<1>4. /\ Named(plugins, ACL)' = Named(plugins, ACL)
      /\ Named(plugins, RateLimiting)' = Named(plugins, RateLimiting)
    BY <1>1, <1>2, NoPluginAssumption, ZenonT(30) DEF Named, Present
<1>5. AclShape'
    BY <1>2, <1>4 DEF AclShape, Named, Present
<1>6. AllowedExist'
    BY <1>2, <1>4 DEF AllowedExist, Named, Present
<1>7. \A r \in Routes, c \in ConsumerIds : HasGroup(r, c)' = HasGroup(r, c)
    BY <1>2, <1>4 DEF HasGroup, Named, Present
<1>8. ListingIsFresh'
    BY <1>2, <1>4 DEF ListingIsFresh, agent, AclOf, RateOf
<1>9. TypeOK'
    BY <1>3 DEF TypeOK, central, agent
<1>. QED
    BY <1>5, <1>6, <1>7, <1>8, <1>9, SameGroups DEF GroupsKept

(* The plugins the agent and the operator create are plugins.                *)
LEMMA NewPluginType ==
    ASSUME NEW name \in {ACL, RateLimiting}, NEW w \in Workspaces, NEW r \in Routes,
           NEW c \in ConsumerIds \cup {None}, NEW allow \in SUBSET (ConsumerIds \cup Groups),
           NEW limit \in Limits \cup {None}
    PROVE  NewPlugin(name, w, r, c, allow, limit) \in Plugin
BY DEF NewPlugin, Plugin

(* A plugin created in a free place joins those of its name.                 *)
LEMMA PluginAdded ==
    ASSUME TypeOK, NEW i \in PluginIds \ Present(plugins), NEW p \in Plugin,
           plugins' = [plugins EXCEPT ![i] = p]
    PROVE  /\ plugins' \in PluginTable
           /\ plugins'[i] = p
           /\ \A j \in PluginIds \ {i} : plugins'[j] = plugins[j]
           /\ \A name \in {ACL, RateLimiting} :
                Named(plugins, name)' = IF name = p.name THEN Named(plugins, name) \cup {i}
                                        ELSE Named(plugins, name)
           /\ \A name \in {ACL, RateLimiting} : i \notin Named(plugins, name)
<1>1. plugins' \in PluginTable /\ plugins'[i] = p /\ \A j \in PluginIds \ {i} : plugins'[j] = plugins[j]
    BY DEF TypeOK, PluginTable
<1>2. Present(plugins)' = Present(plugins) \cup {i}
    BY <1>1, NoPluginAssumption DEF Present
<1>. QED
    BY <1>1, <1>2, NoPluginAssumption DEF Named, Present

(* A new ACL plugin that Kong accepts keeps the shape of the table.          *)
LEMMA AclAdded ==
    ASSUME AccessInv, NEW r \in Routes, WorkspaceOf[r] # None,
           NEW allow \in SUBSET (ConsumerIds \cup Groups),
           ~Occupied(NewPlugin(ACL, WorkspaceOf[r], r, None, allow, None)),
           NEW i \in PluginIds \ Present(plugins),
           plugins' = [plugins EXCEPT ![i] = NewPlugin(ACL, WorkspaceOf[r], r, None, allow, None)]
    PROVE  /\ plugins' \in PluginTable
           /\ AclShape'
           /\ \A q \in Routes, c \in ConsumerIds :
                HasGroup(q, c)' <=> HasGroup(q, c) \/ (q = r /\ c \in allow)
           /\ Named(plugins, RateLimiting)' = Named(plugins, RateLimiting)
           /\ Named(plugins, ACL)' = Named(plugins, ACL) \cup {i}
           /\ \A j \in PluginIds \ {i} : plugins'[j] = plugins[j]
           /\ plugins'[i].route = r /\ plugins'[i].allow = allow
           /\ \A name \in {ACL, RateLimiting} : Named(plugins, name) \subseteq PluginIds \ {i}
<1> DEFINE p == NewPlugin(ACL, WorkspaceOf[r], r, None, allow, None)
<1>1. p \in Plugin
    BY NewPluginType, WorkspaceOfAssumption
<1>2. /\ p.name = ACL /\ p.ws = WorkspaceOf[r] /\ p.service = None /\ p.route = r
      /\ p.consumer = None /\ p.allow = allow
    BY DEF NewPlugin
<1>3. TypeOK
    BY DEF AccessInv
<1>4. /\ plugins' \in PluginTable
      /\ plugins'[i] = p
      /\ \A j \in PluginIds \ {i} : plugins'[j] = plugins[j]
      /\ Named(plugins, RateLimiting)' = Named(plugins, RateLimiting)
      /\ Named(plugins, ACL)' = Named(plugins, ACL) \cup {i}
    <2>. HIDE DEF p
    <2>1. ACL # RateLimiting
        BY DEF ACL, RateLimiting
    <2>2. plugins' = [plugins EXCEPT ![i] = p]
        BY DEF p
    <2>3. /\ plugins' \in PluginTable
          /\ plugins'[i] = p
          /\ \A j \in PluginIds \ {i} : plugins'[j] = plugins[j]
          /\ \A name \in {ACL, RateLimiting} :
                Named(plugins, name)' = IF name = p.name THEN Named(plugins, name) \cup {i}
                                        ELSE Named(plugins, name)
        BY <1>1, <1>3, <2>2, PluginAdded
    <2>4. Named(plugins, ACL)' = Named(plugins, ACL) \cup {i}
        BY <1>2, <2>3
    <2>5. Named(plugins, RateLimiting)' = Named(plugins, RateLimiting)
        BY <1>2, <2>1, <2>3
    <2>. QED
        BY <2>3, <2>4, <2>5
<1>5. \A j \in Named(plugins, ACL) : plugins[j].route # r
    <2>. SUFFICES ASSUME NEW j \in Named(plugins, ACL), plugins[j].route = r PROVE FALSE
        OBVIOUS
    <2>1. /\ plugins[j].consumer = None /\ plugins[j].service = None
          /\ plugins[j].ws = WorkspaceOf[r] /\ plugins[j].name = ACL
        BY NoneAssumption DEF AccessInv, AclShape, Named
    <2>2. Occupied(p)
        <3>. HIDE DEF p
        <3>. QED BY <1>2, <2>1 DEF Occupied, Named
    <2>. QED
        BY <2>2
<1>6. AclShape'
    <2>. HIDE DEF p
    <2>. QED
        BY <1>2, <1>4, <1>5 DEF AccessInv, AclShape, Named, Present
<1>7. \A q \in Routes, c \in ConsumerIds :
        HasGroup(q, c)' <=> HasGroup(q, c) \/ (q = r /\ c \in allow)
    <2>. HIDE DEF p
    <2>. QED
        BY <1>2, <1>4 DEF HasGroup, Named, Present
<1>8. \A name \in {ACL, RateLimiting} : Named(plugins, name) \subseteq PluginIds \ {i}
    BY DEF Named, Present
<1>. QED
    BY <1>2, <1>4, <1>6, <1>7, <1>8

(* A rate limiting plugin written or created has no say in who is let in.    *)
LEMMA AclKept ==
    ASSUME AccessInv, UNCHANGED consumers,
           Named(plugins, ACL)' = Named(plugins, ACL),
           \A i \in Named(plugins, ACL) : plugins'[i] = plugins[i]
    PROVE  /\ AclShape' /\ AllowedExist'
           /\ \A r \in Routes, c \in ConsumerIds : HasGroup(r, c)' = HasGroup(r, c)
BY DEF AccessInv, AclShape, AllowedExist, HasGroup

(* The operator puts a limit on a route: no group moves.                     *)
LEMMA OperatorLimitStep ==
    ASSUME AccessInv, NEW r \in Routes, NEW limit \in Limits, OperatorLimit(r, limit)
    PROVE  AccessInv' /\ GroupsKept
<1> DEFINE p == NewPlugin(RateLimiting, WorkspaceOf[r], r, None, {}, limit)
<1>1. PICK i \in PluginIds \ Present(plugins) : plugins' = [plugins EXCEPT ![i] = p]
    BY DEF OperatorLimit
<1>2. UNCHANGED <<consumers, central, agent, faults>> /\ WorkspaceOf[r] \in Workspaces
    BY WorkspaceOfAssumption DEF OperatorLimit
<1>3. p \in Plugin /\ p.name = RateLimiting
    BY <1>2 DEF NewPlugin, Plugin
<1>. HIDE DEF p
<1>4. TypeOK
    BY DEF AccessInv
<1>5. /\ plugins' \in PluginTable
      /\ \A j \in PluginIds \ {i} : plugins'[j] = plugins[j]
      /\ \A name \in {ACL, RateLimiting} :
            Named(plugins, name)' = IF name = p.name THEN Named(plugins, name) \cup {i}
                                    ELSE Named(plugins, name)
      /\ \A name \in {ACL, RateLimiting} : i \notin Named(plugins, name)
    BY <1>1, <1>3, <1>4, PluginAdded
<1>6. /\ Named(plugins, ACL)' = Named(plugins, ACL)
      /\ \A j \in Named(plugins, ACL) : plugins'[j] = plugins[j]
    BY <1>3, <1>5 DEF ACL, RateLimiting, Named, Present
<1>7. /\ AclShape' /\ AllowedExist'
      /\ \A q \in Routes, c \in ConsumerIds : HasGroup(q, c)' = HasGroup(q, c)
    BY <1>2, <1>6, AclKept
<1>8. ListingIsFresh'
    <2>1. /\ \A j \in Named(plugins, ACL) : plugins'[j] = plugins[j]
          /\ Named(plugins, RateLimiting) \subseteq Named(plugins, RateLimiting)'
        BY <1>3, <1>5, <1>6
    <2>. QED
        BY <1>2, <1>6, <2>1 DEF AccessInv, ListingIsFresh, agent, AclOf, RateOf
<1>9. TypeOK'
    BY <1>2, <1>4, <1>5 DEF TypeOK, central, agent
<1>. QED
    BY <1>2, <1>7, <1>8, <1>9, SameGroups DEF AccessInv, GroupsKept

(* The operator of Kong changes ACL plugins and adds limits between the calls *)
(* of the agent.                                                              *)
LEMMA OperatorStep ==
    ASSUME AccessInv, Operator
    PROVE  AccessInv' /\ GroupsKept
<1>1. ASSUME NEW r \in Routes, NEW g \in Groups, OperatorProtect(r, g)
      PROVE  AccessInv' /\ GroupsKept
    <2>1. PICK i \in PluginIds \ Present(plugins) :
            plugins' = [plugins EXCEPT ![i] = NewPlugin(ACL, WorkspaceOf[r], r, None, {g}, None)]
        BY <1>1 DEF OperatorProtect
    <2>2. /\ UNCHANGED <<consumers, central, agent, faults>>
          /\ WorkspaceOf[r] # None
          /\ ~Occupied(NewPlugin(ACL, WorkspaceOf[r], r, None, {g}, None))
        BY <1>1 DEF OperatorProtect
    <2>. {g} \in SUBSET (ConsumerIds \cup Groups)
        OBVIOUS
    <2>3. /\ plugins' \in PluginTable
          /\ AclShape'
          /\ \A q \in Routes, c \in ConsumerIds :
                HasGroup(q, c)' <=> HasGroup(q, c) \/ (q = r /\ c \in {g})
          /\ Named(plugins, RateLimiting)' = Named(plugins, RateLimiting)
          /\ Named(plugins, ACL)' = Named(plugins, ACL) \cup {i}
          /\ \A j \in PluginIds \ {i} : plugins'[j] = plugins[j]
          /\ plugins'[i].route = r /\ plugins'[i].allow = {g}
          /\ \A name \in {ACL, RateLimiting} : Named(plugins, name) \subseteq PluginIds \ {i}
        BY <2>1, <2>2, AclAdded
    <2>4. \A q \in Routes, c \in ConsumerIds : HasGroup(q, c)' = HasGroup(q, c)
        BY <2>3, GroupsAssumption DEF HasGroup
    <2>5. TypeOK'
        BY <2>2, <2>3 DEF AccessInv, TypeOK, central, agent
    <2>6. AllowedExist'
        BY <2>2, <2>3, GroupsAssumption DEF AccessInv, AllowedExist
    <2>7. ListingIsFresh'
        BY <2>2, <2>3 DEF AccessInv, ListingIsFresh, agent, AclOf, RateOf
    <2>. QED
        BY <2>2, <2>3, <2>4, <2>5, <2>6, <2>7, SameGroups DEF AccessInv, GroupsKept
<1>2. ASSUME NEW i \in PluginIds, NEW g \in Groups, OperatorAllow(i, g)
      PROVE  AccessInv' /\ GroupsKept
    <2>1. plugins[i] \in Plugin
        BY <1>2 DEF OperatorAllow, OnRoute, AccessInv, TypeOK, PluginTable
    <2>2. plugins' = [plugins EXCEPT ![i] =
                        [@ EXCEPT !.allow = plugins[i].allow \cup {g}, !.enabled = plugins[i].enabled]]
        BY <1>2, <2>1 DEF OperatorAllow, Plugin, AccessInv, TypeOK, PluginTable
    <2>3. /\ plugins[i].allow \cup {g} \in SUBSET (ConsumerIds \cup Groups)
          /\ (plugins[i].allow \cup {g}) \cap ConsumerIds = plugins[i].allow \cap ConsumerIds
          /\ plugins[i].enabled \in BOOLEAN
        BY <2>1, GroupsAssumption DEF Plugin
    <2>. QED
        BY <1>2, <2>2, <2>3, OperatorEdits DEF OperatorAllow
<1>3. ASSUME NEW i \in PluginIds, NEW g \in Groups, OperatorDisallow(i, g)
      PROVE  AccessInv' /\ GroupsKept
    <2>1. plugins[i] \in Plugin
        BY <1>3 DEF OperatorDisallow, OnRoute, AccessInv, TypeOK, PluginTable
    <2>2. plugins' = [plugins EXCEPT ![i] =
                        [@ EXCEPT !.allow = plugins[i].allow \ {g}, !.enabled = plugins[i].enabled]]
        BY <1>3, <2>1 DEF OperatorDisallow, Plugin, AccessInv, TypeOK, PluginTable
    <2>3. /\ plugins[i].allow \ {g} \in SUBSET (ConsumerIds \cup Groups)
          /\ (plugins[i].allow \ {g}) \cap ConsumerIds = plugins[i].allow \cap ConsumerIds
          /\ plugins[i].enabled \in BOOLEAN
        BY <2>1, GroupsAssumption DEF Plugin
    <2>. QED
        BY <1>3, <2>2, <2>3, OperatorEdits DEF OperatorDisallow
<1>4. ASSUME NEW i \in PluginIds, OperatorDisable(i)
      PROVE  AccessInv' /\ GroupsKept
    <2>1. plugins[i] \in Plugin
        BY <1>4 DEF OperatorDisable, OnRoute, AccessInv, TypeOK, PluginTable
    <2>2. plugins' = [plugins EXCEPT ![i] =
                        [@ EXCEPT !.allow = plugins[i].allow, !.enabled = FALSE]]
        BY <1>4, <2>1 DEF OperatorDisable, Plugin, AccessInv, TypeOK, PluginTable
    <2>3. plugins[i].allow \in SUBSET (ConsumerIds \cup Groups)
        BY <2>1 DEF Plugin
    <2>. QED
        BY <1>4, <2>2, <2>3, OperatorEdits DEF OperatorDisable
<1>. QED
    BY <1>1, <1>2, <1>3, <1>4, OperatorLimitStep DEF Operator

(* A step that changes neither Kong nor Central.                             *)
LEMMA KongAndCentralKept ==
    ASSUME AccessInv, UNCHANGED <<kong, central>>
    PROVE  /\ AclShape' /\ AllowedExist' /\ OneConsumerPerApp' /\ DetailsNameItsConsumer'
           /\ NoAccessWithoutRequest'
           /\ plugins' \in PluginTable
<1>. USE DEF AccessInv, kong, central
<1>1. AclShape' /\ AllowedExist' /\ OneConsumerPerApp' /\ DetailsNameItsConsumer'
    BY DEF AclShape, AllowedExist, OneConsumerPerApp, DetailsNameItsConsumer
<1>2. NoAccessWithoutRequest'
    BY DEF NoAccessWithoutRequest, LetIn, HasGroup
<1>. QED
    BY <1>1, <1>2 DEF TypeOK

(* The number of faults stays within its bound.                              *)
LEMMA FaultsBounded ==
    ASSUME TypeOK, Fault \/ UNCHANGED faults
    PROVE  faults' \in 0..MaxFaults
BY MaxFaultsAssumption DEF TypeOK, Fault

(* Provision and Deprovision up to their first call.                         *)
LEMMA StartStep ==
    ASSUME AccessInv, Start
    PROVE  AccessInv'
<1>. PICK a \in Apps, r \in Routes : StartProvision(a, r) \/ StartDeprovision(a, r)
    BY DEF Start
<1> DEFINE req == [op |-> IF status[<<a, r>>] = "pending" THEN "provision" ELSE "deprovision",
                   app |-> a, route |-> r]
<1>1. /\ UNCHANGED <<kong, central, listed, faults>>
      /\ pc = "idle" /\ cur' = req
      /\ status[<<a, r>>] = IF req.op = "provision" THEN "pending" ELSE "deleting"
      /\ appID' = AppIDInDetails(a, r)
    BY DEF StartProvision, StartDeprovision
<1>2. req \in CurRequest /\ req.app = a /\ req.route = r
    BY DEF CurRequest
<1>3. req # None
    BY <1>2, NoRecordAssumption
<1>4. /\ appID' \in ConsumerIds \cup {None}
      /\ appID' # None => /\ WorkspaceOf[r] # None
                          /\ consumers[appID'] # None
                          /\ consumers[appID'].ws = WorkspaceOf[r]
                          /\ consumers[appID'].username = a
    BY <1>1, WorkspaceOfAssumption
    DEF AccessInv, TypeOK, AppIDInDetails, DetailsNameItsConsumer
<1>5. /\ pc' \in {"report", "getApp", "listForGrant", "listForRevoke"}
      /\ pc' = "report" => outcome' \in {"success", "failed"}
      /\ pc' # "report" => outcome' = None
      /\ pc' \in {"getApp", "listForGrant"} => req.op = "provision"
      /\ pc' = "listForRevoke" => req.op = "deprovision"
      /\ pc' # "report" => WorkspaceOf[r] # None
      /\ AclDisable => pc' \in {"report", "getApp"}
      /\ pc' = "getApp" <=> pc' # "report" /\ appID' = None
      /\ pc' = "listForGrant" => quota[<<a, r>>] # Weekly
      /\ req.op = "deprovision" /\ pc' = "report" /\ outcome' = "success" => appID' # None /\ AclDisable
    BY DEF StartProvision, StartDeprovision, Jump, Failure, Finish, Goto, AfterApp, AppIDInDetails
<1>6. TypeOK'
    BY <1>1, <1>2, <1>4, <1>5 DEF AccessInv, TypeOK, kong, central, Steps
<1>7. WorksOnRequest'
    <2>. HIDE DEF req
    <2>1. CurPair' = <<a, r>> /\ CurWs' = WorkspaceOf[r] /\ cur' # None /\ cur'.op = req.op
        BY <1>1, <1>2, <1>3 DEF CurPair, CurWs
    <2>2. status'[<<a, r>>] = IF req.op = "provision" THEN "pending" ELSE "deleting"
        BY <1>1 DEF central
    <2>3. pc' # "idle" /\ (pc' = "report" => outcome' # None)
        BY <1>5, OutcomeAssumption
    <2>4. quota'[<<a, r>>] = quota[<<a, r>>]
        BY <1>1 DEF central
    <2>. QED
        BY <2>1, <2>2, <2>3, <2>4, <1>5
        DEF WorksOnRequest, ProvisionSteps, DeprovisionSteps, WithoutApp, AppSteps
<1>8. ActsForItsConsumer'
    BY <1>1, <1>2, <1>4, <1>5 DEF ActsForItsConsumer, kong, CurWs, WithoutApp
<1>9. ListingIsFresh'
    BY <1>5 DEF ListingIsFresh
<1>10. RevokedBeforeReport'
    <2>1. AclDisable => \A c \in ConsumerIds : ~HasGroup(r, c)'
        BY <1>1 DEF AccessInv, AllowedExist, HasGroup, kong
    <2>. QED
        BY <1>1, <1>2, <1>4, <1>5, <2>1 DEF RevokedBeforeReport
<1>. QED
    BY <1>1, <1>6, <1>7, <1>8, <1>9, <1>10, KongAndCentralKept DEF AccessInv

(* A crash loses what the agent had in memory and nothing else.              *)
LEMMA CrashStep ==
    ASSUME AccessInv, Crash
    PROVE  AccessInv'
<1>1. UNCHANGED <<kong, central>> /\ Rest /\ Fault
    BY DEF Crash
<1>2. TypeOK'
    BY <1>1, FaultsBounded DEF AccessInv, TypeOK, kong, central, Rest, Steps
<1>3. WorksOnRequest' /\ ActsForItsConsumer' /\ ListingIsFresh' /\ RevokedBeforeReport'
    BY <1>1 DEF Rest, WorksOnRequest, ActsForItsConsumer, ListingIsFresh, RevokedBeforeReport
<1>. QED
    BY <1>1, <1>2, <1>3, KongAndCentralKept DEF AccessInv

(* The answer to Central: when it says deprovisioned, the consumer is out.   *)
LEMMA ReportStep ==
    ASSUME AccessInv, Report
    PROVE  AccessInv'
<1>1. /\ UNCHANGED <<kong, quota, details, faults>> /\ Rest /\ pc = "report"
      /\ status' = [status EXCEPT ![CurPair] = Answer]
    BY DEF Report
<1>2. /\ cur \in CurRequest /\ CurPair = <<cur.app, cur.route>>
      /\ cur.app \in Apps /\ cur.route \in Routes
      /\ cur.op \in {"provision", "deprovision"}
      /\ outcome \in {"success", "failed"}
    BY <1>1 DEF AccessInv, TypeOK, WorksOnRequest, CurRequest, CurPair
<1>3. Answer \in {"granted", "failed", "deleted", "deleteFailed"}
    BY <1>2 DEF Answer
<1>4. Answer = "deleted" => cur.op = "deprovision" /\ outcome = "success"
    BY <1>2 DEF Answer
<1>5. TypeOK'
    <2>1. status' \in [Requests -> Statuses]
        BY <1>1, <1>3 DEF AccessInv, TypeOK, Statuses
    <2>. QED
        BY <1>1, <2>1 DEF AccessInv, TypeOK, kong, Rest, Steps
<1>6. AclShape' /\ AllowedExist' /\ OneConsumerPerApp' /\ DetailsNameItsConsumer'
    BY <1>1 DEF AccessInv, kong, AclShape, AllowedExist, OneConsumerPerApp, DetailsNameItsConsumer
<1>7. WorksOnRequest' /\ ActsForItsConsumer' /\ ListingIsFresh' /\ RevokedBeforeReport'
    BY <1>1 DEF Rest, WorksOnRequest, ActsForItsConsumer, ListingIsFresh, RevokedBeforeReport
<1>8. NoAccessWithoutRequest'
    <2>. SUFFICES ASSUME NEW a \in Apps, NEW r \in Routes, LetIn(a, r)
                  PROVE  status'[<<a, r>>] \notin {"none", "deleted"}
        BY <1>1 DEF NoAccessWithoutRequest, LetIn, HasGroup, kong
    <2>1. CASE <<a, r>> # CurPair
        BY <1>1, <1>2, <2>1 DEF AccessInv, NoAccessWithoutRequest, TypeOK, Requests
    <2>2. CASE <<a, r>> = CurPair
        <3>1. a = cur.app /\ r = cur.route
            BY <1>2, <2>2
        <3>2. ASSUME cur.op = "deprovision", outcome = "success"
              PROVE  FALSE
            <4>1. appID \in ConsumerIds /\ ~HasGroup(r, appID)
                BY <1>1, <1>2, <3>1, <3>2, NoRecordAssumption DEF AccessInv, RevokedBeforeReport, TypeOK
            <4>2. /\ consumers[appID] # None /\ consumers[appID].ws = WorkspaceOf[r]
                  /\ consumers[appID].username = a
                BY <1>2, <3>1, <4>1, NoneAssumption, NoRecordAssumption
                DEF AccessInv, ActsForItsConsumer, CurWs
            <4>. QED
                BY <4>1, <4>2 DEF AccessInv, OneConsumerPerApp, LetIn
        <3>3. status'[<<a, r>>] = Answer
            BY <1>1, <2>2 DEF AccessInv, TypeOK, Requests
        <3>. QED
            BY <1>3, <1>4, <3>2, <3>3
    <2>. QED
        BY <2>1, <2>2
<1>. QED
    BY <1>5, <1>6, <1>7, <1>8 DEF AccessInv

(* A call that fails without effect, or that Kong refuses.                   *)
LEMMA FailureStep ==
    ASSUME AccessInv, pc \in ProvisionSteps \cup DeprovisionSteps, Jump(Failure),
           UNCHANGED <<kong, central, cur, appID, listed>>, Fault \/ UNCHANGED faults
    PROVE  AccessInv'
<1>1. pc' = "report" /\ outcome' = "failed"
    BY DEF Jump, Failure, Finish
<1>2. cur # None
    BY DEF AccessInv, WorksOnRequest, ProvisionSteps, DeprovisionSteps
<1>3. TypeOK'
    BY <1>1, FaultsBounded DEF AccessInv, TypeOK, kong, central, Steps
<1>4. WorksOnRequest'
    BY <1>1, <1>2, OutcomeAssumption
    DEF AccessInv, WorksOnRequest, central, CurPair, CurWs, ProvisionSteps,
        DeprovisionSteps, WithoutApp, AppSteps
<1>5. ActsForItsConsumer' /\ ListingIsFresh' /\ RevokedBeforeReport'
    BY <1>1 DEF AccessInv, ActsForItsConsumer, ListingIsFresh, RevokedBeforeReport, kong, CurWs
<1>. QED
    BY <1>3, <1>4, <1>5, KongAndCentralKept DEF AccessInv

(* What holds while a handler of provisioning runs.                          *)
LEMMA Provisioning ==
    ASSUME AccessInv, pc \in ProvisionSteps
    PROVE  /\ cur # None /\ cur \in CurRequest /\ cur.op = "provision"
           /\ cur.app \in Apps /\ cur.route \in Routes
           /\ CurWs = WorkspaceOf[cur.route] /\ CurWs \in Workspaces
           /\ status[<<cur.app, cur.route>>] = "pending"
           /\ MetadataId[cur.app] \notin Apps \cup ConsumerIds \cup {None}
<1>1. cur # None /\ cur \in CurRequest /\ pc # "report"
    BY DEF AccessInv, TypeOK, WorksOnRequest, ProvisionSteps
<1>2. cur.app \in Apps /\ cur.route \in Routes
    BY <1>1 DEF CurRequest
<1>. QED
    BY <1>1, <1>2, WorkspaceOfAssumption, MetadataIdAssumption
    DEF AccessInv, WorksOnRequest, CurWs, CurPair

(* getManagedApplication, access.go 203-210.                                 *)
LEMMA GetManagedApplicationStep ==
    ASSUME AccessInv, GetManagedApplication
    PROVE  AccessInv'
<1>1. CASE Jump(Failure) /\ Fault
    BY <1>1, FailureStep DEF GetManagedApplication, ProvisionSteps
<1>2. CASE Jump(Goto("getConsumer")) /\ UNCHANGED faults
    <2>1. /\ pc = "getApp" /\ pc' = "getConsumer" /\ outcome' = None
          /\ UNCHANGED <<kong, central, cur, appID, listed, faults>>
        BY <1>2 DEF GetManagedApplication, Jump, Goto
    <2>2. TypeOK'
        BY <2>1 DEF AccessInv, TypeOK, kong, central, Steps
    <2>3. WorksOnRequest' /\ ActsForItsConsumer' /\ ListingIsFresh' /\ RevokedBeforeReport'
        BY <2>1 DEF AccessInv, WorksOnRequest, ActsForItsConsumer, ListingIsFresh, central, kong,
            RevokedBeforeReport, CurPair, CurWs, ProvisionSteps, DeprovisionSteps, WithoutApp, AppSteps
    <2>. QED
        BY <2>1, <2>2, <2>3, KongAndCentralKept DEF AccessInv
<1>. QED
    BY <1>1, <1>2 DEF GetManagedApplication

(* The lookup of CreateConsumer by Metadata.ID never finds a consumer of the *)
(* agent: Kong looks identifiers and usernames up, and the Metadata.ID is    *)
(* stored as the custom identifier (provisioning.go 23 and 30-33).           *)
THEOREM LookupByMetadataIdFindsNothing ==
    ASSUME TypeOK, NEW a \in Apps, NEW w \in Workspaces
    PROVE  ConsumersAt(w, MetadataId[a]) = {}
BY MetadataIdAssumption DEF TypeOK, ConsumersAt, Consumer

(* The lookup at the start of CreateConsumer, provisioning.go 22-27.         *)
LEMMA GetConsumerStep ==
    ASSUME AccessInv, GetConsumer
    PROVE  AccessInv'
<1>1. ConsumersAt(CurWs, MetadataId[cur.app]) = {}
    BY Provisioning, LookupByMetadataIdFindsNothing DEF GetConsumer, AccessInv, ProvisionSteps
<1>2. /\ pc = "getConsumer" /\ pc' = "createConsumer" /\ outcome' = None
      /\ UNCHANGED <<kong, central, cur, appID, listed>>
      /\ Fault \/ UNCHANGED faults
    BY <1>1 DEF GetConsumer, Jump, Goto
<1>3. TypeOK'
    BY <1>2, FaultsBounded DEF AccessInv, TypeOK, kong, central, Steps
<1>4. WorksOnRequest' /\ ActsForItsConsumer' /\ ListingIsFresh' /\ RevokedBeforeReport'
    BY <1>2 DEF AccessInv, WorksOnRequest, ActsForItsConsumer, ListingIsFresh, central, kong,
        RevokedBeforeReport, CurPair, CurWs, ProvisionSteps, DeprovisionSteps, WithoutApp, AppSteps
<1>. QED
    BY <1>2, <1>3, <1>4, KongAndCentralKept DEF AccessInv

(* The creation of the consumer, provisioning.go 29-39.                      *)
LEMMA CreateConsumerStep ==
    ASSUME AccessInv, CreateConsumer
    PROVE  AccessInv'
<1>1. CASE UNCHANGED <<consumers, appID>> /\ Jump(Failure) /\ (Fault \/ UNCHANGED faults)
    BY <1>1, FailureStep DEF CreateConsumer, ProvisionSteps, kong
<1>2. ASSUME ~ConsumerConflict(CurWs, cur.app, MetadataId[cur.app]),
             NEW c \in ConsumerIds, consumers[c] = None,
             consumers' = [consumers EXCEPT ![c] = NewConsumer(CurWs, cur.app, MetadataId[cur.app])],
             \/ appID' = c /\ Jump(Goto("addGroup")) /\ UNCHANGED faults
             \/ UNCHANGED appID /\ Jump(Failure) /\ Fault
      PROVE  AccessInv'
    <2>1. /\ pc = "createConsumer" /\ UNCHANGED <<plugins, central, cur, listed>>
          /\ Fault \/ UNCHANGED faults
          /\ \/ appID' = c /\ pc' = "addGroup" /\ outcome' = None
             \/ appID' = None /\ pc' = "report" /\ outcome' = "failed"
        BY <1>2 DEF CreateConsumer, Jump, Goto, Failure, Finish, AccessInv, WorksOnRequest, WithoutApp
    <2>2. /\ cur # None /\ cur \in CurRequest /\ cur.op = "provision"
          /\ cur.app \in Apps /\ cur.route \in Routes /\ CurWs \in Workspaces
        BY <2>1, Provisioning DEF ProvisionSteps
    <2> DEFINE new == NewConsumer(CurWs, cur.app, MetadataId[cur.app])
    <2>3. new \in Consumer /\ new # None /\ new.ws = CurWs /\ new.username = cur.app
        BY <2>2, NoRecordAssumption DEF NewConsumer, Consumer
    <2>. HIDE DEF new
    <2>4. /\ consumers'[c] = new /\ \A d \in ConsumerIds \ {c} : consumers'[d] = consumers[d]
          /\ consumers' \in [ConsumerIds -> Consumer \cup {None}]
        BY <1>2, <2>3 DEF AccessInv, TypeOK, new
    <2>5. TypeOK'
        BY <2>1, <2>4, FaultsBounded DEF AccessInv, TypeOK, central, Steps
    <2>6. AclShape'
        BY <2>1 DEF AccessInv, AclShape
    <2>7. AllowedExist'
        BY <1>2, <2>1, <2>3, <2>4 DEF AccessInv, AllowedExist
    <2>8. OneConsumerPerApp'
        BY <1>2, <2>3, <2>4 DEF AccessInv, OneConsumerPerApp, ConsumerConflict
    <2>9. DetailsNameItsConsumer'
        BY <1>2, <2>1, <2>4 DEF AccessInv, DetailsNameItsConsumer, central, TypeOK
    <2>10. WorksOnRequest'
        BY <2>1, <2>2, OutcomeAssumption DEF AccessInv, WorksOnRequest, central, CurPair, CurWs,
            ProvisionSteps, DeprovisionSteps, WithoutApp, AppSteps
    <2>11. ActsForItsConsumer'
        BY <2>1, <2>2, <2>3, <2>4, NoneAssumption DEF ActsForItsConsumer, CurWs, WithoutApp
    <2>12. ListingIsFresh' /\ RevokedBeforeReport'
        BY <2>1, <2>2 DEF ListingIsFresh, RevokedBeforeReport
    <2>13. NoAccessWithoutRequest'
        <3>1. ASSUME NEW a \in Apps, NEW r \in Routes, LetIn(a, r)'
              PROVE  LetIn(a, r)
            <4>1. PICK d \in ConsumerIds : /\ consumers'[d] # None /\ consumers'[d].ws = WorkspaceOf[r]
                                           /\ consumers'[d].username = a /\ HasGroup(r, d)
                BY <2>1, <3>1 DEF LetIn, HasGroup
            <4>2. d # c
                BY <1>2, <4>1 DEF AccessInv, AllowedExist, HasGroup
            <4>. QED
                BY <2>4, <4>1, <4>2 DEF LetIn
        <3>. QED
            BY <2>1, <3>1 DEF AccessInv, NoAccessWithoutRequest, central
    <2>. QED
        BY <2>5, <2>6, <2>7, <2>8, <2>9, <2>10, <2>11, <2>12, <2>13 DEF AccessInv
<1>. QED
    BY <1>1, <1>2 DEF CreateConsumer

(* AddConsumerACL, provisioning.go 42-61.                                    *)
LEMMA AddConsumerACLStep ==
    ASSUME AccessInv, AddConsumerACL
    PROVE  AccessInv'
<1>1. /\ pc = "addGroup" /\ pc' = "saveDetails" /\ outcome' = None
      /\ UNCHANGED <<plugins, central, cur, appID, listed>>
      /\ Fault \/ UNCHANGED faults
    BY DEF AddConsumerACL, Jump, Goto
<1>2. cur # None /\ appID \in ConsumerIds /\ consumers[appID] \in Consumer /\ cur.op = "provision"
    BY <1>1, Provisioning
    DEF AccessInv, ActsForItsConsumer, TypeOK, ProvisionSteps, WithoutApp
<1>3. /\ consumers' \in [ConsumerIds -> Consumer \cup {None}]
      /\ \A c \in ConsumerIds : /\ consumers'[c] = None <=> consumers[c] = None
                                /\ consumers[c] # None => /\ consumers'[c].ws = consumers[c].ws
                                                          /\ consumers'[c].username = consumers[c].username
    <2>1. CASE UNCHANGED consumers
        BY <2>1 DEF AccessInv, TypeOK
    <2>2. CASE consumers' = [consumers EXCEPT ![appID].groups = @ \cup {appID}]
        <3>1. /\ consumers'[appID] \in Consumer
              /\ consumers'[appID].ws = consumers[appID].ws
              /\ consumers'[appID].username = consumers[appID].username
              /\ \A c \in ConsumerIds \ {appID} : consumers'[c] = consumers[c]
            BY <1>2, <2>2 DEF AccessInv, TypeOK, Consumer
        <3>2. consumers' \in [ConsumerIds -> Consumer \cup {None}]
            BY <1>2, <2>2, <3>1 DEF AccessInv, TypeOK
        <3>. QED
            BY <1>2, <3>1, <3>2, NoRecordAssumption
    <2>. QED
        BY <2>1, <2>2 DEF AddConsumerACL
<1>4. TypeOK'
    BY <1>1, <1>3, FaultsBounded DEF AccessInv, TypeOK, central, Steps
<1>5. AclShape' /\ AllowedExist'
    BY <1>1, <1>3 DEF AccessInv, AclShape, AllowedExist
<1>6. OneConsumerPerApp' /\ DetailsNameItsConsumer'
    BY <1>1, <1>3 DEF AccessInv, OneConsumerPerApp, DetailsNameItsConsumer, central, TypeOK
<1>7. WorksOnRequest'
    BY <1>1 DEF AccessInv, WorksOnRequest, central, CurPair, CurWs, ProvisionSteps,
        DeprovisionSteps, WithoutApp, AppSteps
<1>8. ActsForItsConsumer'
    BY <1>1, <1>2, <1>3 DEF AccessInv, ActsForItsConsumer, CurWs, WithoutApp
<1>9. ListingIsFresh' /\ RevokedBeforeReport'
    BY <1>1 DEF ListingIsFresh, RevokedBeforeReport
<1>10. NoAccessWithoutRequest'
    <2>1. ASSUME NEW a \in Apps, NEW r \in Routes, LetIn(a, r)' PROVE LetIn(a, r)
        BY <1>1, <1>3, <2>1 DEF LetIn, HasGroup
    <2>. QED
        BY <1>1, <2>1 DEF AccessInv, NoAccessWithoutRequest, central
<1>. QED
    BY <1>4, <1>5, <1>6, <1>7, <1>8, <1>9, <1>10 DEF AccessInv

(* updateManagedAppDetails, access.go 225-232.                               *)
LEMMA UpdateManagedAppDetailsStep ==
    ASSUME AccessInv, UpdateManagedAppDetails
    PROVE  AccessInv'
<1>1. /\ pc = "saveDetails" /\ UNCHANGED <<kong, status, quota, cur, appID, listed>>
      /\ Fault \/ UNCHANGED faults
      /\ pc' \in {"report", "listForGrant"}
      /\ pc' = "listForGrant" => ~AclDisable /\ outcome' = None /\ quota[CurPair] # Weekly
      /\ pc' = "report" => outcome' \in {"success", "failed"}
    BY DEF CurPair, UpdateManagedAppDetails, Jump, AfterApp, Finish, Goto, Failure
<1>2. /\ cur # None /\ cur \in CurRequest /\ cur.app \in Apps /\ CurWs \in Workspaces
      /\ cur.op = "provision"
    BY <1>1, Provisioning DEF ProvisionSteps
<1>3. /\ appID \in ConsumerIds /\ consumers[appID] # None
      /\ consumers[appID].ws = CurWs /\ consumers[appID].username = cur.app
    BY <1>1, <1>2 DEF AccessInv, ActsForItsConsumer, TypeOK, WithoutApp
<1>4. /\ details' \in [Apps -> [Workspaces -> ConsumerIds \cup {None}]]
      /\ \A a \in Apps, w \in Workspaces :
            details'[a][w] = IF details' # details /\ a = cur.app /\ w = CurWs THEN appID
                             ELSE details[a][w]
    <2>1. CASE UNCHANGED details
        BY <2>1 DEF AccessInv, TypeOK
    <2>2. CASE details' = [details EXCEPT ![cur.app][CurWs] = appID]
        <3>1. details[cur.app] \in [Workspaces -> ConsumerIds \cup {None}]
            BY <1>2 DEF AccessInv, TypeOK
        <3>2. details' = [details EXCEPT ![cur.app] = [details[cur.app] EXCEPT ![CurWs] = appID]]
            BY <2>2
        <3>3. [details[cur.app] EXCEPT ![CurWs] = appID] \in [Workspaces -> ConsumerIds \cup {None}]
            BY <1>2, <1>3, <3>1
        <3>4. details' \in [Apps -> [Workspaces -> ConsumerIds \cup {None}]]
            BY <3>2, <3>3 DEF AccessInv, TypeOK
        <3>. QED
            BY <1>2, <3>1, <3>2, <3>4 DEF AccessInv, TypeOK
    <2>. QED
        BY <2>1, <2>2 DEF UpdateManagedAppDetails
<1>5. TypeOK'
    BY <1>1, <1>4, FaultsBounded DEF AccessInv, TypeOK, kong, Steps
<1>6. AclShape' /\ AllowedExist' /\ OneConsumerPerApp'
    BY <1>1 DEF AccessInv, AclShape, AllowedExist, OneConsumerPerApp, kong
<1>7. DetailsNameItsConsumer'
    BY <1>1, <1>3, <1>4 DEF AccessInv, DetailsNameItsConsumer, kong
<1>8. WorksOnRequest' /\ ActsForItsConsumer'
    BY <1>1, <1>2, <1>3, OutcomeAssumption
    DEF AccessInv, WorksOnRequest, ActsForItsConsumer, kong, CurPair, CurWs, ProvisionSteps,
        DeprovisionSteps, WithoutApp, AppSteps
<1>9. ListingIsFresh' /\ RevokedBeforeReport'
    BY <1>1, <1>2 DEF ListingIsFresh, RevokedBeforeReport
<1>10. NoAccessWithoutRequest'
    BY <1>1 DEF AccessInv, NoAccessWithoutRequest, LetIn, HasGroup, kong
<1>. QED
    BY <1>5, <1>6, <1>7, <1>8, <1>9, <1>10 DEF AccessInv

(* What holds while a handler works on the plugins of its route.             *)
LEMMA OnPlugins ==
    ASSUME AccessInv,
           pc \in (ProvisionSteps \cup DeprovisionSteps) \ AppSteps
    PROVE  /\ cur # None /\ cur \in CurRequest /\ cur.app \in Apps /\ cur.route \in Routes
           /\ CurWs = WorkspaceOf[cur.route] /\ CurWs \in Workspaces /\ ~AclDisable
           /\ appID \in ConsumerIds /\ consumers[appID] # None
           /\ consumers[appID].ws = CurWs /\ consumers[appID].username = cur.app
           /\ pc \in ProvisionSteps => cur.op = "provision"
           /\ pc \in DeprovisionSteps => cur.op = "deprovision"
<1>1. cur # None /\ cur \in CurRequest /\ pc # "report"
    BY DEF AccessInv, TypeOK, WorksOnRequest, ProvisionSteps, DeprovisionSteps
<1>2. cur.app \in Apps /\ cur.route \in Routes
    BY <1>1 DEF CurRequest
<1>. QED
    BY <1>1, <1>2, WorkspaceOfAssumption
    DEF AccessInv, WorksOnRequest, ActsForItsConsumer, CurWs, AppSteps, WithoutApp, TypeOK

(* The ACL plugin of the route, as the lookup finds it in a listing of the   *)
(* workspace: the agent sees its group if and only if Kong has it.           *)
LEMMA AclInListing ==
    ASSUME AccessInv, NEW w \in Workspaces, NEW r \in Routes, w = WorkspaceOf[r],
           NEW c \in ConsumerIds
    PROVE  LET list  == ListAll(plugins, w)
               found == getSpecificPlugin(list, None, r, None, ACL)
           IN  /\ list \in PluginTable
               /\ found = None => ~HasGroup(r, c)
               /\ found # None =>
                    /\ found \in Named(list, ACL) /\ found \in Named(plugins, ACL)
                    /\ list[found] = plugins[found] /\ plugins[found].route = r
                    /\ HasGroup(r, c) <=> c \in list[found].allow
<1> DEFINE list   == ListAll(plugins, w)
           found  == getSpecificPlugin(list, None, r, None, ACL)
           wanted == ScopedTo(list, None, r, None, ACL)
<1>1. list \in PluginTable
    BY ListAllIsTable DEF AccessInv, TypeOK
<1>2. \A i \in Named(list, ACL) : i \in Named(plugins, ACL) /\ list[i] = plugins[i]
    BY DEF ListAll, Named, Present
<1>3. \A i \in Named(list, ACL) : /\ list[i].consumer = None
                                  /\ list[i].route # None => list[i].service = None
    BY <1>2 DEF AccessInv, AclShape
<1>4. IF wanted = {} THEN found = None ELSE found \in wanted
    <2>. HIDE DEF list
    <2>. QED BY <1>1, <1>3, AclLookupIsExact
<1>5. \A i \in Named(plugins, ACL) : plugins[i].route = r => i \in wanted
    <2>. SUFFICES ASSUME NEW i \in Named(plugins, ACL), plugins[i].route = r PROVE i \in wanted
        OBVIOUS
    <2>1. plugins[i].ws = w /\ plugins[i].service = None /\ plugins[i].consumer = None
        BY NoneAssumption DEF AccessInv, AclShape
    <2>2. i \in Named(list, ACL) /\ list[i] = plugins[i]
        BY <2>1 DEF ListAll, Named, Present
    <2>. QED
        BY <2>1, <2>2 DEF ScopedTo
<1>6. CASE wanted = {}
    BY <1>1, <1>4, <1>5, <1>6 DEF HasGroup
<1>7. CASE wanted # {}
    <2>1. found \in Named(list, ACL) /\ list[found].route = r
        BY <1>4, <1>7 DEF ScopedTo
    <2>2. found \in Named(plugins, ACL) /\ list[found] = plugins[found]
        BY <1>2, <2>1
    <2>3. \A i \in Named(plugins, ACL) : plugins[i].route = r => i = found
        BY <2>1, <2>2, NoneAssumption DEF AccessInv, AclShape
    <2>4. found # None
        BY <2>1, NoneAssumption, MaxPluginAssumption DEF Named, Present, PluginIds
    <2>. QED
        BY <1>1, <2>1, <2>2, <2>3, <2>4 DEF HasGroup
<1>. QED
    BY <1>6, <1>7

(* A handler's step on the plugins keeps the invariant if it keeps the shape *)
(* of the ACL plugins, lets in nobody but the application it provisions, and *)
(* has taken its application out when it says so.                            *)
LEMMA HandlerStep ==
    ASSUME AccessInv, pc \in (ProvisionSteps \cup DeprovisionSteps) \ AppSteps,
           UNCHANGED <<consumers, central, cur, appID>>, Fault \/ UNCHANGED faults,
           plugins' \in PluginTable, listed' \in PluginTable \cup {None},
           \/ pc' = "report" /\ outcome' \in {"success", "failed"}
           \/ pc' \in ProvisionSteps \ AppSteps /\ pc \in ProvisionSteps /\ outcome' = None
           \/ pc' \in DeprovisionSteps /\ pc \in DeprovisionSteps /\ outcome' = None,
           AclShape', AllowedExist', ListingIsFresh',
           \A r \in Routes, c \in ConsumerIds :
                HasGroup(r, c)' =>
                    HasGroup(r, c) \/ (r = cur.route /\ c = appID /\ pc \in ProvisionSteps),
           pc \in DeprovisionSteps /\ (pc' = "disableQuota" \/ outcome' = "success")
                => ~HasGroup(cur.route, appID)'
    PROVE  AccessInv'
<1>1. /\ cur # None /\ cur \in CurRequest /\ cur.app \in Apps /\ cur.route \in Routes
      /\ CurWs = WorkspaceOf[cur.route] /\ CurWs \in Workspaces /\ ~AclDisable
      /\ appID \in ConsumerIds /\ consumers[appID] # None
      /\ consumers[appID].ws = CurWs /\ consumers[appID].username = cur.app
      /\ pc \in ProvisionSteps => cur.op = "provision"
      /\ pc \in DeprovisionSteps => cur.op = "deprovision"
    BY OnPlugins
<1>2. TypeOK'
    <2>1. pc' \in Steps /\ outcome' \in {"success", "failed", None}
        BY DEF Steps, ProvisionSteps, DeprovisionSteps
    <2>. QED
        BY <2>1, FaultsBounded DEF AccessInv, TypeOK, central
<1>3. OneConsumerPerApp' /\ DetailsNameItsConsumer'
    BY DEF AccessInv, OneConsumerPerApp, DetailsNameItsConsumer, central
<1>4. WorksOnRequest'
    BY <1>1, OutcomeAssumption DEF AccessInv, WorksOnRequest, central, CurPair, CurWs,
        ProvisionSteps, DeprovisionSteps, WithoutApp, AppSteps
<1>5. ActsForItsConsumer'
    BY <1>1, NoneAssumption DEF ActsForItsConsumer, CurWs
<1>6. RevokedBeforeReport'
    BY <1>1, NoneAssumption DEF RevokedBeforeReport, ProvisionSteps, DeprovisionSteps
<1>7. NoAccessWithoutRequest'
    <2>1. ASSUME NEW a \in Apps, NEW r \in Routes, LetIn(a, r)', ~LetIn(a, r)
          PROVE  status[<<a, r>>] = "pending"
        <3>1. PICK c \in ConsumerIds : /\ consumers[c] # None /\ consumers[c].ws = WorkspaceOf[r]
                                       /\ consumers[c].username = a /\ HasGroup(r, c)'
            BY <2>1 DEF LetIn
        <3>2. ~HasGroup(r, c)
            BY <2>1, <3>1 DEF LetIn
        <3>3. r = cur.route /\ a = cur.app /\ pc \in ProvisionSteps
            BY <1>1, <3>1, <3>2
        <3>. QED
            BY <3>3, Provisioning
    <2>. QED
        BY <2>1 DEF AccessInv, NoAccessWithoutRequest, central
<1>. QED
    BY <1>2, <1>3, <1>4, <1>5, <1>6, <1>7 DEF AccessInv

(* What a listing leaves to be checked: nothing in Kong has changed.         *)
LEMMA ListingStep ==
    ASSUME AccessInv, pc \in {"listForGrant", "listForQuota", "listForRevoke"},
           UNCHANGED <<kong, central, cur, appID, faults>>,
           listed' = ListAll(plugins, CurWs),
           \/ pc' = "report" /\ outcome' \in {"success", "failed"}
           \/ /\ pc' \in {"createACL", "updateACL", "listForQuota", "enableQuota", "createQuota"}
              /\ pc # "listForRevoke" /\ outcome' = None
           \/ pc' = "revokeACL" /\ pc = "listForRevoke" /\ outcome' = None,
           pc' \in {"updateACL", "revokeACL"} => AclOf(listed') # None,
           pc' = "enableQuota" => RateOf(listed') # None,
           pc = "listForRevoke" /\ outcome' = "success" => ~HasGroup(cur.route, appID)
    PROVE  AccessInv'
<1>1. /\ CurWs = WorkspaceOf[cur.route] /\ CurWs \in Workspaces /\ cur.route \in Routes
      /\ appID \in ConsumerIds
    BY OnPlugins DEF ProvisionSteps, DeprovisionSteps, AppSteps, WithoutApp
<1>2. listed' \in PluginTable /\ plugins' \in PluginTable
    BY ListAllIsTable, KongAndCentralKept DEF AccessInv, TypeOK
<1>3. /\ \A i \in Named(listed', RateLimiting) : i \in Named(plugins, RateLimiting)
      /\ AclOf(listed') # None =>
            /\ AclOf(listed') \in Named(listed', ACL) \cap Named(plugins, ACL)
            /\ listed'[AclOf(listed')] = plugins[AclOf(listed')]
            /\ plugins[AclOf(listed')].route = cur.route
    <2>1. \A i \in Named(listed', RateLimiting) : i \in Named(plugins, RateLimiting)
        BY DEF ListAll, Named, Present
    <2>. QED
        BY <1>1, <2>1, AclInListing DEF AclOf
<1>4. AclOf(listed)' = AclOf(listed') /\ RateOf(listed)' = RateOf(listed')
    BY DEF AclOf, RateOf
<1>5. ListingIsFresh'
    BY <1>2, <1>3, <1>4 DEF ListingIsFresh, kong, Named, Present
<1>6. AclShape' /\ AllowedExist'
    BY KongAndCentralKept
<1>7. \A r \in Routes, c \in ConsumerIds : HasGroup(r, c)' = HasGroup(r, c)
    BY DEF HasGroup, kong
<1>8. /\ pc \in (ProvisionSteps \cup DeprovisionSteps) \ AppSteps
      /\ \/ pc' = "report" /\ outcome' \in {"success", "failed"}
         \/ pc' \in ProvisionSteps \ AppSteps /\ pc \in ProvisionSteps /\ outcome' = None
         \/ pc' \in DeprovisionSteps /\ pc \in DeprovisionSteps /\ outcome' = None
      /\ pc' # "disableQuota"
      /\ pc \in DeprovisionSteps => pc = "listForRevoke"
    BY DEF ProvisionSteps, DeprovisionSteps, AppSteps, WithoutApp
<1>. QED
    BY <1>1, <1>2, <1>5, <1>6, <1>7, <1>8, HandlerStep DEF kong

(* The listing of AddRouteACL, provisioning.go 127-158.                      *)
LEMMA ListForGrantStep ==
    ASSUME AccessInv, ListForGrant
    PROVE  AccessInv'
<1>1. CASE Jump(Failure) /\ UNCHANGED listed /\ Fault
    BY <1>1, FailureStep DEF ListForGrant, ListPlugins, ProvisionSteps
<1>2. CASE listed' = ListAll(plugins, CurWs) /\ Jump(GrantFrom(listed')) /\ UNCHANGED faults
    <2>1. /\ pc = "listForGrant" /\ UNCHANGED <<kong, central, cur, appID>>
          /\ \/ pc' = "report" /\ outcome' \in {"success", "failed"}
             \/ pc' \in {"createACL", "updateACL", "listForQuota"} /\ outcome' = None
          /\ pc' = "updateACL" => AclOf(listed') # None
        BY <1>2 DEF ListForGrant, ListPlugins, GrantFrom, AfterGrant, Jump, Goto, Finish
    <2>. QED
        BY <1>2, <2>1, ListingStep
<1>. QED
    BY <1>1, <1>2 DEF ListForGrant, ListPlugins

(* The listing of AddQuota, provisioning.go 220-234.                         *)
LEMMA ListForQuotaStep ==
    ASSUME AccessInv, ListForQuota
    PROVE  AccessInv'
<1>1. CASE Jump(Failure) /\ UNCHANGED listed /\ Fault
    BY <1>1, FailureStep DEF ListForQuota, ListPlugins, ProvisionSteps
<1>2. CASE listed' = ListAll(plugins, CurWs) /\ Jump(LimitFrom(listed')) /\ UNCHANGED faults
    <2>1. /\ pc = "listForQuota" /\ UNCHANGED <<kong, central, cur, appID>>
          /\ \/ pc' = "report" /\ outcome' \in {"success", "failed"}
             \/ pc' \in {"createQuota", "enableQuota"} /\ outcome' = None
          /\ pc' = "enableQuota" => RateOf(listed') # None
        BY <1>2 DEF ListForQuota, ListPlugins, LimitFrom, Jump, Goto, Finish
    <2>. QED
        BY <1>2, <2>1, ListingStep
<1>. QED
    BY <1>1, <1>2 DEF ListForQuota, ListPlugins

(* The listing of RemoveRouteACL: access found to be denied is denied in     *)
(* Kong (provisioning.go 172-193).                                           *)
LEMMA ListForRevokeStep ==
    ASSUME AccessInv, ListForRevoke
    PROVE  AccessInv'
<1>1. CASE Jump(Failure) /\ UNCHANGED listed /\ Fault
    BY <1>1, FailureStep DEF ListForRevoke, ListPlugins, DeprovisionSteps
<1>2. CASE listed' = ListAll(plugins, CurWs) /\ Jump(RevokeFrom(listed')) /\ UNCHANGED faults
    <2>1. /\ pc = "listForRevoke" /\ UNCHANGED <<kong, central, cur, appID>>
          /\ \/ pc' = "report" /\ outcome' = "failed"
             \/ /\ pc' = "report" /\ outcome' = "success"
                /\ AclOf(listed') # None /\ ~checkAccess(listed'[AclOf(listed')], appID)
             \/ pc' = "revokeACL" /\ outcome' = None
          /\ pc' = "revokeACL" => AclOf(listed') # None
        BY <1>2 DEF ListForRevoke, ListPlugins, RevokeFrom, Jump, Goto, Finish, Failure
    <2>2. /\ CurWs = WorkspaceOf[cur.route] /\ CurWs \in Workspaces /\ cur.route \in Routes
          /\ appID \in ConsumerIds
        BY <2>1, OnPlugins DEF DeprovisionSteps, AppSteps, WithoutApp
    <2>3. outcome' = "success" => ~HasGroup(cur.route, appID)
        BY <1>2, <2>1, <2>2, OutcomeAssumption, AclInListing DEF AclOf, checkAccess
    <2>. QED
        BY <1>2, <2>1, <2>3, ListingStep
<1>. QED
    BY <1>1, <1>2 DEF ListForRevoke, ListPlugins

(* A plugin overwritten by one of the same name and scope.                   *)
LEMMA PluginWritten ==
    ASSUME AccessInv, NEW i \in Present(plugins), NEW p \in Plugin,
           \A field \in {"name", "ws", "service", "route", "consumer"} :
                p[field] = plugins[i][field],
           plugins' = [plugins EXCEPT ![i] = p]
    PROVE  /\ plugins' \in PluginTable
           /\ plugins'[i] = p
           /\ \A j \in PluginIds \ {i} : plugins'[j] = plugins[j]
           /\ \A name \in {ACL, RateLimiting} : Named(plugins, name)' = Named(plugins, name)
           /\ AclShape'
<1>1. i \in PluginIds
    BY DEF Present
<1>2. /\ plugins' \in PluginTable
      /\ plugins'[i] = p
      /\ \A j \in PluginIds \ {i} : plugins'[j] = plugins[j]
    BY <1>1 DEF AccessInv, TypeOK, PluginTable
<1>3. Present(plugins)' = Present(plugins)
    BY <1>1, <1>2, NoPluginAssumption DEF Present
<1>4. \A name \in {ACL, RateLimiting} : Named(plugins, name)' = Named(plugins, name)
    BY <1>1, <1>2, <1>3 DEF Named, Present
<1>5. AclShape'
    BY <1>1, <1>2, <1>4 DEF AccessInv, AclShape, Named, Present
<1>. QED
    BY <1>2, <1>4, <1>5

(* createACL, provisioning.go 277-294.                                       *)
LEMMA CreateACLStep ==
    ASSUME AccessInv, CreateACL
    PROVE  /\ AccessInv'
           /\ GroupsKept \/ GroupMoved(TRUE)
           /\ pc' = "listForQuota" \/ outcome' = "success" => GroupMoved(TRUE)
<1>1. CASE UNCHANGED kong /\ Jump(Failure) /\ UNCHANGED <<central, cur, appID, listed>>
           /\ (Fault \/ UNCHANGED faults)
    <2>1. pc' = "report" /\ outcome' = "failed"
        BY <1>1 DEF Jump, Failure, Finish
    <2>2. GroupsKept
        BY <1>1 DEF GroupsKept, HasGroup, kong
    <2>. QED
        BY <1>1, <2>1, <2>2, FailureStep DEF CreateACL, ProvisionSteps
<1> DEFINE p == NewPlugin(ACL, CurWs, cur.route, None, {appID}, None)
<1>2. ASSUME ~Occupied(p), NEW i \in PluginIds \ Present(plugins),
             plugins' = [plugins EXCEPT ![i] = p], UNCHANGED consumers,
             \/ Jump(AfterGrant) /\ UNCHANGED faults
             \/ Jump(Failure) /\ Fault,
             UNCHANGED <<central, cur, appID, listed>>
      PROVE  AccessInv' /\ GroupMoved(TRUE)
    <2>1. /\ pc = "createACL"
          /\ \/ pc' = "report" /\ outcome' \in {"success", "failed"}
             \/ pc' = "listForQuota" /\ outcome' = None
        BY <1>2 DEF CreateACL, Jump, AfterGrant, Failure, Finish, Goto
    <2>2. pc \in (ProvisionSteps \cup DeprovisionSteps) \ AppSteps /\ pc \in ProvisionSteps
          /\ pc \notin DeprovisionSteps
        BY <2>1 DEF ProvisionSteps, DeprovisionSteps, AppSteps, WithoutApp
    <2>3. /\ CurWs = WorkspaceOf[cur.route] /\ CurWs \in Workspaces /\ cur.route \in Routes
          /\ appID \in ConsumerIds /\ consumers[appID] # None /\ ~AclDisable
        BY <2>2, OnPlugins
    <2>4. {appID} \in SUBSET (ConsumerIds \cup Groups) /\ WorkspaceOf[cur.route] # None
        BY <2>3, NoneAssumption
    <2>5. /\ plugins' \in PluginTable
          /\ AclShape'
          /\ \A q \in Routes, c \in ConsumerIds :
                HasGroup(q, c)' <=> HasGroup(q, c) \/ (q = cur.route /\ c \in {appID})
          /\ Named(plugins, ACL)' = Named(plugins, ACL) \cup {i}
          /\ \A j \in PluginIds \ {i} : plugins'[j] = plugins[j]
          /\ plugins'[i].route = cur.route /\ plugins'[i].allow = {appID}
          /\ \A name \in {ACL, RateLimiting} : Named(plugins, name) \subseteq PluginIds \ {i}
        <3>1. PICK r \in Routes, allow \in SUBSET (ConsumerIds \cup Groups) :
                r = cur.route /\ allow = {appID}
            BY <2>3
        <3>2. i \in PluginIds \ Present(plugins) /\ r \in Routes
              /\ allow \in SUBSET (ConsumerIds \cup Groups)
            BY <1>2, <3>1
        <3>3. /\ ~Occupied(NewPlugin(ACL, WorkspaceOf[r], r, None, allow, None))
              /\ plugins' = [plugins EXCEPT ![i] = NewPlugin(ACL, WorkspaceOf[r], r, None, allow, None)]
            BY <1>2, <3>1 DEF CurWs
        <3>4. WorkspaceOf[r] # None
            BY <2>3, <3>1, NoneAssumption
        <3>. HIDE DEF p
        <3>5. /\ plugins' \in PluginTable
              /\ AclShape'
              /\ \A q \in Routes, c \in ConsumerIds :
                    HasGroup(q, c)' <=> HasGroup(q, c) \/ (q = r /\ c \in allow)
              /\ Named(plugins, RateLimiting)' = Named(plugins, RateLimiting)
              /\ Named(plugins, ACL)' = Named(plugins, ACL) \cup {i}
              /\ \A j \in PluginIds \ {i} : plugins'[j] = plugins[j]
              /\ plugins'[i].route = r /\ plugins'[i].allow = allow
              /\ \A name \in {ACL, RateLimiting} : Named(plugins, name) \subseteq PluginIds \ {i}
            BY <3>2, <3>3, <3>4, AclAdded, Zenon
        <3>. QED
            BY <3>1, <3>5
    <2>6. AllowedExist'
        BY <1>2, <2>3, <2>5, NoneAssumption, ZenonT(30) DEF AccessInv, AllowedExist
    <2>7. ListingIsFresh'
        BY <2>1 DEF ListingIsFresh
    <2>8. /\ \/ pc' = "report" /\ outcome' \in {"success", "failed"}
             \/ pc' \in ProvisionSteps \ AppSteps /\ pc \in ProvisionSteps /\ outcome' = None
          /\ listed' \in PluginTable \cup {None}
          /\ Fault \/ UNCHANGED faults
        BY <1>2, <2>1, <2>2 DEF ProvisionSteps, AppSteps, WithoutApp, AccessInv, TypeOK
    <2>. QED
        BY <1>2, <2>2, <2>5, <2>6, <2>7, <2>8, HandlerStep DEF GroupMoved
<1>. QED
    BY <1>1, <1>2 DEF CreateACL, CreateForRoute, Write, Refused

(* updateOrDeleteACL with a group more, provisioning.go 306-319.             *)
LEMMA UpdateACLStep ==
    ASSUME AccessInv, UpdateACL
    PROVE  /\ AccessInv'
           /\ GroupsKept \/ GroupMoved(TRUE)
           /\ pc' = "listForQuota" \/ outcome' = "success" => GroupMoved(TRUE)
<1>1. CASE UNCHANGED kong /\ Jump(Failure) /\ UNCHANGED <<central, cur, appID, listed>>
           /\ (Fault \/ UNCHANGED faults)
    <2>1. pc' = "report" /\ outcome' = "failed"
        BY <1>1 DEF Jump, Failure, Finish
    <2>2. GroupsKept
        BY <1>1 DEF GroupsKept, HasGroup, kong
    <2>. QED
        BY <1>1, <2>1, <2>2, FailureStep DEF UpdateACL, ProvisionSteps
<1> DEFINE i == AclOf(listed)
           p == [listed[i] EXCEPT !.allow = @ \cup {appID}, !.enabled = TRUE]
<1>2. ASSUME plugins' = [plugins EXCEPT ![i] = p], UNCHANGED consumers,
             \/ Jump(AfterGrant) /\ UNCHANGED faults
             \/ Jump(Failure) /\ Fault,
             UNCHANGED <<central, cur, appID, listed>>
      PROVE  AccessInv' /\ GroupMoved(TRUE)
    <2>1. /\ pc = "updateACL"
          /\ \/ pc' = "report" /\ outcome' \in {"success", "failed"}
             \/ pc' = "listForQuota" /\ outcome' = None
        BY <1>2 DEF UpdateACL, Jump, AfterGrant, Failure, Finish, Goto
    <2>2. pc \in (ProvisionSteps \cup DeprovisionSteps) \ AppSteps /\ pc \in ProvisionSteps
          /\ pc \notin DeprovisionSteps
        BY <2>1 DEF ProvisionSteps, DeprovisionSteps, AppSteps, WithoutApp
    <2>3. /\ cur.route \in Routes /\ appID \in ConsumerIds /\ consumers[appID] # None /\ ~AclDisable
        BY <2>2, OnPlugins
    <2>4. /\ listed \in PluginTable /\ i \in Named(listed, ACL) /\ i \in Named(plugins, ACL)
          /\ \A field \in {"ws", "service", "route", "consumer"} : listed[i][field] = plugins[i][field]
          /\ listed[i].route = cur.route
          /\ listed[i].allow \cap ConsumerIds = plugins[i].allow \cap ConsumerIds
        BY <2>1 DEF AccessInv, ListingIsFresh
    <2>. HIDE DEF i
    <2>5. /\ i \in Present(plugins) /\ i \in PluginIds
          /\ listed[i] \in Plugin /\ listed[i].name = ACL /\ plugins[i].name = ACL
        BY <2>4 DEF Named, Present, PluginTable
    <2>6. /\ p \in Plugin
          /\ \A field \in {"name", "ws", "service", "route", "consumer"} : p[field] = plugins[i][field]
          /\ p.allow \cap ConsumerIds = (plugins[i].allow \cap ConsumerIds) \cup {appID}
          /\ p.route = cur.route
        BY <2>3, <2>4, <2>5 DEF Plugin
    <2>. HIDE DEF p
    <2>7. /\ plugins' \in PluginTable
          /\ plugins'[i] = p
          /\ \A j \in PluginIds \ {i} : plugins'[j] = plugins[j]
          /\ \A name \in {ACL, RateLimiting} : Named(plugins, name)' = Named(plugins, name)
          /\ AclShape'
        BY <1>2, <2>5, <2>6, PluginWritten
    <2>8. AllowedExist'
        BY <1>2, <2>3, <2>4, <2>6, <2>7, NoneAssumption DEF AccessInv, AllowedExist, Named, Present
    <2>9. \A r \in Routes, c \in ConsumerIds :
                HasGroup(r, c)' <=> HasGroup(r, c) \/ (r = cur.route /\ c = appID)
        <3>1. plugins[i].route = cur.route /\ \A j \in Named(plugins, ACL) : j \in PluginIds
            BY <2>4 DEF Named, Present
        <3>. QED
            BY <2>3, <2>4, <2>6, <2>7, <3>1 DEF HasGroup
    <2>10. ListingIsFresh'
        BY <2>1 DEF ListingIsFresh
    <2>11. /\ \/ pc' = "report" /\ outcome' \in {"success", "failed"}
              \/ pc' \in ProvisionSteps \ AppSteps /\ pc \in ProvisionSteps /\ outcome' = None
           /\ listed' \in PluginTable \cup {None}
           /\ Fault \/ UNCHANGED faults
        BY <1>2, <2>1, <2>2 DEF ProvisionSteps, AppSteps, WithoutApp, AccessInv, TypeOK
    <2>. QED
        BY <1>2, <2>2, <2>7, <2>8, <2>9, <2>10, <2>11, HandlerStep DEF GroupMoved
<1>. QED
    BY <1>1, <1>2 DEF UpdateACL, UpdateForRoute, Write, Refused

(* addRateLimitingPlugin, provisioning.go 322-337.                           *)
LEMMA CreateQuotaStep ==
    ASSUME AccessInv, CreateQuota
    PROVE  AccessInv' /\ GroupsKept
<1>1. CASE UNCHANGED kong /\ Jump(Failure) /\ UNCHANGED <<central, cur, appID, listed>>
           /\ (Fault \/ UNCHANGED faults)
    BY <1>1, FailureStep DEF CreateQuota, ProvisionSteps, GroupsKept, HasGroup, kong
<1> DEFINE p == NewPlugin(RateLimiting, CurWs, cur.route, appID, {}, quota[CurPair])
<1>2. ASSUME NEW i \in PluginIds \ Present(plugins),
             plugins' = [plugins EXCEPT ![i] = p], UNCHANGED consumers,
             \/ Jump(Finish("success")) /\ UNCHANGED faults
             \/ Jump(Failure) /\ Fault,
             UNCHANGED <<central, cur, appID, listed>>
      PROVE  AccessInv' /\ GroupsKept
    <2>1. pc = "createQuota" /\ pc' = "report" /\ outcome' \in {"success", "failed"}
        BY <1>2 DEF CreateQuota, Jump, Failure, Finish
    <2>2. pc \in (ProvisionSteps \cup DeprovisionSteps) \ AppSteps /\ pc \in ProvisionSteps
          /\ pc \notin DeprovisionSteps
        BY <2>1 DEF ProvisionSteps, DeprovisionSteps, AppSteps, WithoutApp
    <2>3. /\ CurWs \in Workspaces /\ cur.app \in Apps /\ cur.route \in Routes
          /\ appID \in ConsumerIds
        BY <2>2, OnPlugins
    <2>4. quota[CurPair] \in Limits \cup {None}
        <3>1. quota[CurPair] # Weekly
            BY <2>1, <2>2, OnPlugins DEF AccessInv, WorksOnRequest, AppSteps, WithoutApp
        <3>2. CurPair \in Requests
            BY <2>3 DEF CurPair, Requests
        <3>. QED
            BY <3>1, <3>2, QuotasAssumption DEF AccessInv, TypeOK
    <2>5. p \in Plugin /\ p.name = RateLimiting
        BY <2>3, <2>4 DEF NewPlugin, Plugin
    <2>. HIDE DEF p
    <2>6. TypeOK
        BY DEF AccessInv
    <2>7. /\ plugins' \in PluginTable
          /\ plugins'[i] = p
          /\ \A j \in PluginIds \ {i} : plugins'[j] = plugins[j]
          /\ \A name \in {ACL, RateLimiting} :
                Named(plugins, name)' = IF name = p.name THEN Named(plugins, name) \cup {i}
                                        ELSE Named(plugins, name)
          /\ \A name \in {ACL, RateLimiting} : i \notin Named(plugins, name)
        BY <1>2, <2>5, <2>6, PluginAdded
    <2>8. /\ Named(plugins, ACL)' = Named(plugins, ACL)
          /\ \A j \in Named(plugins, ACL) : plugins'[j] = plugins[j]
        BY <2>5, <2>7 DEF ACL, RateLimiting, Named, Present
    <2>9. /\ AclShape' /\ AllowedExist'
          /\ \A r \in Routes, c \in ConsumerIds : HasGroup(r, c)' = HasGroup(r, c)
        BY <1>2, <2>8, AclKept
    <2>10. ListingIsFresh'
        BY <2>1 DEF ListingIsFresh
    <2>11. listed' \in PluginTable \cup {None} /\ (Fault \/ UNCHANGED faults)
        BY <1>2, <2>6 DEF TypeOK
    <2>. QED
        BY <1>2, <2>1, <2>2, <2>7, <2>9, <2>10, <2>11, HandlerStep DEF GroupsKept
<1>. QED
    BY <1>1, <1>2 DEF CreateQuota, CreateForRoute, Write, Refused

(* The switch of a rate limiting plugin, on or off.                          *)
LEMMA SwitchStep ==
    ASSUME AccessInv, pc \in {"enableQuota", "disableQuota"}, NEW enabled \in BOOLEAN,
           UpdateForRoute(cur.route, RateOf(listed),
                          [listed[RateOf(listed)] EXCEPT !.enabled = enabled],
                          Finish("success"), Failure)
    PROVE  AccessInv' /\ GroupsKept
<1>1. CASE UNCHANGED kong /\ Jump(Failure) /\ UNCHANGED <<central, cur, appID, listed>>
           /\ (Fault \/ UNCHANGED faults)
    BY <1>1, FailureStep DEF ProvisionSteps, DeprovisionSteps, GroupsKept, HasGroup, kong
<1> DEFINE i == RateOf(listed)
           p == [listed[i] EXCEPT !.enabled = enabled]
<1>2. ASSUME plugins' = [plugins EXCEPT ![i] = p], UNCHANGED consumers,
             \/ Jump(Finish("success")) /\ UNCHANGED faults
             \/ Jump(Failure) /\ Fault,
             UNCHANGED <<central, cur, appID, listed>>
      PROVE  AccessInv' /\ GroupsKept
    <2>1. pc' = "report" /\ outcome' \in {"success", "failed"}
        BY <1>2 DEF Jump, Failure, Finish
    <2>2. pc \in (ProvisionSteps \cup DeprovisionSteps) \ AppSteps
        BY DEF ProvisionSteps, DeprovisionSteps, AppSteps, WithoutApp
    <2>3. i \in Named(listed, RateLimiting) /\ i \in Named(plugins, RateLimiting)
          /\ listed \in PluginTable
        BY LookupInListing DEF AccessInv, ListingIsFresh, RateOf
    <2>. HIDE DEF i
    <2>4. i \in PluginIds /\ plugins[i] \in Plugin /\ plugins[i].name = RateLimiting /\ p \in Plugin
          /\ p.name = RateLimiting
        BY <2>3, SMTT(30) DEF Named, Present, PluginTable, AccessInv, TypeOK, Plugin
    <2>. HIDE DEF p
    <2>5. /\ plugins' \in PluginTable /\ plugins'[i] = p
          /\ \A j \in PluginIds \ {i} : plugins'[j] = plugins[j]
        BY <1>2, <2>4 DEF AccessInv, TypeOK, PluginTable
    <2>6. /\ Named(plugins, ACL)' = Named(plugins, ACL)
          /\ \A j \in Named(plugins, ACL) : plugins'[j] = plugins[j]
        BY <2>4, <2>5 DEF ACL, RateLimiting, Named, Present
    <2>7. /\ AclShape' /\ AllowedExist'
          /\ \A r \in Routes, c \in ConsumerIds : HasGroup(r, c)' = HasGroup(r, c)
        BY <1>2, <2>6, AclKept
    <2>8. ListingIsFresh'
        BY <2>1 DEF ListingIsFresh
    <2>9. /\ listed' \in PluginTable \cup {None}
          /\ Fault \/ UNCHANGED faults
        BY <1>2 DEF AccessInv, TypeOK
    <2>10. pc \in DeprovisionSteps => ~HasGroup(cur.route, appID)'
        <3>1. ASSUME pc \in DeprovisionSteps PROVE ~HasGroup(cur.route, appID) /\ cur.route \in Routes
                                                   /\ appID \in ConsumerIds
            BY <2>2, <3>1, OnPlugins DEF AccessInv, RevokedBeforeReport, DeprovisionSteps
        <3>2. cur' = cur /\ appID' = appID
            BY <1>2
        <3>3. ASSUME pc \in DeprovisionSteps, NEW j \in Named(plugins, ACL)',
                     plugins'[j].route = cur.route, appID \in plugins'[j].allow
              PROVE  FALSE
            BY <2>6, <3>1, <3>3 DEF HasGroup
        <3>. QED
            BY <3>2, <3>3, Zenon DEF HasGroup
    <2>. QED
        BY <1>2, <2>1, <2>2, <2>5, <2>7, <2>8, <2>9, <2>10, HandlerStep DEF GroupsKept
<1>. QED
    BY <1>1, <1>2 DEF UpdateForRoute, Write, Refused

(* The rate limiting plugin is enabled, provisioning.go 237-243.             *)
LEMMA EnableQuotaStep ==
    ASSUME AccessInv, EnableQuota
    PROVE  AccessInv' /\ GroupsKept
BY SwitchStep DEF EnableQuota

(* The rate limiting plugin is disabled, provisioning.go 210-217.            *)
LEMMA DisableQuotaStep ==
    ASSUME AccessInv, DisableQuota
    PROVE  AccessInv' /\ GroupsKept
BY SwitchStep DEF DisableQuota

(* updateOrDeleteACL with a group less: afterwards the consumer has no       *)
(* group on the route, whatever the operator did since the listing.          *)
LEMMA RevokeACLStep ==
    ASSUME AccessInv, RevokeACL
    PROVE  /\ AccessInv'
           /\ GroupsKept \/ GroupMoved(FALSE)
<1>1. CASE UNCHANGED kong /\ Jump(Failure) /\ UNCHANGED <<central, cur, appID, listed>>
           /\ (Fault \/ UNCHANGED faults)
    BY <1>1, FailureStep DEF RevokeACL, DeprovisionSteps, GroupsKept, HasGroup, kong
<1> DEFINE i    == AclOf(listed)
           left == listed[i].allow \ {appID}
           p    == [listed[i] EXCEPT !.allow = left, !.enabled = TRUE]
<1>2. ASSUME \/ left = {} /\ plugins' = [plugins EXCEPT ![i] = None]
             \/ plugins' = [plugins EXCEPT ![i] = p],
             UNCHANGED consumers,
             \/ Jump(AfterRevoke) /\ UNCHANGED faults
             \/ Jump(Failure) /\ Fault,
             UNCHANGED <<central, cur, appID, listed>>
      PROVE  AccessInv' /\ GroupMoved(FALSE)
    <2>1. /\ pc = "revokeACL"
          /\ \/ pc' = "report" /\ outcome' \in {"success", "failed"}
             \/ pc' = "disableQuota" /\ outcome' = None /\ RateOf(listed) # None
        BY <1>2 DEF RevokeACL, Jump, AfterRevoke, Failure, Finish, Goto
    <2>2. pc \in (ProvisionSteps \cup DeprovisionSteps) \ AppSteps /\ pc \in DeprovisionSteps
          /\ pc \notin ProvisionSteps
        BY <2>1 DEF ProvisionSteps, DeprovisionSteps, AppSteps, WithoutApp
    <2>3. /\ cur.route \in Routes /\ appID \in ConsumerIds
        BY <2>2, OnPlugins
    <2>4. /\ listed \in PluginTable /\ i \in Named(listed, ACL) /\ i \in Named(plugins, ACL)
          /\ \A field \in {"ws", "service", "route", "consumer"} : listed[i][field] = plugins[i][field]
          /\ listed[i].route = cur.route
          /\ listed[i].allow \cap ConsumerIds = plugins[i].allow \cap ConsumerIds
          /\ \A j \in Named(listed, RateLimiting) : j \in Named(plugins, RateLimiting)
        BY <2>1 DEF AccessInv, ListingIsFresh
    <2>. HIDE DEF i
    <2>5. /\ i \in Present(plugins) /\ i \in PluginIds
          /\ listed[i] \in Plugin /\ listed[i].name = ACL /\ plugins[i].name = ACL
        BY <2>4 DEF Named, Present, PluginTable
    <2>6. \A j \in Named(plugins, ACL) : plugins[j].route = cur.route => j = i
        BY <2>3, <2>4, NoneAssumption DEF AccessInv, AclShape
    <2>7. /\ plugins' \in PluginTable
          /\ \A j \in PluginIds \ {i} : plugins'[j] = plugins[j]
          /\ Named(plugins, ACL)' \subseteq Named(plugins, ACL)
          /\ Named(plugins, RateLimiting)' = Named(plugins, RateLimiting)
          /\ AclShape'
          /\ i \in Named(plugins, ACL)' =>
                /\ plugins'[i].route = cur.route
                /\ plugins'[i].allow \cap ConsumerIds = (plugins[i].allow \cap ConsumerIds) \ {appID}
          /\ Named(plugins, ACL) \ {i} \subseteq Named(plugins, ACL)'
          /\ (plugins[i].allow \cap ConsumerIds) \ {appID} # {} => i \in Named(plugins, ACL)'
        <3>1. CASE plugins' = [plugins EXCEPT ![i] = p]
            <4>1. /\ p \in Plugin
                  /\ \A field \in {"name", "ws", "service", "route", "consumer"} :
                        p[field] = plugins[i][field]
                  /\ p.allow \cap ConsumerIds = (plugins[i].allow \cap ConsumerIds) \ {appID}
                  /\ p.route = cur.route
                BY <2>3, <2>4, <2>5 DEF Plugin
            <4>. HIDE DEF p
            <4>2. /\ plugins' \in PluginTable
                  /\ plugins'[i] = p
                  /\ \A j \in PluginIds \ {i} : plugins'[j] = plugins[j]
                  /\ \A name \in {ACL, RateLimiting} : Named(plugins, name)' = Named(plugins, name)
                  /\ AclShape'
                BY <2>5, <3>1, <4>1, PluginWritten
            <4>. QED
                BY <2>4, <4>1, <4>2
        <3>2. CASE left = {} /\ plugins' = [plugins EXCEPT ![i] = None]
            <4>4. (plugins[i].allow \cap ConsumerIds) \ {appID} = {}
                BY <2>4, <3>2
            <4>. HIDE DEF p, left
            <4>1. /\ plugins' \in PluginTable /\ plugins'[i] = None
                  /\ \A j \in PluginIds \ {i} : plugins'[j] = plugins[j]
                BY <2>5, <3>2 DEF AccessInv, TypeOK, PluginTable
            <4>2. /\ Named(plugins, ACL)' = Named(plugins, ACL) \ {i}
                  /\ Named(plugins, RateLimiting)' = Named(plugins, RateLimiting)
                BY <2>5, <4>1 DEF Named, Present, ACL, RateLimiting
            <4>3. AclShape'
                BY <4>1, <4>2 DEF AccessInv, AclShape, Named, Present
            <4>. QED
                BY <4>1, <4>2, <4>3, <4>4
        <3>. QED
            BY <1>2, <3>1, <3>2
    <2>. HIDE DEF p, left
    <2>8. AllowedExist'
        BY <1>2, <2>4, <2>7 DEF AccessInv, AllowedExist, Named, Present
    <2>9. \A r \in Routes, c \in ConsumerIds : HasGroup(r, c)' => HasGroup(r, c)
        BY <2>4, <2>7 DEF HasGroup, Named, Present
    <2>10. ~HasGroup(cur.route, appID)'
        <3>. SUFFICES ASSUME NEW j \in Named(plugins, ACL)', plugins'[j].route = cur.route,
                             appID \in plugins'[j].allow
                      PROVE  FALSE
            BY <1>2 DEF HasGroup
        <3>1. j = i
            BY <2>6, <2>7 DEF Named, Present
        <3>. QED
            BY <2>3, <2>7, <3>1
    <2>11. GroupMoved(FALSE)
        <3>1. ASSUME NEW r \in Routes, NEW c \in ConsumerIds, ~(r = cur.route /\ c = appID),
                     HasGroup(r, c)
              PROVE  HasGroup(r, c)'
            <4>1. PICK j \in Named(plugins, ACL) : plugins[j].route = r /\ c \in plugins[j].allow
                BY <3>1 DEF HasGroup
            <4>2. CASE j = i
                BY <2>4, <2>7, <3>1, <4>1, <4>2 DEF HasGroup
            <4>3. CASE j # i
                <5>1. j \in PluginIds \ {i} /\ j \in Named(plugins, ACL)'
                    BY <2>7, <4>1, <4>3 DEF Named, Present
                <5>. QED
                    BY <2>7, <4>1, <5>1 DEF HasGroup
            <4>. QED
                BY <4>2, <4>3
        <3>2. ~HasGroup(cur.route, appID)' /\ UNCHANGED <<cur, appID>>
            BY <1>2, <2>10
        <3>. QED
            BY <2>9, <3>1, <3>2 DEF GroupMoved
    <2>12. ListingIsFresh'
        <3>1. RateOf(listed)' = RateOf(listed)
            BY <1>2 DEF RateOf
        <3>. QED
            BY <1>2, <2>1, <2>4, <2>7, <3>1 DEF ListingIsFresh
    <2>13. /\ \/ pc' = "report" /\ outcome' \in {"success", "failed"}
              \/ pc' \in DeprovisionSteps /\ pc \in DeprovisionSteps /\ outcome' = None
           /\ listed' \in PluginTable \cup {None}
           /\ Fault \/ UNCHANGED faults
        BY <1>2, <2>1, <2>2, <2>4 DEF DeprovisionSteps
    <2>14. ~HasGroup(cur.route, appID)' /\ UNCHANGED <<consumers, central, cur, appID>>
        BY <1>2, <2>10
    <2>. QED
        BY <2>2, <2>7, <2>8, <2>9, <2>11, <2>12, <2>13, <2>14, HandlerStep
<1>. QED
    BY <1>1, <1>2 DEF RevokeACL, UpdateForRoute, DeleteForRoute, Write, Refused

(* The invariant is inductive.                                               *)
THEOREM NextInv ==
    ASSUME AccessInv, [Next]_vars
    PROVE  AccessInv'
<1>1. CASE Handler
    BY <1>1, GetManagedApplicationStep, GetConsumerStep, CreateConsumerStep, AddConsumerACLStep,
       UpdateManagedAppDetailsStep, ListForGrantStep, CreateACLStep, UpdateACLStep,
       ListForQuotaStep, EnableQuotaStep, CreateQuotaStep, ListForRevokeStep, RevokeACLStep,
       DisableQuotaStep, ReportStep
    DEF Handler, ProvisionApp, AddRouteACL, AddQuota, RemoveRouteACL
<1>2. CASE UNCHANGED vars
    <2>1. UNCHANGED <<kong, central>> /\ UNCHANGED <<pc, cur, appID, listed, outcome, faults>>
        BY <1>2 DEF vars, agent
    <2>2. TypeOK'
        BY <2>1 DEF AccessInv, TypeOK, kong, central
    <2>3. WorksOnRequest' /\ ActsForItsConsumer' /\ ListingIsFresh' /\ RevokedBeforeReport'
        BY <2>1 DEF AccessInv, WorksOnRequest, ActsForItsConsumer, ListingIsFresh, RevokedBeforeReport,
            CurPair, CurWs, HasGroup, AclOf, RateOf, kong, central
    <2>. QED
        BY <2>1, <2>2, <2>3, KongAndCentralKept DEF AccessInv
<1>. QED
    BY <1>1, <1>2, StartStep, CrashStep, UsersStep, OperatorStep DEF Next

(* In every behaviour of the agent, of Kong and of Central, for any number of *)
(* applications, routes, workspaces, plugins and faults.                     *)
THEOREM AccessInvariant == Spec => []AccessInv
<1>1. Init => AccessInv
    BY InitInv
<1>2. AccessInv /\ [Next]_vars => AccessInv'
    BY NextInv
<1>. QED
    BY <1>1, <1>2, PTL DEF Spec

(* Types, and with them that what the agent records are consumers of Kong.   *)
THEOREM TypeCorrect == Spec => []TypeOK
<1>1. AccessInv => TypeOK
    BY DEF AccessInv
<1>. QED
    BY <1>1, AccessInvariant, PTL

(* No application is let in on a route whose access request does not exist   *)
(* or was answered as deprovisioned (provisioning.go 127-218).               *)
THEOREM AccessOnlyOnRequest == Spec => []NoAccessWithoutRequest
<1>1. AccessInv => NoAccessWithoutRequest
    BY DEF AccessInv
<1>. QED
    BY <1>1, AccessInvariant, PTL

(* The agent details of an application name, for each workspace, the         *)
(* consumer Kong has for it there (access.go 225-232).                       *)
THEOREM DetailsCorrect == Spec => []DetailsNameItsConsumer
<1>1. AccessInv => DetailsNameItsConsumer
    BY DEF AccessInv
<1>. QED
    BY <1>1, AccessInvariant, PTL

-----------------------------------------------------------------------------
(* AccessProvisioning implements AccessContract: what a step may do to the   *)
(* groups and the consumers of Kong, the invariant behind the answer         *)
(* "granted", and the refinement.                                            *)

(* A step that leaves the plugins alone leaves the groups alone.             *)
LEMMA PluginsKept ==
    ASSUME UNCHANGED plugins
    PROVE  GroupsKept
BY DEF GroupsKept, HasGroup

(* What a step does to the groups that Kong lets in: the agent gives one on  *)
(* the way of a provisioning, takes one on the way of a deprovisioning, and  *)
(* nobody else moves any.                                                    *)
LEMMA GroupsStep ==
    ASSUME AccessInv, [Next]_vars
    PROVE  \/ GroupsKept
           \/ /\ pc \in {"createACL", "updateACL"} /\ GroupMoved(TRUE)
              /\ UNCHANGED <<consumers, central>>
           \/ /\ pc = "revokeACL" /\ GroupMoved(FALSE)
              /\ UNCHANGED <<consumers, central>>
<1>1. CASE Start \/ Crash \/ Users \/ UNCHANGED vars
    <2>1. UNCHANGED plugins
        BY <1>1 DEF Start, StartProvision, StartDeprovision, Crash, Users, RequestAccess,
            DeleteAccess, Retry, vars, kong
    <2>. QED
        BY <2>1, PluginsKept
<1>2. CASE ProvisionApp \/ Report
    <2>1. UNCHANGED plugins
        BY <1>2 DEF ProvisionApp, GetManagedApplication, GetConsumer, CreateConsumer,
            AddConsumerACL, UpdateManagedAppDetails, Report, kong
    <2>. QED
        BY <2>1, PluginsKept
<1>3. CASE ListForGrant \/ ListForQuota \/ ListForRevoke
    <2>1. UNCHANGED plugins
        BY <1>3 DEF ListForGrant, ListForQuota, ListForRevoke, ListPlugins, kong
    <2>. QED
        BY <2>1, PluginsKept
<1>4. CASE CreateACL \/ UpdateACL
    <2>1. pc \in {"createACL", "updateACL"} /\ UNCHANGED <<consumers, central>>
        BY <1>4 DEF CreateACL, UpdateACL, CreateForRoute, UpdateForRoute, Write, Refused, kong
    <2>. QED
        BY <1>4, <2>1, CreateACLStep, UpdateACLStep
<1>5. CASE EnableQuota \/ CreateQuota \/ DisableQuota
    BY <1>5, EnableQuotaStep, CreateQuotaStep, DisableQuotaStep
<1>6. CASE RevokeACL
    <2>1. pc = "revokeACL" /\ UNCHANGED <<consumers, central>>
        BY <1>6 DEF RevokeACL, DeleteForRoute, UpdateForRoute, Write, Refused, kong
    <2>. QED
        BY <1>6, <2>1, RevokeACLStep
<1>7. CASE Operator
    BY <1>7, OperatorStep
<1>. QED
    BY <1>1, <1>2, <1>3, <1>4, <1>5, <1>6, <1>7
    DEF Next, Handler, AddRouteACL, AddQuota, RemoveRouteACL

(* The agent takes out of a route's ACL nothing but the group of the         *)
(* application it deprovisions, and puts in nothing but the group of the one *)
(* it provisions (provisioning.go 127-218).                                  *)
THEOREM OnlyRequestedGroups == Spec => OnlyTheRequestedGroupMoves
<1> DEFINE Moves == \A r \in Routes, c \in ConsumerIds :
                        HasGroup(r, c) # HasGroup(r, c)' =>
                            /\ cur # None
                            /\ r = cur.route
                            /\ c = appID
                            /\ HasGroup(r, c)' <=> cur.op = "provision"
<1>1. AccessInv /\ [Next]_vars => Moves
    <2>. SUFFICES ASSUME AccessInv, [Next]_vars,
                         NEW r \in Routes, NEW c \in ConsumerIds, HasGroup(r, c) # HasGroup(r, c)'
                  PROVE  /\ cur # None
                         /\ r = cur.route
                         /\ c = appID
                         /\ HasGroup(r, c)' <=> cur.op = "provision"
        OBVIOUS
    <2>0. HasGroup(r, c)' <=> ~HasGroup(r, c)
        BY DEF HasGroup
    <2>1. CASE GroupsKept
        BY <2>1 DEF GroupsKept
    <2>2. CASE pc \in {"createACL", "updateACL"} /\ GroupMoved(TRUE)
        <3>1. cur # None /\ cur.op = "provision"
            BY <2>2, Provisioning DEF ProvisionSteps
        <3>. QED
            BY <2>0, <2>2, <3>1 DEF GroupMoved
    <2>3. CASE pc = "revokeACL" /\ GroupMoved(FALSE)
        <3>1. cur # None /\ cur.op = "deprovision"
            BY <2>3, OnPlugins DEF DeprovisionSteps, AppSteps, WithoutApp
        <3>. QED
            BY <2>0, <2>3, <3>1 DEF GroupMoved
    <2>. QED
        BY <2>1, <2>2, <2>3, GroupsStep
<1>. QED
    BY <1>1, AccessInvariant, PTL DEF Spec, OnlyTheRequestedGroupMoves

(* Consumers stay what they are: none is deleted, renamed or moved.          *)
ConsumersKept ==
    \A c \in ConsumerIds :
        consumers[c] # None => /\ consumers'[c] # None
                               /\ consumers'[c].ws = consumers[c].ws
                               /\ consumers'[c].username = consumers[c].username

(* No step does anything else to a consumer.                               *)
LEMMA ConsumersStep ==
    ASSUME AccessInv, [Next]_vars
    PROVE  ConsumersKept
<1>1. CASE UNCHANGED consumers
    BY <1>1 DEF ConsumersKept
<1>2. CASE AddConsumerACL
    <2>1. appID \in ConsumerIds /\ consumers[appID] \in Consumer
        BY <1>2, Provisioning
        DEF AddConsumerACL, AccessInv, ActsForItsConsumer, TypeOK, ProvisionSteps, WithoutApp
    <2>2. consumers' = [consumers EXCEPT ![appID].groups = @ \cup {appID}] => ConsumersKept
        <3>. SUFFICES ASSUME consumers' = [consumers EXCEPT ![appID].groups = @ \cup {appID}]
                      PROVE  ConsumersKept
            OBVIOUS
        <3>1. /\ consumers'[appID] \in Consumer
              /\ consumers'[appID].ws = consumers[appID].ws
              /\ consumers'[appID].username = consumers[appID].username
              /\ \A c \in ConsumerIds \ {appID} : consumers'[c] = consumers[c]
            BY <2>1 DEF AccessInv, TypeOK, Consumer
        <3>. QED
            BY <3>1, NoRecordAssumption DEF ConsumersKept
    <2>. QED
        BY <1>1, <1>2, <2>2 DEF AddConsumerACL
<1>3. CASE CreateConsumer
    <2>1. ASSUME NEW c \in ConsumerIds, consumers[c] = None, NEW new,
                 consumers' = [consumers EXCEPT ![c] = new]
          PROVE  ConsumersKept
        BY <2>1 DEF ConsumersKept, AccessInv, TypeOK
    <2>. QED
        BY <1>1, <1>3, <2>1 DEF CreateConsumer
<1>4. CASE GetManagedApplication \/ GetConsumer \/ UpdateManagedAppDetails \/ Report
    BY <1>1, <1>4 DEF GetManagedApplication, GetConsumer, UpdateManagedAppDetails, Report, kong
<1>5. CASE ListForGrant \/ ListForQuota \/ ListForRevoke
    BY <1>1, <1>5 DEF ListForGrant, ListForQuota, ListForRevoke, ListPlugins, kong
<1>6. CASE CreateACL \/ CreateQuota
    BY <1>1, <1>6 DEF CreateACL, CreateQuota, CreateForRoute, Write, Refused, kong
<1>7. CASE UpdateACL \/ EnableQuota \/ DisableQuota
    BY <1>1, <1>7 DEF UpdateACL, EnableQuota, DisableQuota, UpdateForRoute, Write, Refused, kong
<1>8. CASE RevokeACL
    BY <1>1, <1>8 DEF RevokeACL, DeleteForRoute, UpdateForRoute, Write, Refused, kong
<1>9. CASE Start \/ Crash \/ Users \/ Operator \/ UNCHANGED vars
    BY <1>1, <1>9 DEF Start, StartProvision, StartDeprovision, Crash, Users, RequestAccess,
        DeleteAccess, Retry, Operator, OperatorProtect, OperatorLimit,
        OperatorAllow, OperatorDisallow, OperatorDisable, vars, kong
<1>. QED
    BY <1>2, <1>3, <1>4, <1>5, <1>6, <1>7, <1>8, <1>9
    DEF Next, Handler, ProvisionApp, AddRouteACL, AddQuota, RemoveRouteACL

(* The applications let in on a route follow from the groups and consumers.  *)
LEMMA LetInKept ==
    ASSUME AccessInv, ConsumersKept, GroupsKept
    PROVE  \A a \in Apps, r \in Routes : LetIn(a, r)' <=> LetIn(a, r)
<1>1. \A r \in Routes, c \in ConsumerIds :
        HasGroup(r, c) => /\ consumers[c] # None /\ consumers'[c] # None
                          /\ consumers'[c].ws = consumers[c].ws
                          /\ consumers'[c].username = consumers[c].username
    BY DEF AccessInv, AllowedExist, HasGroup, ConsumersKept
<1>2. ASSUME NEW a \in Apps, NEW r \in Routes, LetIn(a, r)
      PROVE  LetIn(a, r)'
    <2>1. PICK c \in ConsumerIds : /\ consumers[c].ws = WorkspaceOf[r]
                                   /\ consumers[c].username = a /\ HasGroup(r, c)
        BY <1>2 DEF LetIn
    <2>2. HasGroup(r, c)'
        BY <2>1 DEF GroupsKept
    <2>. QED
        BY <1>1, <2>1, <2>2 DEF LetIn
<1>3. ASSUME NEW a \in Apps, NEW r \in Routes, LetIn(a, r)'
      PROVE  LetIn(a, r)
    <2>1. PICK c \in ConsumerIds : /\ consumers'[c].ws = WorkspaceOf[r]
                                   /\ consumers'[c].username = a /\ HasGroup(r, c)'
        BY <1>3 DEF LetIn
    <2>2. HasGroup(r, c)
        BY <2>1 DEF GroupsKept
    <2>. QED
        BY <1>1, <2>1, <2>2 DEF LetIn
<1>. QED
    BY <1>2, <1>3

(* With a group given, the application the agent provisions is let in on its *)
(* route, and no other.                                                      *)
LEMMA LetInGiven ==
    ASSUME AccessInv, pc \in {"createACL", "updateACL"}, GroupMoved(TRUE), UNCHANGED consumers
    PROVE  /\ cur.app \in Apps /\ cur.route \in Routes
           /\ status[<<cur.app, cur.route>>] = "pending"
           /\ \A a \in Apps, r \in Routes :
                LetIn(a, r)' <=> LetIn(a, r) \/ (a = cur.app /\ r = cur.route)
<1>1. /\ cur.app \in Apps /\ cur.route \in Routes
      /\ status[<<cur.app, cur.route>>] = "pending"
    BY Provisioning DEF ProvisionSteps
<1>2. /\ appID \in ConsumerIds /\ consumers[appID] # None
      /\ consumers[appID].ws = WorkspaceOf[cur.route] /\ consumers[appID].username = cur.app
    BY OnPlugins DEF ProvisionSteps, AppSteps, WithoutApp
<1>3. ASSUME NEW a \in Apps, NEW r \in Routes
      PROVE  LetIn(a, r)' <=> LetIn(a, r) \/ (a = cur.app /\ r = cur.route)
    <2>1. \A c \in ConsumerIds : HasGroup(r, c)' <=> HasGroup(r, c) \/ (r = cur.route /\ c = appID)
        BY DEF GroupMoved
    <2>. QED
        BY <1>2, <2>1 DEF LetIn
<1>. QED
    BY <1>1, <1>3

(* With a group taken, the application the agent deprovisions is out on its  *)
(* route, as it has no other consumer there, and no other application is.    *)
LEMMA LetInTaken ==
    ASSUME AccessInv, pc = "revokeACL", GroupMoved(FALSE), UNCHANGED consumers
    PROVE  /\ cur.app \in Apps /\ cur.route \in Routes
           /\ status[<<cur.app, cur.route>>] = "deleting"
           /\ \A a \in Apps, r \in Routes :
                LetIn(a, r)' <=> LetIn(a, r) /\ ~(a = cur.app /\ r = cur.route)
<1>1. /\ cur # None /\ cur.app \in Apps /\ cur.route \in Routes /\ cur.op = "deprovision"
      /\ appID \in ConsumerIds /\ consumers[appID] # None
      /\ consumers[appID].ws = WorkspaceOf[cur.route] /\ consumers[appID].username = cur.app
    BY OnPlugins DEF DeprovisionSteps, AppSteps, WithoutApp
<1>2. status[<<cur.app, cur.route>>] = "deleting"
    BY <1>1 DEF AccessInv, WorksOnRequest, CurPair
<1>3. ASSUME NEW a \in Apps, NEW r \in Routes
      PROVE  LetIn(a, r)' <=> LetIn(a, r) /\ ~(a = cur.app /\ r = cur.route)
    <2>1. \A c \in ConsumerIds : HasGroup(r, c)' <=> HasGroup(r, c) /\ ~(r = cur.route /\ c = appID)
        BY DEF GroupMoved
    <2>2. \A c \in ConsumerIds :
            /\ consumers[c] # None
            /\ consumers[c].ws = WorkspaceOf[cur.route]
            /\ consumers[c].username = cur.app
            => c = appID
        BY <1>1 DEF AccessInv, OneConsumerPerApp
    <2>. QED
        BY <1>1, <2>1, <2>2 DEF LetIn
<1>. QED
    BY <1>1, <1>2, <1>3

(* The answer of the agent, and who it is about.                             *)
LEMMA Reporting ==
    ASSUME AccessInv, Report
    PROVE  /\ cur # None /\ cur.app \in Apps /\ cur.route \in Routes
           /\ CurPair = <<cur.app, cur.route>> /\ CurPair \in Requests
           /\ status[CurPair] = IF cur.op = "provision" THEN "pending" ELSE "deleting"
           /\ status' = [status EXCEPT ![CurPair] = Answer]
           /\ \/ cur.op = "provision" /\ outcome = "success" /\ Answer = "granted"
              \/ cur.op = "provision" /\ outcome = "failed" /\ Answer = "failed"
              \/ cur.op = "deprovision" /\ outcome = "success" /\ Answer = "deleted"
              \/ cur.op = "deprovision" /\ outcome = "failed" /\ Answer = "deleteFailed"
           /\ UNCHANGED kong
<1>1. /\ pc = "report" /\ cur # None /\ cur \in CurRequest /\ outcome \in {"success", "failed"}
      /\ status[CurPair] = IF cur.op = "provision" THEN "pending" ELSE "deleting"
    BY DEF Report, AccessInv, WorksOnRequest, TypeOK
<1>2. cur.app \in Apps /\ cur.route \in Routes /\ cur.op \in {"provision", "deprovision"}
    BY <1>1 DEF CurRequest
<1>3. status' = [status EXCEPT ![CurPair] = Answer] /\ UNCHANGED kong
    BY DEF Report
<1>4. CurPair = <<cur.app, cur.route>> /\ CurPair \in Requests
    BY <1>2 DEF CurPair, Requests
<1>5. \/ cur.op = "provision" /\ outcome = "success" /\ Answer = "granted"
      \/ cur.op = "provision" /\ outcome = "failed" /\ Answer = "failed"
      \/ cur.op = "deprovision" /\ outcome = "success" /\ Answer = "deleted"
      \/ cur.op = "deprovision" /\ outcome = "failed" /\ Answer = "deleteFailed"
    BY <1>1, <1>2 DEF Answer
<1>. QED
    BY <1>1, <1>2, <1>3, <1>4, <1>5

(* The listing of AddRouteACL goes on past the group only if Kong has it.    *)
LEMMA ListForGrantFindsGroup ==
    ASSUME AccessInv, ListForGrant, pc' = "listForQuota" \/ outcome' = "success"
    PROVE  HasGroup(cur.route, appID)
<1>1. /\ CurWs = WorkspaceOf[cur.route] /\ CurWs \in Workspaces /\ cur.route \in Routes
      /\ appID \in ConsumerIds
    BY OnPlugins DEF ListForGrant, ProvisionSteps, AppSteps, WithoutApp
<1>2. listed' = ListAll(plugins, CurWs) /\ Jump(GrantFrom(listed'))
    BY DEF ListForGrant, ListPlugins, Jump, Failure, Finish
<1>3. AclOf(listed') # None /\ appID \in listed'[AclOf(listed')].allow
    BY <1>2, OutcomeAssumption DEF GrantFrom, Jump, Goto, checkAccess
<1>. QED
    BY <1>1, <1>2, <1>3, AclInListing DEF AclOf

(* From the group on, up to the report, the consumer stays in.               *)
LEMMA GrantedBeforeReportStep ==
    ASSUME AccessInv, GrantedBeforeReport, [Next]_vars
    PROVE  GrantedBeforeReport'
<1>1. ASSUME UNCHANGED <<cur, appID>>, GroupsKept,
             pc \in {"listForQuota", "enableQuota", "createQuota"} \/ UNCHANGED <<pc, outcome>>
      PROVE  GrantedBeforeReport'
    <2>. SUFFICES ASSUME cur # None, cur.op = "provision", ~AclDisable,
                         \/ pc' \in {"listForQuota", "enableQuota", "createQuota"}
                         \/ pc' = "report" /\ outcome' = "success"
                  PROVE  appID # None /\ HasGroup(cur.route, appID)'
        BY <1>1 DEF GrantedBeforeReport
    <2>1. appID # None /\ HasGroup(cur.route, appID)
        BY <1>1 DEF GrantedBeforeReport
    <2>2. cur.route \in Routes /\ appID \in ConsumerIds
        BY <2>1 DEF AccessInv, TypeOK, CurRequest
    <2>3. HasGroup(cur.route, appID)' = HasGroup(cur.route, appID)
        <3>1. PICK r \in Routes, c \in ConsumerIds : r = cur.route /\ c = appID
            BY <2>2
        <3>2. HasGroup(r, c)' = HasGroup(r, c)
            BY <1>1 DEF GroupsKept
        <3>. QED
            BY <1>1, <3>1, <3>2 DEF HasGroup
    <2>. QED
        BY <2>1, <2>3
<1>2. CASE Start
    <2>1. PICK a \in Apps, r \in Routes : StartProvision(a, r) \/ StartDeprovision(a, r)
        BY <1>2 DEF Start
    <2>2. CASE StartProvision(a, r)
        BY <2>2, OutcomeAssumption
        DEF StartProvision, Jump, Failure, Finish, Goto, AfterApp, GrantedBeforeReport
    <2>3. CASE StartDeprovision(a, r)
        BY <2>3 DEF StartDeprovision, GrantedBeforeReport
    <2>. QED
        BY <2>1, <2>2, <2>3
<1>3. CASE Crash \/ Report
    BY <1>3 DEF Crash, Report, Rest, GrantedBeforeReport
<1>4. CASE Users
    <2>1. UNCHANGED <<kong, agent>>
        BY <1>4 DEF Users, RequestAccess, DeleteAccess, Retry
    <2>. QED
        BY <1>1, <2>1, PluginsKept DEF kong, agent
<1>5. CASE Operator
    <2>1. UNCHANGED agent
        BY <1>5 DEF Operator, OperatorProtect, OperatorLimit, OperatorAllow, OperatorDisallow,
            OperatorDisable
    <2>. QED
        BY <1>1, <1>5, <2>1, OperatorStep DEF agent
<1>6. CASE ProvisionApp
    <2>1. \/ pc' \in {"getConsumer", "createConsumer", "addGroup", "saveDetails", "listForGrant"}
          \/ pc' = "report" /\ (outcome' = "failed" \/ AclDisable)
        BY <1>6 DEF ProvisionApp, GetManagedApplication, GetConsumer, CreateConsumer,
            AddConsumerACL, UpdateManagedAppDetails, AfterApp, Jump, Failure, Finish, Goto
    <2>. QED
        BY <2>1 DEF GrantedBeforeReport
<1>7. CASE ListForGrant
    <2>1. UNCHANGED <<kong, cur, appID>> /\ pc' \notin {"enableQuota", "createQuota"}
        BY <1>7 DEF ListForGrant, ListPlugins, GrantFrom, AfterGrant, Jump, Failure, Finish, Goto
    <2>2. pc' = "listForQuota" \/ outcome' = "success" =>
            appID # None /\ HasGroup(cur.route, appID)'
        <3>1. appID \in ConsumerIds
            BY <1>7, OnPlugins DEF ListForGrant, ProvisionSteps, AppSteps, WithoutApp
        <3>2. HasGroup(cur.route, appID)' = HasGroup(cur.route, appID)
            BY <2>1 DEF HasGroup, kong
        <3>. QED
            BY <1>7, <3>1, <3>2, NoneAssumption, ListForGrantFindsGroup
    <2>. QED
        BY <2>1, <2>2 DEF GrantedBeforeReport
<1>8. CASE CreateACL \/ UpdateACL
    <2>1. /\ UNCHANGED <<cur, appID>> /\ pc' \notin {"enableQuota", "createQuota"}
          /\ pc \in {"createACL", "updateACL"}
        BY <1>8 DEF CreateACL, UpdateACL, CreateForRoute, UpdateForRoute, Write, Refused,
            AfterGrant, Jump, Failure, Finish, Goto
    <2>2. cur.route \in Routes /\ appID \in ConsumerIds
        BY <2>1, OnPlugins DEF ProvisionSteps, AppSteps, WithoutApp
    <2>3. pc' = "listForQuota" \/ outcome' = "success" => GroupMoved(TRUE)
        BY <1>8, CreateACLStep, UpdateACLStep
    <2>4. GroupMoved(TRUE) => HasGroup(cur.route, appID)'
        <3>1. PICK r \in Routes, c \in ConsumerIds : r = cur.route /\ c = appID
            BY <2>2
        <3>2. GroupMoved(TRUE) => HasGroup(r, c)'
            BY <3>1 DEF GroupMoved
        <3>. QED
            BY <2>1, <3>1, <3>2 DEF HasGroup
    <2>. QED
        BY <2>1, <2>2, <2>3, <2>4, NoneAssumption DEF GrantedBeforeReport
<1>9. CASE ListForQuota
    <2>1. pc = "listForQuota" /\ UNCHANGED <<kong, cur, appID>>
        BY <1>9 DEF ListForQuota, ListPlugins
    <2>. QED
        BY <1>1, <2>1, PluginsKept DEF kong
<1>10. CASE EnableQuota \/ CreateQuota
    <2>1. pc \in {"enableQuota", "createQuota"} /\ UNCHANGED <<cur, appID>>
        BY <1>10 DEF EnableQuota, CreateQuota, CreateForRoute, UpdateForRoute, Write, Refused
    <2>. QED
        BY <1>1, <1>10, <2>1, EnableQuotaStep, CreateQuotaStep
<1>11. CASE RemoveRouteACL
    <2>1. pc \in DeprovisionSteps /\ UNCHANGED cur
        BY <1>11 DEF RemoveRouteACL, ListForRevoke, RevokeACL, DisableQuota, ListPlugins,
            UpdateForRoute, DeleteForRoute, Write, Refused, DeprovisionSteps
    <2>2. cur.op = "deprovision"
        BY <2>1, OnPlugins DEF DeprovisionSteps, AppSteps, WithoutApp
    <2>. QED
        BY <2>1, <2>2 DEF GrantedBeforeReport
<1>12. CASE UNCHANGED vars
    BY <1>1, <1>12, PluginsKept DEF vars, kong, agent
<1>. QED
    BY <1>2, <1>3, <1>4, <1>5, <1>6, <1>7, <1>8, <1>9, <1>10, <1>11, <1>12
    DEF Next, Handler, AddRouteACL, AddQuota

(* A step that is neither of Central's users nor an answer leaves the state  *)
(* of every request alone.                                                   *)
LEMMA StatusKept ==
    ASSUME [Next]_vars, ~Users, ~Report
    PROVE  UNCHANGED status
<1>1. CASE ProvisionApp
    BY <1>1 DEF ProvisionApp, GetManagedApplication, GetConsumer, CreateConsumer,
        AddConsumerACL, UpdateManagedAppDetails, central
<1>2. CASE ListForGrant \/ ListForQuota \/ ListForRevoke
    BY <1>2 DEF ListForGrant, ListForQuota, ListForRevoke, ListPlugins, central
<1>3. CASE CreateACL \/ CreateQuota
    BY <1>3 DEF CreateACL, CreateQuota, CreateForRoute, Write, Refused, central
<1>4. CASE UpdateACL \/ EnableQuota \/ DisableQuota \/ RevokeACL
    BY <1>4 DEF UpdateACL, EnableQuota, DisableQuota, RevokeACL, UpdateForRoute, DeleteForRoute,
        Write, Refused, central
<1>5. CASE Start \/ Crash \/ Operator \/ UNCHANGED vars
    BY <1>5 DEF Start, StartProvision, StartDeprovision, Crash, Operator, OperatorProtect,
        OperatorLimit,
        OperatorAllow, OperatorDisallow, OperatorDisable, vars, central
<1>. QED
    BY <1>1, <1>2, <1>3, <1>4, <1>5
    DEF Next, Handler, AddRouteACL, AddQuota, RemoveRouteACL

(* What the users of Central do to a request.                                *)
LEMMA UsersAsk ==
    ASSUME Users
    PROVE  /\ UNCHANGED kong
           /\ \E a \in Apps, r \in Routes :
                \/ /\ status[<<a, r>>] \in {"none", "deleted", "failed"}
                   /\ status' = [status EXCEPT ![<<a, r>>] = "pending"]
                \/ /\ status[<<a, r>>] \in {"granted", "failed", "deleteFailed"}
                   /\ status' = [status EXCEPT ![<<a, r>>] = "deleting"]
<1>1. PICK a \in Apps, r \in Routes :
        \/ \E q \in Quotas : RequestAccess(a, r, q)
        \/ DeleteAccess(a, r)
        \/ Retry(a, r)
    BY DEF Users
<1>2. CASE \E q \in Quotas : RequestAccess(a, r, q)
    BY <1>2 DEF RequestAccess
<1>3. CASE DeleteAccess(a, r)
    BY <1>3, DeletableAssumption DEF DeleteAccess
<1>4. CASE Retry(a, r)
    BY <1>4 DEF Retry
<1>. QED
    BY <1>1, <1>2, <1>3, <1>4

(* A request shown as granted stays let in, and becomes shown so only when   *)
(* the application is.                                                       *)
LEMMA GrantedStep ==
    ASSUME AccessInv, GrantInv, [Next]_vars
    PROVE  GrantedIsLetIn'
<1>. SUFFICES ASSUME NEW a \in Apps, NEW r \in Routes, status'[<<a, r>>] = "granted", ~AclDisable
              PROVE  LetIn(a, r)'
    BY DEF GrantedIsLetIn
<1>1. <<a, r>> \in Requests
    BY DEF Requests
<1>2. CASE status[<<a, r>>] = "granted"
    <2>1. LetIn(a, r)
        BY <1>2 DEF GrantInv, GrantedIsLetIn
    <2>2. CASE GroupsKept
        BY <2>1, <2>2, ConsumersStep, LetInKept
    <2>3. CASE pc \in {"createACL", "updateACL"} /\ GroupMoved(TRUE) /\ UNCHANGED consumers
        BY <2>1, <2>3, LetInGiven
    <2>4. CASE pc = "revokeACL" /\ GroupMoved(FALSE) /\ UNCHANGED consumers
        <3>1. ~(a = cur.app /\ r = cur.route)
            BY <1>2, <2>4, LetInTaken
        <3>. QED
            BY <2>1, <2>4, <3>1, LetInTaken
    <2>. QED
        BY <2>2, <2>3, <2>4, GroupsStep
<1>3. CASE status[<<a, r>>] # "granted"
    <2>1. ~Users
        <3>. SUFFICES ASSUME Users PROVE FALSE
            OBVIOUS
        <3>1. PICK b \in Apps, q \in Routes :
                \/ status' = [status EXCEPT ![<<b, q>>] = "pending"]
                \/ status' = [status EXCEPT ![<<b, q>>] = "deleting"]
            BY UsersAsk
        <3>. QED
            BY <1>1, <1>3, <3>1 DEF AccessInv, TypeOK
    <2>2. Report
        BY <1>3, <2>1, StatusKept
    <2>3. <<a, r>> = CurPair /\ cur.op = "provision" /\ outcome = "success" /\ cur # None
          /\ a = cur.app /\ r = cur.route /\ UNCHANGED kong
        BY <1>1, <1>3, <2>2, Reporting DEF AccessInv, TypeOK
    <2>4. appID # None /\ HasGroup(cur.route, appID)
        BY <2>2, <2>3 DEF GrantInv, GrantedBeforeReport, Report
    <2>5. /\ appID \in ConsumerIds /\ consumers[appID] # None
          /\ consumers[appID].ws = WorkspaceOf[r] /\ consumers[appID].username = a
        BY <2>3, <2>4 DEF AccessInv, ActsForItsConsumer, TypeOK, CurWs
    <2>6. LetIn(a, r)
        BY <2>3, <2>4, <2>5 DEF LetIn
    <2>. QED
        BY <2>3, <2>6 DEF LetIn, HasGroup, kong
<1>. QED
    BY <1>2, <1>3

(* Both invariants, in every behaviour.                                      *)
THEOREM GrantInvariant == Spec => [](AccessInv /\ GrantInv)
<1>1. Init => GrantInv
    BY DEF Init, GrantInv, GrantedIsLetIn, GrantedBeforeReport, Requests
<1>2. AccessInv /\ GrantInv /\ [Next]_vars => GrantInv'
    BY GrantedStep, GrantedBeforeReportStep DEF GrantInv
<1>. QED
    BY <1>1, <1>2, AccessInvariant, PTL DEF Spec

(* An access request shown as granted is granted in Kong, whatever happens   *)
(* afterwards to other requests for the same route (provisioning.go 127-218).*)
THEOREM GrantedStaysLetIn == Spec => []GrantedIsLetIn
<1>1. GrantInv => GrantedIsLetIn
    BY DEF GrantInv
<1>. QED
    BY <1>1, GrantInvariant, PTL

(* At first no request is answered and nobody is let in.                     *)
LEMMA ContractInit ==
    ASSUME Init
    PROVE  Contract!Init
BY DEF Init, Contract!Init, Granted, LetIn, Requests

(* Every step is one of the contract, or changes nothing the contract speaks *)
(* of.                                                                       *)
LEMMA ContractStep ==
    ASSUME AccessInv, GrantInv, [Next]_vars
    PROVE  [Contract!Next]_(Contract!vars)
<1>. USE DEF Contract!Become
<1>1. CASE Users
    <2>1. Granted' = Granted
        BY <1>1, UsersAsk DEF Granted, LetIn, HasGroup, kong
    <2>2. \E a \in Apps, r \in Routes : Contract!Ask(a, r)
        BY <1>1, <2>1, UsersAsk DEF Contract!Ask
    <2>. QED
        BY <2>2 DEF Contract!Next
<1>2. CASE Report
    <2>1. Granted' = Granted
        BY <1>2, Reporting DEF Granted, LetIn, HasGroup, kong
    <2>2. PICK a \in Apps, r \in Routes : a = cur.app /\ r = cur.route /\ CurPair = <<a, r>>
        BY <1>2, Reporting
    <2>3. CASE outcome = "failed"
        <3>1. Contract!AnswerFailed(a, r)
            BY <1>2, <2>1, <2>2, <2>3, Reporting DEF Contract!AnswerFailed
        <3>. QED
            BY <3>1 DEF Contract!Next
    <2>4. CASE outcome = "success" /\ cur.op = "provision"
        <3>1. /\ status[<<a, r>>] = "pending"
              /\ status' = [status EXCEPT ![<<a, r>>] = "granted"]
            BY <1>2, <2>2, <2>4, Reporting
        <3>2. status'[<<a, r>>] = "granted"
            BY <3>1 DEF AccessInv, TypeOK, Requests
        <3>3. AclDisable \/ LetIn(a, r)'
            BY <3>2, GrantedStep DEF GrantedIsLetIn
        <3>4. AclDisable \/ <<a, r>> \in Granted
            BY <2>1, <3>3 DEF Granted, Requests
        <3>5. Contract!AnswerGranted(a, r)
            BY <2>1, <3>1, <3>4 DEF Contract!AnswerGranted
        <3>. QED
            BY <3>5 DEF Contract!Next
    <2>5. CASE outcome = "success" /\ cur.op = "deprovision"
        <3>1. /\ status[<<a, r>>] = "deleting"
              /\ status' = [status EXCEPT ![<<a, r>>] = "deleted"]
            BY <1>2, <2>2, <2>5, Reporting
        <3>2. status'[<<a, r>>] = "deleted"
            BY <3>1 DEF AccessInv, TypeOK, Requests
        <3>3. ~LetIn(a, r)'
            BY <3>2, NextInv DEF AccessInv, NoAccessWithoutRequest
        <3>4. <<a, r>> \notin Granted
            BY <2>1, <3>3 DEF Granted, Requests
        <3>5. Contract!AnswerDeleted(a, r)
            BY <2>1, <3>1, <3>4 DEF Contract!AnswerDeleted
        <3>. QED
            BY <3>5 DEF Contract!Next
    <2>. QED
        BY <1>2, <2>3, <2>4, <2>5, Reporting
<1>3. CASE ~Users /\ ~Report
    <2>1. UNCHANGED status
        BY <1>3, StatusKept
    <2>2. CASE GroupsKept
        <3>1. Granted' = Granted
            BY <2>2, ConsumersStep, LetInKept DEF Granted, Requests
        <3>. QED
            BY <2>1, <3>1 DEF Contract!vars
    <2>3. CASE pc \in {"createACL", "updateACL"} /\ GroupMoved(TRUE) /\ UNCHANGED consumers
        <3>1. PICK a \in Apps, r \in Routes : a = cur.app /\ r = cur.route
            BY <2>3, LetInGiven
        <3>2. /\ status[<<a, r>>] = "pending"
              /\ \A b \in Apps, q \in Routes :
                    LetIn(b, q)' <=> LetIn(b, q) \/ (b = a /\ q = r)
            BY <2>3, <3>1, LetInGiven
        <3>3. Granted' = Granted \cup {<<a, r>>}
            BY <3>2 DEF Granted, Requests
        <3>4. Contract!Grant(a, r)
            BY <2>1, <3>2, <3>3 DEF Contract!Grant
        <3>. QED
            BY <3>4 DEF Contract!Next
    <2>4. CASE pc = "revokeACL" /\ GroupMoved(FALSE) /\ UNCHANGED consumers
        <3>1. PICK a \in Apps, r \in Routes : a = cur.app /\ r = cur.route
            BY <2>4, LetInTaken
        <3>2. /\ status[<<a, r>>] = "deleting"
              /\ \A b \in Apps, q \in Routes :
                    LetIn(b, q)' <=> LetIn(b, q) /\ ~(b = a /\ q = r)
            BY <2>4, <3>1, LetInTaken
        <3>3. Granted' = Granted \ {<<a, r>>}
            BY <3>2 DEF Granted, Requests
        <3>4. Contract!Revoke(a, r)
            BY <2>1, <3>2, <3>3 DEF Contract!Revoke
        <3>. QED
            BY <3>4 DEF Contract!Next
    <2>. QED
        BY <2>2, <2>3, <2>4, GroupsStep
<1>. QED
    BY <1>1, <1>2, <1>3

(* Provisioning implements the contract with Central.                        *)
THEOREM Refinement == Spec => ImplementsContract
<1>1. Init => Contract!Init
    BY ContractInit
<1>2. AccessInv /\ GrantInv /\ [Next]_vars => [Contract!Next]_(Contract!vars)
    BY ContractStep
<1>. QED
    BY <1>1, <1>2, GrantInvariant, PTL DEF Spec, ImplementsContract, Contract!Spec

-----------------------------------------------------------------------------
(* Quotas.  A limit that is not the operator's belongs to a consumer and a   *)
(* route, and to a request that was made.  An application that has its route *)
(* to itself therefore finds no limit there but its own, however far the     *)
(* lookup of AddQuota strays to other routes on its way.                     *)

RateShape ==
    \A i \in Named(plugins, RateLimiting) :
        LET c == plugins[i].consumer
            r == plugins[i].route
        IN  c # None =>
                /\ r # None
                /\ plugins[i].service = None
                /\ consumers[c] # None
                /\ consumers[c].ws = WorkspaceOf[r]
                /\ status[<<consumers[c].username, r>>] # "none"

(* Nobody has changed a rate limiting plugin since the listing.              *)
RatesListed ==
    pc \in {"enableQuota", "revokeACL", "disableQuota"} =>
        \A i \in Named(listed, RateLimiting) :
            /\ listed[i].ws = CurWs
            /\ i \in Named(plugins, RateLimiting)
            /\ listed[i] = plugins[i]

(* When the agent is to answer "granted", the limit is in force.             *)
LimitedBeforeReport ==
    /\ cur # None
    /\ cur.op = "provision"
    /\ pc = "report" /\ outcome = "success"
    /\ quota[CurPair] \in Limits
    /\ ~AclDisable
    /\ SoleUser(cur.app, cur.route)
    => Limited(cur.app, cur.route, TRUE) # {}

QuotaInv == RateShape /\ RatesListed /\ LimitedBeforeReport /\ QuotaOfSoleUser

(* What a step may do to the rate limiting plugins: nothing, switch one of   *)
(* the route of the request in hand, or create one.                          *)
RatesKept ==
    /\ Named(plugins, RateLimiting)' = Named(plugins, RateLimiting)
    /\ \A i \in Named(plugins, RateLimiting) : plugins'[i] = plugins[i]

RatesStay ==
    \A i \in Named(plugins, RateLimiting) :
        i \in Named(plugins, RateLimiting)' /\ plugins'[i] = plugins[i]

RateSwitched(i, enabled) ==
    /\ i \in Named(plugins, RateLimiting)
    /\ plugins[i].route = cur.route
    /\ Named(plugins, RateLimiting)' = Named(plugins, RateLimiting)
    /\ plugins'[i] = [plugins[i] EXCEPT !.enabled = enabled]
    /\ \A j \in Named(plugins, RateLimiting) \ {i} : plugins'[j] = plugins[j]

RateAdded(i, p) ==
    /\ i \notin Named(plugins, RateLimiting)
    /\ Named(plugins, RateLimiting)' = Named(plugins, RateLimiting) \cup {i}
    /\ plugins'[i] = p
    /\ \A j \in Named(plugins, RateLimiting) : plugins'[j] = plugins[j]

RateCreated(i) ==
    RateAdded(i, NewPlugin(RateLimiting, CurWs, cur.route, appID, {}, quota[CurPair]))

LimitAdded(i) ==
    \E r \in Routes, limit \in Limits :
        RateAdded(i, NewPlugin(RateLimiting, WorkspaceOf[r], r, None, {}, limit))

(* A write where there is an ACL plugin or none leaves them alone.           *)
LEMMA OnlyAclWritten ==
    ASSUME TypeOK, NEW i \in PluginIds, NEW p,
           plugins[i] = None \/ plugins[i].name = ACL,
           p = None \/ p.name = ACL,
           plugins' = [plugins EXCEPT ![i] = p]
    PROVE  RatesKept
<1>1. plugins'[i] = p /\ \A j \in PluginIds \ {i} : plugins'[j] = plugins[j]
    BY DEF TypeOK, PluginTable
<1>2. i \notin Named(plugins, RateLimiting) /\ i \notin Named(plugins, RateLimiting)'
    BY <1>1 DEF Named, Present, ACL, RateLimiting
<1>3. \A j \in PluginIds \ {i} :
        j \in Named(plugins, RateLimiting)' <=> j \in Named(plugins, RateLimiting)
    BY <1>1 DEF Named, Present
<1>4. Named(plugins, RateLimiting) \subseteq PluginIds
      /\ Named(plugins, RateLimiting)' \subseteq PluginIds
    BY DEF Named, Present
<1>5. \A j \in Named(plugins, RateLimiting) : plugins'[j] = plugins[j]
    BY <1>1, <1>2, <1>4
<1>6. Named(plugins, RateLimiting)' = Named(plugins, RateLimiting)
    <2> DEFINE old == Named(plugins, RateLimiting)
               new == Named(plugins, RateLimiting)'
    <2>1. \A j : j \in old <=> j \in new
        BY <1>2, <1>3, <1>4
    <2>. HIDE DEF old, new
    <2>2. old = new
        BY <2>1
    <2>. QED
        BY <2>2 DEF old, new
<1>. QED
    BY <1>5, <1>6 DEF RatesKept

(* A step that leaves the plugins alone leaves the rate limits alone.        *)
LEMMA NoPluginWritten ==
    ASSUME UNCHANGED plugins
    PROVE  RatesKept
BY DEF RatesKept, Named, Present

(* A limit in a free place joins the others.                                 *)
LEMMA RateIsAdded ==
    ASSUME TypeOK, NEW i \in PluginIds \ Present(plugins), NEW p \in Plugin,
           p.name = RateLimiting, plugins' = [plugins EXCEPT ![i] = p]
    PROVE  RateAdded(i, p)
<1>1. /\ plugins'[i] = p
      /\ \A j \in PluginIds \ {i} : plugins'[j] = plugins[j]
      /\ Named(plugins, RateLimiting)' = Named(plugins, RateLimiting) \cup {i}
      /\ i \notin Named(plugins, RateLimiting)
    BY PluginAdded
<1>2. Named(plugins, RateLimiting) \subseteq PluginIds
    BY DEF Named, Present
<1>. QED
    BY <1>1, <1>2 DEF RateAdded

(* What the agent writes to ACL plugins, and what the operator writes.       *)
LEMMA AclWrites ==
    ASSUME AccessInv, CreateACL \/ UpdateACL \/ RevokeACL \/ Operator
    PROVE  RatesKept \/ (Operator /\ \E i \in PluginIds : LimitAdded(i))
<1>1. TypeOK
    BY DEF AccessInv
<1>2. \A i \in Present(plugins) : i \in PluginIds /\ plugins[i] \in Plugin
    BY <1>1 DEF Present, TypeOK, PluginTable
<1>3. CASE CreateACL
    <2>1. \/ UNCHANGED plugins
          \/ \E i \in PluginIds \ Present(plugins) :
                plugins' = [plugins EXCEPT ![i] = NewPlugin(ACL, CurWs, cur.route, None, {appID}, None)]
        BY <1>3 DEF CreateACL, CreateForRoute, Write, Refused, kong
    <2>2. NewPlugin(ACL, CurWs, cur.route, None, {appID}, None).name = ACL
        BY DEF NewPlugin
    <2>. QED
        BY <1>1, <2>1, <2>2, NoPluginWritten, OnlyAclWritten DEF Present
<1>4. CASE UpdateACL \/ RevokeACL
    <2> DEFINE i == AclOf(listed)
    <2>1. /\ pc \in {"updateACL", "revokeACL"}
          /\ \/ UNCHANGED plugins
             \/ plugins' = [plugins EXCEPT ![i] = None]
             \/ \E allow, enabled :
                    plugins' = [plugins EXCEPT ![i] = [listed[i] EXCEPT !.allow = allow, !.enabled = enabled]]
        BY <1>4 DEF UpdateACL, RevokeACL, UpdateForRoute, DeleteForRoute, Write, Refused, kong
    <2>2. i \in Named(listed, ACL) \cap Named(plugins, ACL) /\ listed \in PluginTable
        BY <2>1 DEF AccessInv, ListingIsFresh
    <2>. HIDE DEF i
    <2>3. i \in PluginIds /\ plugins[i].name = ACL /\ listed[i] \in Plugin /\ listed[i].name = ACL
        BY <2>2 DEF Named, Present, PluginTable
    <2>4. \A allow, enabled : [listed[i] EXCEPT !.allow = allow, !.enabled = enabled].name = ACL
        BY <2>3 DEF Plugin
    <2>5. CASE plugins' = [plugins EXCEPT ![i] = None]
        BY <1>1, <2>3, <2>5, OnlyAclWritten
    <2>6. ASSUME NEW allow, NEW enabled,
                 plugins' = [plugins EXCEPT ![i] = [listed[i] EXCEPT !.allow = allow, !.enabled = enabled]]
          PROVE  RatesKept
        <3>1. [listed[i] EXCEPT !.allow = allow, !.enabled = enabled].name = ACL
            BY <2>4
        <3>. QED
            BY <1>1, <2>3, <2>6, <3>1, OnlyAclWritten
    <2>. QED
        BY <2>1, <2>5, <2>6, NoPluginWritten
<1>5. CASE Operator
    <2>1. \/ \E i \in PluginIds \ Present(plugins), r \in Routes, g \in Groups :
               plugins' = [plugins EXCEPT ![i] = NewPlugin(ACL, WorkspaceOf[r], r, None, {g}, None)]
          \/ \E i \in PluginIds :
               /\ plugins[i] # None /\ plugins[i].name = ACL
               /\ \/ \E allow : plugins' = [plugins EXCEPT ![i].allow = allow]
                  \/ plugins' = [plugins EXCEPT ![i].enabled = FALSE]
          \/ \E r \in Routes, limit \in Limits : OperatorLimit(r, limit)
        BY <1>5 DEF Operator, OperatorProtect, OperatorAllow, OperatorDisallow, OperatorDisable,
            OnRoute
    <2>2. ASSUME NEW i \in PluginIds \ Present(plugins), NEW r \in Routes, NEW g \in Groups,
                 plugins' = [plugins EXCEPT ![i] = NewPlugin(ACL, WorkspaceOf[r], r, None, {g}, None)]
          PROVE  RatesKept
        <3>1. NewPlugin(ACL, WorkspaceOf[r], r, None, {g}, None).name = ACL
            BY DEF NewPlugin
        <3>. QED
            BY <1>1, <2>2, <3>1, OnlyAclWritten DEF Present
    <2>3. ASSUME NEW i \in PluginIds, plugins[i] # None, plugins[i].name = ACL,
                 \/ \E allow : plugins' = [plugins EXCEPT ![i].allow = allow]
                 \/ plugins' = [plugins EXCEPT ![i].enabled = FALSE]
          PROVE  RatesKept
        <3>1. plugins[i] \in Plugin
            BY <1>2, <2>3 DEF Present
        <3>2. /\ \A allow : [plugins[i] EXCEPT !.allow = allow].name = ACL
              /\ [plugins[i] EXCEPT !.enabled = FALSE].name = ACL
            BY <2>3, <3>1 DEF Plugin
        <3>. QED
            BY <1>1, <2>3, <3>2, OnlyAclWritten
    <2>4. ASSUME NEW r \in Routes, NEW limit \in Limits, OperatorLimit(r, limit)
          PROVE  \E i \in PluginIds : LimitAdded(i)
        <3> DEFINE p == NewPlugin(RateLimiting, WorkspaceOf[r], r, None, {}, limit)
        <3>1. WorkspaceOf[r] \in Workspaces
            BY <2>4, WorkspaceOfAssumption DEF OperatorLimit
        <3>2. PICK i \in PluginIds \ Present(plugins) : plugins' = [plugins EXCEPT ![i] = p]
            BY <2>4 DEF OperatorLimit
        <3>3. p \in Plugin /\ p.name = RateLimiting
            BY <3>1 DEF NewPlugin, Plugin
        <3>4. RateAdded(i, p)
            <4>. HIDE DEF p
            <4>. QED
                BY <1>1, <3>2, <3>3, RateIsAdded
        <3>. QED
            BY <3>4 DEF LimitAdded
    <2>. QED
        BY <1>5, <2>1, <2>2, <2>3, <2>4
<1>. QED
    BY <1>3, <1>4, <1>5

(* All steps but those that switch or create a limit leave them alone.       *)
LEMMA RatesStep ==
    ASSUME AccessInv, [Next]_vars, ~EnableQuota, ~DisableQuota, ~CreateQuota
    PROVE  RatesKept \/ (Operator /\ \E i \in PluginIds : LimitAdded(i))
<1>1. CASE Start \/ Crash \/ Users \/ Report \/ UNCHANGED vars
    <2>1. UNCHANGED plugins
        BY <1>1 DEF Start, StartProvision, StartDeprovision, Crash, Users, RequestAccess,
            DeleteAccess, Retry, Report, vars, kong
    <2>. QED
        BY <2>1, NoPluginWritten
<1>2. CASE ProvisionApp
    <2>1. UNCHANGED plugins
        BY <1>2 DEF ProvisionApp, GetManagedApplication, GetConsumer, CreateConsumer,
            AddConsumerACL, UpdateManagedAppDetails, kong
    <2>. QED
        BY <2>1, NoPluginWritten
<1>3. CASE ListForGrant \/ ListForQuota \/ ListForRevoke
    <2>1. UNCHANGED plugins
        BY <1>3 DEF ListForGrant, ListForQuota, ListForRevoke, ListPlugins, kong
    <2>. QED
        BY <2>1, NoPluginWritten
<1>4. CASE CreateACL \/ UpdateACL \/ RevokeACL \/ Operator
    BY <1>4, AclWrites
<1>. QED
    BY <1>1, <1>2, <1>3, <1>4
    DEF Next, Handler, AddRouteACL, AddQuota, RemoveRouteACL

(* On a route that the application of the request has to itself, every limit *)
(* is that of its consumer.                                                  *)
LEMMA OnlyItsLimits ==
    ASSUME AccessInv, RateShape, SoleUser(cur.app, cur.route),
           pc \in (ProvisionSteps \cup DeprovisionSteps) \ AppSteps,
           NEW i \in Named(plugins, RateLimiting), plugins[i].route = cur.route
    PROVE  plugins[i].service = None /\ plugins[i].consumer = appID
<1>1. /\ cur.route \in Routes /\ cur.app \in Apps /\ appID \in ConsumerIds
      /\ consumers[appID] # None /\ consumers[appID].ws = CurWs
      /\ consumers[appID].username = cur.app
    BY OnPlugins
<1>2. plugins[i] \in Plugin
    BY DEF AccessInv, TypeOK, PluginTable, Named, Present
<1> DEFINE c == plugins[i].consumer
<1>3. c # None
    BY DEF SoleUser
<1>4. c \in ConsumerIds
    BY <1>2, <1>3 DEF Plugin
<1>. HIDE DEF c
<1>5. /\ plugins[i].service = None
      /\ consumers[c] # None /\ consumers[c].ws = CurWs
      /\ status[<<consumers[c].username, cur.route>>] # "none"
    BY <1>3 DEF RateShape, CurWs, c
<1>6. consumers[c].username \in Apps
    BY <1>4, <1>5 DEF AccessInv, TypeOK, Consumer
<1>7. consumers[c].username = cur.app
    BY <1>5, <1>6 DEF SoleUser
<1>8. c = appID
    BY <1>1, <1>4, <1>5, <1>7 DEF AccessInv, OneConsumerPerApp
<1>. QED
    BY <1>5, <1>8 DEF c

(* There, what the lookup of AddQuota finds is the plugin of just the route  *)
(* and consumer of the request.                                              *)
LEMMA RateFound ==
    ASSUME AccessInv, RateShape, SoleUser(cur.app, cur.route),
           pc \in (ProvisionSteps \cup DeprovisionSteps) \ AppSteps,
           NEW list \in PluginTable,
           \A i \in Named(list, RateLimiting) :
               i \in Named(plugins, RateLimiting) /\ list[i] = plugins[i],
           RateOf(list) # None
    PROVE  RateOf(list) \in ScopedTo(list, None, cur.route, appID, RateLimiting)
<1>1. \A i \in Named(list, RateLimiting) :
        list[i].route = cur.route => list[i].service = None /\ list[i].consumer = appID
    BY OnlyItsLimits
<1>2. getSpecificPlugin(list, None, cur.route, appID, RateLimiting) # None
    BY DEF RateOf
<1>. QED
    BY <1>1, <1>2, RateLookupIsExact DEF RateOf

(* Kong lets the agent switch a limit of the route of the request only.      *)
LEMMA SwitchEffect ==
    ASSUME AccessInv, RatesListed,
           pc \in {"enableQuota", "disableQuota"}, NEW enabled \in BOOLEAN,
           UpdateForRoute(cur.route, RateOf(listed),
                          [listed[RateOf(listed)] EXCEPT !.enabled = enabled],
                          Finish("success"), Failure)
    PROVE  \/ RatesKept /\ outcome' = "failed"
           \/ \E i \in PluginIds : RateSwitched(i, enabled)
<1> DEFINE i == RateOf(listed)
           p == [listed[i] EXCEPT !.enabled = enabled]
<1>1. listed \in PluginTable /\ i # None
    BY DEF AccessInv, ListingIsFresh
<1>2. i \in Named(listed, RateLimiting)
    BY <1>1, LookupInListing DEF RateOf
<1>3. \/ UNCHANGED plugins /\ outcome' = "failed"
      \/ plugins' = [plugins EXCEPT ![i] = p] /\ plugins[i].route = cur.route
    BY DEF UpdateForRoute, OfRoute, Write, Refused, Jump, Failure, Finish, kong
<1>. HIDE DEF i
<1>4. /\ i \in Named(plugins, RateLimiting) /\ listed[i] = plugins[i] /\ i \in PluginIds
      /\ plugins[i] \in Plugin /\ plugins[i].name = RateLimiting
    BY <1>2 DEF RatesListed, Named, Present, AccessInv, TypeOK, PluginTable
<1>5. CASE plugins' = [plugins EXCEPT ![i] = p] /\ plugins[i].route = cur.route
    <2>1. /\ p = [plugins[i] EXCEPT !.enabled = enabled]
          /\ p \in Plugin
          /\ \A field \in {"name", "ws", "service", "route", "consumer"} :
                p[field] = plugins[i][field]
        BY <1>4 DEF Plugin
    <2>2. i \in Present(plugins)
        BY <1>4 DEF Named
    <2>. HIDE DEF p
    <2>3. /\ plugins'[i] = p
          /\ \A j \in PluginIds \ {i} : plugins'[j] = plugins[j]
          /\ Named(plugins, RateLimiting)' = Named(plugins, RateLimiting)
        BY <1>5, <2>1, <2>2, PluginWritten
    <2>4. Named(plugins, RateLimiting) \subseteq PluginIds
        BY DEF Named, Present
    <2>5. RateSwitched(i, enabled)
        BY <1>4, <1>5, <2>1, <2>3, <2>4 DEF RateSwitched
    <2>. QED
        BY <1>4, <2>5
<1>. QED
    BY <1>3, <1>5, NoPluginWritten

(* The creation of a limit.                                                  *)
LEMMA CreateEffect ==
    ASSUME AccessInv, CreateQuota
    PROVE  \/ RatesKept /\ outcome' = "failed"
           \/ \E i \in PluginIds : RateCreated(i)
<1> DEFINE p == NewPlugin(RateLimiting, CurWs, cur.route, appID, {}, quota[CurPair])
<1>1. \/ UNCHANGED plugins /\ outcome' = "failed"
      \/ \E i \in PluginIds \ Present(plugins) : plugins' = [plugins EXCEPT ![i] = p]
    BY DEF CreateQuota, CreateForRoute, Write, Refused, Jump, Failure, Finish, kong
<1>2. ASSUME NEW i \in PluginIds \ Present(plugins), plugins' = [plugins EXCEPT ![i] = p]
      PROVE  RateCreated(i)
    <2>1. /\ pc \in (ProvisionSteps \cup DeprovisionSteps) \ AppSteps /\ pc \in ProvisionSteps
          /\ pc \notin AppSteps /\ pc # "report" /\ pc = "createQuota"
        BY DEF CreateQuota, ProvisionSteps, DeprovisionSteps, AppSteps, WithoutApp
    <2>2. /\ CurWs \in Workspaces /\ cur.app \in Apps /\ cur.route \in Routes
          /\ appID \in ConsumerIds
        BY <2>1, OnPlugins
    <2>3. quota[CurPair] \in Limits \cup {None}
        <3>1. quota[CurPair] # Weekly
            BY <2>1, OnPlugins DEF AccessInv, WorksOnRequest
        <3>2. CurPair \in Requests
            BY <2>2 DEF CurPair, Requests
        <3>. QED
            BY <3>1, <3>2, QuotasAssumption DEF AccessInv, TypeOK
    <2>4. p \in Plugin /\ p.name = RateLimiting
        BY <2>2, <2>3 DEF NewPlugin, Plugin
    <2>5. RateAdded(i, p)
        <3>. HIDE DEF p
        <3>1. TypeOK
            BY DEF AccessInv
        <3>. QED
            BY <1>2, <2>4, <3>1, RateIsAdded
    <2>. QED
        BY <2>5 DEF RateCreated
<1>. QED
    BY <1>1, <1>2, NoPluginWritten

(* What a step does to the limits, and what it knows when it does.           *)
LEMMA LimitsStep ==
    ASSUME AccessInv, RatesListed, [Next]_vars
    PROVE  \/ RatesKept
           \/ EnableQuota /\ \E i \in PluginIds : RateSwitched(i, TRUE)
           \/ DisableQuota /\ \E i \in PluginIds : RateSwitched(i, FALSE)
           \/ CreateQuota /\ \E i \in PluginIds : RateCreated(i)
           \/ Operator /\ \E i \in PluginIds : LimitAdded(i)
<1>1. CASE EnableQuota
    BY <1>1, SwitchEffect DEF EnableQuota
<1>2. CASE DisableQuota
    BY <1>2, SwitchEffect DEF DisableQuota
<1>3. CASE CreateQuota
    BY <1>3, CreateEffect
<1>. QED
    BY <1>1, <1>2, <1>3, RatesStep

(* Whatever a step does, the limits there are stay, with their scopes.       *)
ScopesStay ==
    \A i \in Named(plugins, RateLimiting) :
        /\ i \in Named(plugins, RateLimiting)'
        /\ \A field \in {"service", "route", "consumer"} : plugins'[i][field] = plugins[i][field]

LEMMA ScopesStep ==
    ASSUME AccessInv, RatesListed, [Next]_vars
    PROVE  ScopesStay
<1>1. RatesKept => ScopesStay
    BY DEF RatesKept, ScopesStay
<1>2. ASSUME NEW i \in PluginIds, NEW enabled, RateSwitched(i, enabled)
      PROVE  ScopesStay
    <2>1. plugins[i] \in Plugin
        BY <1>2 DEF RateSwitched, AccessInv, TypeOK, PluginTable, Named, Present
    <2>2. \A field \in {"service", "route", "consumer"} : plugins'[i][field] = plugins[i][field]
        BY <1>2, <2>1 DEF RateSwitched, Plugin
    <2>. QED
        BY <1>2, <2>2 DEF RateSwitched, ScopesStay
<1>3. ASSUME NEW i \in PluginIds, NEW p, RateAdded(i, p)
      PROVE  ScopesStay
    BY <1>3 DEF RateAdded, ScopesStay
<1>. QED
    BY <1>1, <1>2, <1>3, LimitsStep DEF RateCreated, LimitAdded

(* A request that was made is never again one that was not.                  *)
LEMMA AskedStays ==
    ASSUME AccessInv, [Next]_vars, NEW p \in Requests, status[p] # "none"
    PROVE  status'[p] # "none"
<1>1. CASE Users
    <2>1. PICK a \in Apps, r \in Routes :
            \/ \E q \in Quotas : RequestAccess(a, r, q)
            \/ DeleteAccess(a, r)
            \/ Retry(a, r)
        BY <1>1 DEF Users
    <2>2. \E s \in {"pending", "deleting"} : status' = [status EXCEPT ![<<a, r>>] = s]
        BY <2>1 DEF RequestAccess, DeleteAccess, Retry
    <2>. QED
        BY <2>2 DEF AccessInv, TypeOK
<1>2. CASE Report
    <2>1. /\ status' = [status EXCEPT ![CurPair] = Answer]
          /\ cur \in CurRequest /\ outcome \in {"success", "failed"}
        BY <1>2 DEF Report, AccessInv, TypeOK, WorksOnRequest
    <2>2. Answer # "none"
        BY <2>1 DEF Answer, CurRequest
    <2>. QED
        BY <2>1, <2>2 DEF AccessInv, TypeOK
<1>. QED
    BY <1>1, <1>2, StatusKept

(* The agent creates its limits for a consumer of the workspace and a        *)
(* request that was made.                                                    *)
LEMMA RateShapeStep ==
    ASSUME AccessInv, RateShape, RatesListed, [Next]_vars
    PROVE  RateShape'
<1> DEFINE Old(c, r, s) ==
              /\ r # None
              /\ s = None
              /\ consumers[c] # None
              /\ consumers[c].ws = WorkspaceOf[r]
              /\ status[<<consumers[c].username, r>>] # "none"
           New(c, r, s) ==
              /\ r # None
              /\ s = None
              /\ consumers'[c] # None
              /\ consumers'[c].ws = WorkspaceOf[r]
              /\ status'[<<consumers'[c].username, r>>] # "none"
<1>1. ASSUME NEW c \in ConsumerIds, NEW r \in Routes, NEW s, Old(c, r, s)
      PROVE  New(c, r, s)
    <2>1. /\ consumers'[c] # None /\ consumers'[c].ws = consumers[c].ws
          /\ consumers'[c].username = consumers[c].username
        BY <1>1, ConsumersStep DEF ConsumersKept
    <2>2. <<consumers[c].username, r>> \in Requests
        BY <1>1 DEF AccessInv, TypeOK, Consumer, Requests
    <2>3. status'[<<consumers[c].username, r>>] # "none"
        BY <1>1, <2>2, AskedStays
    <2>. QED
        BY <1>1, <2>1, <2>3
<1>2. ASSUME NEW i \in Named(plugins, RateLimiting), plugins'[i].consumer # None
      PROVE  New(plugins'[i].consumer, plugins'[i].route, plugins'[i].service)
    <2>1. /\ plugins'[i].consumer = plugins[i].consumer
          /\ plugins'[i].route = plugins[i].route
          /\ plugins'[i].service = plugins[i].service
        BY ScopesStep DEF ScopesStay
    <2>2. plugins[i] \in Plugin
        BY DEF AccessInv, TypeOK, PluginTable, Named, Present
    <2>3. Old(plugins[i].consumer, plugins[i].route, plugins[i].service)
        BY <1>2, <2>1 DEF RateShape
    <2>4. plugins[i].consumer \in ConsumerIds /\ plugins[i].route \in Routes
        BY <1>2, <2>1, <2>2, <2>3 DEF Plugin
    <2>. HIDE DEF Old, New
    <2>5. New(plugins[i].consumer, plugins[i].route, plugins[i].service)
        BY <1>1, <2>3, <2>4
    <2>. QED
        BY <2>1, <2>5
<1>3. ASSUME NEW i \in PluginIds, RateCreated(i), CreateQuota
      PROVE  New(plugins'[i].consumer, plugins'[i].route, plugins'[i].service)
    <2>1. pc \in (ProvisionSteps \cup DeprovisionSteps) \ AppSteps
        BY <1>3 DEF CreateQuota, ProvisionSteps, DeprovisionSteps, AppSteps, WithoutApp
    <2>2. /\ CurWs = WorkspaceOf[cur.route] /\ cur.route \in Routes /\ appID \in ConsumerIds
          /\ consumers[appID] # None /\ consumers[appID].ws = CurWs
          /\ consumers[appID].username = cur.app
        BY <2>1, OnPlugins
    <2>3. /\ plugins'[i].service = None
          /\ plugins'[i].consumer = appID /\ plugins'[i].route = cur.route
        BY <1>3 DEF RateCreated, RateAdded, NewPlugin
    <2>4. status[<<cur.app, cur.route>>] # "none"
        <3>1. cur # None
            BY <1>3 DEF CreateQuota, AccessInv, WorksOnRequest
        <3>. QED
            BY <3>1 DEF AccessInv, WorksOnRequest, CurPair
    <2>5. Old(appID, cur.route, None)
        BY <2>2, <2>4, NoneAssumption
    <2>. HIDE DEF Old, New
    <2>6. PICK c \in ConsumerIds, r \in Routes : c = appID /\ r = cur.route
        BY <2>2
    <2>7. New(c, r, None)
        BY <1>1, <2>5, <2>6
    <2>. QED
        BY <2>3, <2>6, <2>7
<1>4. ASSUME NEW i \in PluginIds, LimitAdded(i)
      PROVE  plugins'[i].consumer = None
    BY <1>4 DEF LimitAdded, RateAdded, NewPlugin
<1>5. ASSUME NEW j \in Named(plugins, RateLimiting)', j \notin Named(plugins, RateLimiting)
      PROVE  \/ RateCreated(j) /\ CreateQuota
             \/ LimitAdded(j)
    <2>1. \/ \E i \in PluginIds : RateCreated(i) /\ CreateQuota
          \/ \E i \in PluginIds : LimitAdded(i)
        BY <1>5, LimitsStep DEF RatesKept, RateSwitched
    <2>2. ASSUME NEW i \in PluginIds, NEW p, RateAdded(i, p)
          PROVE  j = i
        BY <1>5, <2>2 DEF RateAdded
    <2>. QED
        BY <2>1, <2>2 DEF RateCreated, LimitAdded
<1>6. ASSUME NEW j \in Named(plugins, RateLimiting)', plugins'[j].consumer # None
      PROVE  New(plugins'[j].consumer, plugins'[j].route, plugins'[j].service)
    <2>1. j \in PluginIds
        BY DEF Named, Present
    <2>. HIDE DEF Old, New
    <2>. QED
        BY <1>2, <1>3, <1>4, <1>5, <1>6, <2>1
<1>. QED
    BY <1>6 DEF RateShape

(* Who has a route to itself had it so before: requests and limits of others *)
(* do not go away.                                                           *)
LEMMA SoleUserBefore ==
    ASSUME AccessInv, RatesListed, [Next]_vars, NEW a \in Apps, NEW r \in Routes,
           SoleUser(a, r)'
    PROVE  SoleUser(a, r)
<1>1. ASSUME NEW b \in Apps \ {a}
      PROVE  status[<<b, r>>] = "none"
    <2>1. <<b, r>> \in Requests
        BY DEF Requests
    <2>2. status'[<<b, r>>] = "none"
        BY DEF SoleUser
    <2>. QED
        BY <2>1, <2>2, AskedStays
<1>2. ASSUME NEW i \in Named(plugins, RateLimiting), plugins[i].route = r
      PROVE  plugins[i].consumer # None
    <2>1. /\ i \in Named(plugins, RateLimiting)'
          /\ plugins'[i].route = plugins[i].route /\ plugins'[i].consumer = plugins[i].consumer
        BY ScopesStep DEF ScopesStay
    <2>. QED
        BY <1>2, <2>1 DEF SoleUser
<1>. QED
    BY <1>1, <1>2 DEF SoleUser

(* A listing is fresh when it is made, and nobody but the agent itself       *)
(* changes a limit.                                                          *)
LEMMA RatesListedStep ==
    ASSUME AccessInv, RatesListed, [Next]_vars
    PROVE  RatesListed'
<1>1. CASE ListForQuota \/ ListForRevoke
    <2>1. pc' \in {"enableQuota", "revokeACL", "disableQuota"} =>
            /\ listed' = ListAll(plugins, CurWs) /\ UNCHANGED <<plugins, cur>>
        BY <1>1 DEF ListForQuota, ListForRevoke, ListPlugins, Jump, Failure, Finish, kong
    <2>. QED
        BY <2>1 DEF RatesListed, ListAll, Named, Present, CurWs
<1>2. ASSUME UNCHANGED <<listed, cur>>, RatesStay,
             pc' \in {"enableQuota", "revokeACL", "disableQuota"}
                => pc \in {"enableQuota", "revokeACL", "disableQuota"}
      PROVE  RatesListed'
    <2>1. CurWs' = CurWs /\ Named(listed, RateLimiting)' = Named(listed, RateLimiting)
        BY <1>2 DEF CurWs, Named, Present
    <2>. QED
        BY <1>2, <2>1 DEF RatesListed, RatesStay
<1>3. CASE RevokeACL \/ Users \/ Operator \/ UNCHANGED vars
    <2>1. /\ UNCHANGED <<listed, cur>>
          /\ pc = "revokeACL" \/ UNCHANGED pc
        BY <1>3 DEF RevokeACL, UpdateForRoute, DeleteForRoute, Write, Refused, Users, RequestAccess,
            DeleteAccess, Retry, Operator, OperatorProtect, OperatorLimit, OperatorAllow,
            OperatorDisallow,
            OperatorDisable, agent, vars
    <2>2. (~EnableQuota /\ ~DisableQuota /\ ~CreateQuota) \/ UNCHANGED vars
        <3>1. CASE RevokeACL
            BY <3>1 DEF RevokeACL, EnableQuota, DisableQuota, CreateQuota
        <3>2. CASE Users \/ Operator
            <4>1. UNCHANGED pc
                BY <3>2 DEF Users, RequestAccess, DeleteAccess, Retry, Operator, OperatorProtect,
                    OperatorLimit,
                    OperatorAllow, OperatorDisallow, OperatorDisable, agent
            <4>2. EnableQuota \/ DisableQuota \/ CreateQuota =>
                    pc \in {"enableQuota", "disableQuota", "createQuota"} /\ pc' = "report"
                BY DEF EnableQuota, DisableQuota, CreateQuota, CreateForRoute, UpdateForRoute,
                    Write, Refused, Jump, Failure, Finish
            <4>. QED
                BY <4>1, <4>2
        <3>. QED
            BY <1>3, <3>1, <3>2
    <2>3. RatesStay
        BY <2>2, RatesStep, NoPluginWritten
        DEF vars, kong, RatesKept, RatesStay, LimitAdded, RateAdded
    <2>. QED
        BY <1>2, <2>1, <2>3
<1>4. CASE Start \/ ProvisionApp \/ Crash \/ Report
    <2>1. pc' \in {"idle", "getApp", "getConsumer", "createConsumer", "addGroup", "saveDetails",
                   "listForGrant", "listForRevoke", "report"}
        BY <1>4 DEF Start, StartProvision, StartDeprovision, ProvisionApp, GetManagedApplication,
            GetConsumer, CreateConsumer, AddConsumerACL, UpdateManagedAppDetails, AfterApp, Crash,
            Report, Rest, Jump, Failure, Finish, Goto
    <2>. QED
        BY <2>1 DEF RatesListed
<1>5. CASE AddRouteACL \/ EnableQuota \/ CreateQuota \/ DisableQuota
    <2>1. pc' \in {"createACL", "updateACL", "listForQuota", "report"}
        BY <1>5 DEF AddRouteACL, ListForGrant, CreateACL, UpdateACL, EnableQuota, CreateQuota,
            DisableQuota, ListPlugins, GrantFrom, AfterGrant, CreateForRoute, UpdateForRoute,
            Write, Refused, Jump, Failure, Finish, Goto
    <2>. QED
        BY <2>1 DEF RatesListed
<1>. QED
    BY <1>1, <1>3, <1>4, <1>5 DEF Next, Handler, AddQuota, RemoveRouteACL

(* A limit in force on a route the application has to itself stays, unless   *)
(* it is switched off for its own request.                                   *)
LEMMA LimitedStep ==
    ASSUME AccessInv, RateShape, RatesListed, [Next]_vars,
           NEW a \in Apps, NEW r \in Routes, SoleUser(a, r), Limited(a, r, TRUE) # {},
           DisableQuota => ~(a = cur.app /\ r = cur.route)
    PROVE  Limited(a, r, TRUE)' # {}
<1>1. PICK j \in Named(plugins, RateLimiting) :
        /\ plugins[j].route = r /\ plugins[j].consumer # None /\ plugins[j].enabled = TRUE
        /\ consumers[plugins[j].consumer].username = a
    BY DEF Limited
<1>2. plugins[j] \in Plugin
    BY DEF AccessInv, TypeOK, PluginTable, Named, Present
<1>3. /\ plugins[j].consumer \in ConsumerIds /\ consumers[plugins[j].consumer] # None
    BY <1>1, <1>2 DEF RateShape, Plugin
<1>4. consumers'[plugins[j].consumer].username = a
    BY <1>1, <1>3, ConsumersStep DEF ConsumersKept
<1>5. ASSUME j \in Named(plugins, RateLimiting)', plugins'[j].route = r,
             plugins'[j].consumer = plugins[j].consumer, plugins'[j].enabled = TRUE
      PROVE  Limited(a, r, TRUE)' # {}
    BY <1>1, <1>4, <1>5 DEF Limited
<1>6. CASE RatesKept
    BY <1>1, <1>5, <1>6 DEF RatesKept
<1>7. ASSUME NEW i \in PluginIds, RateSwitched(i, TRUE)
      PROVE  Limited(a, r, TRUE)' # {}
    <2>1. CASE j = i
        BY <1>1, <1>2, <1>5, <1>7, <2>1 DEF RateSwitched, Plugin
    <2>2. CASE j # i
        BY <1>1, <1>5, <1>7, <2>2 DEF RateSwitched
    <2>. QED
        BY <2>1, <2>2
<1>8. ASSUME NEW i \in PluginIds, RateSwitched(i, FALSE), DisableQuota
      PROVE  Limited(a, r, TRUE)' # {}
    <2>1. cur \in CurRequest /\ status[<<cur.app, cur.route>>] = "deleting"
        BY <1>8 DEF DisableQuota, AccessInv, TypeOK, WorksOnRequest, DeprovisionSteps, CurPair
    <2>2. cur.app \in Apps
        BY <2>1 DEF CurRequest
    <2>3. r = cur.route => a = cur.app
        BY <2>1, <2>2 DEF SoleUser
    <2>4. j # i
        BY <1>1, <1>8, <2>3 DEF RateSwitched
    <2>. QED
        BY <1>1, <1>5, <1>8, <2>4 DEF RateSwitched
<1>9. ASSUME NEW i \in PluginIds, NEW p, RateAdded(i, p)
      PROVE  Limited(a, r, TRUE)' # {}
    BY <1>1, <1>5, <1>9 DEF RateAdded
<1>. QED
    BY <1>6, <1>7, <1>8, <1>9, LimitsStep DEF RateCreated, LimitAdded

(* A limit of the route and consumer of the request is one of its            *)
(* application.                                                              *)
LEMMA LimitOfRequest ==
    ASSUME AccessInv, [Next]_vars, pc \in (ProvisionSteps \cup DeprovisionSteps) \ AppSteps,
           UNCHANGED cur, NEW i \in Named(plugins, RateLimiting)',
           plugins'[i].route = cur.route, plugins'[i].consumer = appID, plugins'[i].enabled = TRUE
    PROVE  Limited(cur.app, cur.route, TRUE)' # {}
<1>1. appID \in ConsumerIds /\ consumers[appID] # None /\ consumers[appID].username = cur.app
    BY OnPlugins
<1>2. consumers'[appID].username = cur.app
    BY <1>1, ConsumersStep DEF ConsumersKept
<1>. QED
    BY <1>1, <1>2, NoneAssumption DEF Limited

(* The listing of AddQuota finishes with success only where the limit is on. *)
LEMMA ListForQuotaFindsLimit ==
    ASSUME AccessInv, RateShape, SoleUser(cur.app, cur.route), [Next]_vars,
           ListForQuota, outcome' = "success"
    PROVE  Limited(cur.app, cur.route, TRUE)' # {}
<1> DEFINE list == ListAll(plugins, CurWs)
           i    == RateOf(list)
<1>1. pc \in (ProvisionSteps \cup DeprovisionSteps) \ AppSteps
    BY DEF ListForQuota, ProvisionSteps, DeprovisionSteps, AppSteps, WithoutApp
<1>2. list \in PluginTable
    BY ListAllIsTable DEF AccessInv, TypeOK
<1>3. listed' = list /\ Jump(LimitFrom(listed')) /\ UNCHANGED <<kong, cur>>
    BY OutcomeAssumption DEF ListForQuota, ListPlugins, Jump, Failure, Finish
<1>4. i # None /\ list[i].enabled
    BY <1>3, OutcomeAssumption DEF LimitFrom, Jump, Goto
<1>5. \A j \in Named(list, RateLimiting) :
        j \in Named(plugins, RateLimiting) /\ list[j] = plugins[j]
    BY DEF ListAll, Named, Present
<1>6. /\ i \in Named(list, RateLimiting) /\ list[i].route = cur.route /\ list[i].consumer = appID
    <2>1. i \in ScopedTo(list, None, cur.route, appID, RateLimiting)
        BY <1>1, <1>2, <1>4, <1>5, RateFound
    <2>. QED
        BY <2>1 DEF ScopedTo
<1>. HIDE DEF list, i
<1>7. i \in Named(plugins, RateLimiting)' /\ plugins'[i] = list[i]
    BY <1>3, <1>5, <1>6 DEF kong, Named, Present
<1>8. plugins'[i].enabled = TRUE
    <2>1. plugins[i] \in Plugin /\ plugins[i] = list[i]
        BY <1>5, <1>6 DEF AccessInv, TypeOK, PluginTable, Named, Present
    <2>. QED
        BY <1>4, <1>7, <2>1 DEF Plugin
<1>. QED
    BY <1>1, <1>3, <1>6, <1>7, <1>8, LimitOfRequest

(* The agent decides on success only when the limit is in force.             *)
LEMMA LimitedBeforeReportStep ==
    ASSUME AccessInv, RateShape, RatesListed, LimitedBeforeReport, [Next]_vars
    PROVE  LimitedBeforeReport'
<1>. SUFFICES ASSUME cur' # None, cur'.op = "provision", pc' = "report", outcome' = "success",
                     quota'[<<cur'.app, cur'.route>>] \in Limits, ~AclDisable,
                     SoleUser(cur.app, cur.route)'
              PROVE  Limited(cur.app, cur.route, TRUE)' # {}
    BY DEF LimitedBeforeReport, CurPair
<1>1. ASSUME UNCHANGED cur
      PROVE  SoleUser(cur.app, cur.route)
    <2>1. PICK a \in Apps, r \in Routes : a = cur.app /\ r = cur.route
        BY <1>1 DEF AccessInv, TypeOK, CurRequest
    <2>2. SoleUser(a, r)'
        BY <1>1, <2>1 DEF SoleUser
    <2>. QED
        BY <2>1, <2>2, SoleUserBefore
<1>2. CASE Users \/ Operator \/ UNCHANGED vars
    <2>1. UNCHANGED <<cur, pc, outcome>>
        BY <1>2 DEF Users, RequestAccess, DeleteAccess, Retry, Operator, OperatorProtect,
            OperatorLimit, OperatorAllow, OperatorDisallow, OperatorDisable, agent, vars
    <2>2. cur.app \in Apps /\ cur.route \in Routes /\ status[<<cur.app, cur.route>>] = "pending"
          /\ <<cur.app, cur.route>> \in Requests
        BY <2>1 DEF AccessInv, TypeOK, CurRequest, WorksOnRequest, CurPair, Requests
    <2>3. quota'[<<cur.app, cur.route>>] = quota[<<cur.app, cur.route>>]
        <3>1. CASE Users
            <4>1. \/ UNCHANGED quota
                  \/ \E a \in Apps, r \in Routes, q \in Quotas :
                        /\ status[<<a, r>>] \in {"none", "deleted"}
                        /\ quota' = [quota EXCEPT ![<<a, r>>] = q]
                BY <3>1 DEF Users, RequestAccess, DeleteAccess, Retry
            <4>. QED
                BY <2>2, <4>1 DEF AccessInv, TypeOK
        <3>2. CASE Operator \/ UNCHANGED vars
            BY <3>2 DEF Operator, OperatorProtect, OperatorLimit, OperatorAllow,
                OperatorDisallow, OperatorDisable, central, vars
        <3>. QED
            BY <1>2, <3>1, <3>2
    <2>4. SoleUser(cur.app, cur.route) /\ Limited(cur.app, cur.route, TRUE) # {}
        BY <1>1, <2>1, <2>3 DEF LimitedBeforeReport, CurPair
    <2>5. ~DisableQuota
        BY <2>1 DEF DisableQuota
    <2>6. PICK a \in Apps, r \in Routes : a = cur.app /\ r = cur.route
        BY <2>2
    <2>7. Limited(a, r, TRUE)' # {}
        BY <2>4, <2>5, <2>6, LimitedStep
    <2>. QED
        BY <2>1, <2>6, <2>7 DEF Limited
<1>3. CASE ListForQuota
    <2>1. UNCHANGED cur
        BY <1>3 DEF ListForQuota, ListPlugins
    <2>. QED
        BY <1>1, <1>3, <2>1, ListForQuotaFindsLimit
<1>4. CASE EnableQuota
    <2>1. /\ pc \in (ProvisionSteps \cup DeprovisionSteps) \ AppSteps
          /\ pc \in {"enableQuota", "disableQuota"} /\ UNCHANGED cur
        BY <1>4 DEF EnableQuota, UpdateForRoute, Write, Refused, ProvisionSteps,
            DeprovisionSteps, AppSteps, WithoutApp
    <2>2. PICK i \in PluginIds : RateSwitched(i, TRUE)
        BY <1>4, <2>1, SwitchEffect DEF EnableQuota
    <2>3. plugins[i] \in Plugin
        BY <2>2 DEF RateSwitched, AccessInv, TypeOK, PluginTable, Named, Present
    <2>4. plugins[i].consumer = appID
        BY <1>1, <2>1, <2>2, OnlyItsLimits DEF RateSwitched
    <2>5. /\ i \in Named(plugins, RateLimiting)' /\ plugins'[i].route = cur.route
          /\ plugins'[i].consumer = appID /\ plugins'[i].enabled = TRUE
        BY <2>2, <2>3, <2>4 DEF RateSwitched, Plugin
    <2>. QED
        BY <2>1, <2>5, LimitOfRequest
<1>5. CASE CreateQuota
    <2>1. pc \in (ProvisionSteps \cup DeprovisionSteps) \ AppSteps /\ UNCHANGED cur
        BY <1>5 DEF CreateQuota, CreateForRoute, Write, Refused, ProvisionSteps,
            DeprovisionSteps, AppSteps, WithoutApp
    <2>2. PICK i \in PluginIds : RateCreated(i)
        BY <1>5, CreateEffect
    <2>3. /\ i \in Named(plugins, RateLimiting)' /\ plugins'[i].route = cur.route
          /\ plugins'[i].consumer = appID /\ plugins'[i].enabled = TRUE
        BY <2>2 DEF RateCreated, RateAdded, NewPlugin
    <2>. QED
        BY <2>1, <2>3, LimitOfRequest
<1>6. CASE AddRouteACL
    <2>1. UNCHANGED <<cur, quota>> /\ pc' = AfterGrant.pc
        BY <1>6, OutcomeAssumption DEF AddRouteACL, ListForGrant, CreateACL, UpdateACL, ListPlugins,
            GrantFrom, CreateForRoute, UpdateForRoute, Write, Refused, Jump, Failure, Finish, Goto,
            central
    <2>2. quota[<<cur.app, cur.route>>] = None
        BY <2>1 DEF AfterGrant, Goto, CurPair
    <2>. QED
        BY <2>1, <2>2, NoneAssumption
<1>7. CASE Start \/ ProvisionApp
    <2>1. cur'.op = "deprovision" \/ outcome' # "success"
        BY <1>7, OutcomeAssumption DEF Start, StartProvision, StartDeprovision, ProvisionApp,
            GetManagedApplication, GetConsumer, CreateConsumer, AddConsumerACL,
            UpdateManagedAppDetails, AfterApp, Jump, Failure, Finish, Goto
    <2>. QED
        BY <2>1
<1>8. CASE RemoveRouteACL
    <2>1. pc \in DeprovisionSteps /\ UNCHANGED cur
        BY <1>8 DEF RemoveRouteACL, ListForRevoke, RevokeACL, DisableQuota, ListPlugins,
            UpdateForRoute, DeleteForRoute, Write, Refused, DeprovisionSteps
    <2>. QED
        BY <2>1 DEF AccessInv, WorksOnRequest
<1>9. CASE Crash \/ Report
    BY <1>9 DEF Crash, Report, Rest
<1>. QED
    BY <1>2, <1>3, <1>4, <1>5, <1>6, <1>7, <1>8, <1>9 DEF Next, Handler, AddQuota

(* Only the users of Central choose quotas.                                  *)
LEMMA QuotaKept ==
    ASSUME [Next]_vars, ~Users
    PROVE  UNCHANGED quota
<1>1. CASE ProvisionApp
    BY <1>1 DEF ProvisionApp, GetManagedApplication, GetConsumer, CreateConsumer,
        AddConsumerACL, UpdateManagedAppDetails, central
<1>2. CASE ListForGrant \/ ListForQuota \/ ListForRevoke
    BY <1>2 DEF ListForGrant, ListForQuota, ListForRevoke, ListPlugins, central
<1>3. CASE CreateACL \/ CreateQuota
    BY <1>3 DEF CreateACL, CreateQuota, CreateForRoute, Write, Refused, central
<1>4. CASE UpdateACL \/ EnableQuota \/ DisableQuota \/ RevokeACL
    BY <1>4 DEF UpdateACL, EnableQuota, DisableQuota, RevokeACL, UpdateForRoute, DeleteForRoute,
        Write, Refused, central
<1>5. CASE Start \/ Crash \/ Operator \/ Report \/ UNCHANGED vars
    BY <1>5 DEF Start, StartProvision, StartDeprovision, Crash, Operator, OperatorProtect,
        OperatorLimit,
        OperatorAllow, OperatorDisallow, OperatorDisable, Report, vars, central
<1>. QED
    BY <1>1, <1>2, <1>3, <1>4, <1>5
    DEF Next, Handler, AddRouteACL, AddQuota, RemoveRouteACL

(* A granted request on a route of its own keeps its limit, and becomes      *)
(* granted only with it.                                                     *)
LEMMA QuotaStep ==
    ASSUME AccessInv, QuotaInv, [Next]_vars
    PROVE  QuotaOfSoleUser'
<1>. SUFFICES ASSUME NEW a \in Apps, NEW r \in Routes, status'[<<a, r>>] = "granted",
                     quota'[<<a, r>>] \in Limits, ~AclDisable, SoleUser(a, r)'
              PROVE  Limited(a, r, TRUE)' # {}
    BY DEF QuotaOfSoleUser, HasQuota
<1>. USE DEF QuotaInv
<1>1. <<a, r>> \in Requests /\ SoleUser(a, r)
    BY SoleUserBefore DEF Requests
<1>2. ASSUME Users
      PROVE  /\ status[<<a, r>>] = "granted"
             /\ quota'[<<a, r>>] = quota[<<a, r>>]
    <2>1. PICK b \in Apps, q \in Routes :
            \/ \E limit \in Quotas : RequestAccess(b, q, limit)
            \/ DeleteAccess(b, q)
            \/ Retry(b, q)
        BY <1>2 DEF Users
    <2>2. <<b, q>> \in Requests
        BY DEF Requests
    <2>3. CASE \E limit \in Quotas : RequestAccess(b, q, limit)
        BY <1>1, <2>2, <2>3 DEF RequestAccess, AccessInv, TypeOK
    <2>4. CASE DeleteAccess(b, q)
        BY <1>1, <2>2, <2>4 DEF DeleteAccess, AccessInv, TypeOK
    <2>5. CASE Retry(b, q)
        BY <1>1, <2>2, <2>5 DEF Retry, AccessInv, TypeOK
    <2>. QED
        BY <2>1, <2>3, <2>4, <2>5
<1>3. ASSUME ~Users
      PROVE  UNCHANGED quota
    BY <1>3, QuotaKept
<1>4. CASE status[<<a, r>>] = "granted"
    <2>1. Limited(a, r, TRUE) # {}
        BY <1>1, <1>2, <1>3, <1>4 DEF QuotaOfSoleUser, HasQuota
    <2>2. DisableQuota => ~(a = cur.app /\ r = cur.route)
        <3>1. DisableQuota => /\ cur # None /\ cur.op = "deprovision"
            BY DEF DisableQuota, AccessInv, WorksOnRequest, DeprovisionSteps
        <3>. QED
            BY <1>4, <3>1 DEF AccessInv, WorksOnRequest, CurPair
    <2>. QED
        BY <1>1, <2>1, <2>2, LimitedStep
<1>5. CASE status[<<a, r>>] # "granted"
    <2>1. Report
        BY <1>2, <1>5, StatusKept
    <2>2. /\ <<a, r>> = CurPair /\ cur.op = "provision" /\ outcome = "success" /\ cur # None
          /\ a = cur.app /\ r = cur.route /\ UNCHANGED kong
        BY <1>1, <1>5, <2>1, Reporting DEF AccessInv, TypeOK
    <2>3. pc = "report" /\ UNCHANGED quota
        BY <2>1 DEF Report
    <2>4. Limited(a, r, TRUE) # {}
        BY <1>1, <2>2, <2>3 DEF LimitedBeforeReport
    <2>. QED
        BY <2>2, <2>4 DEF Limited, Named, Present, kong
<1>. QED
    BY <1>4, <1>5

(* A granted request with a quota has its limit in force as long as its      *)
(* application has the route to itself, whatever limits there are on other   *)
(* routes, whoever's, and in whatever order Kong lists them (provisioning.go *)
(* 220-256).                                                                 *)
THEOREM QuotaOfSoleUsers == Spec => []QuotaOfSoleUser
<1>1. Init => QuotaInv
    <2>1. ASSUME Init
          PROVE  \A i \in Named(plugins, RateLimiting) : plugins[i].consumer = None
        BY <2>1, InitialPluginsAssumption DEF Init, Named
    <2>. QED
        BY <2>1 DEF Init, QuotaInv, RateShape, RatesListed, LimitedBeforeReport,
            QuotaOfSoleUser, HasQuota, Requests
<1>2. AccessInv /\ QuotaInv /\ [Next]_vars => QuotaInv'
    BY RateShapeStep, RatesListedStep, LimitedBeforeReportStep, QuotaStep DEF QuotaInv
<1>3. QuotaInv => QuotaOfSoleUser
    BY DEF QuotaInv
<1>. QED
    BY <1>1, <1>2, <1>3, AccessInvariant, PTL DEF Spec
=============================================================================
