----------------------- MODULE CredentialProvisioning -----------------------
(***************************************************************************)
(* How the discovery agent provisions managed applications and             *)
(* credentials: application.go, credential.go and builder.go under         *)
(* pkg/discovery/subscription, and the calls of                            *)
(* pkg/discovery/kong/provisioning.go they make.                           *)
(*                                                                         *)
(* As with access requests (AccessProvisioning) the agent handles one      *)
(* request at a time, every call to Kong is a step, a call may fail or its *)
(* answer be lost, and the agent may crash and be given the unanswered     *)
(* request again.                                                          *)
(***************************************************************************)
EXTENDS Naturals, Sequences, FiniteSets, SequencesExt

CONSTANTS
    None,
    Apps,            \* managed applications
    Credentials,     \* credential resources
    AppOf,           \* the application of each credential
    WsOf,            \* the workspace in the name of its definition, None if the
                     \* name has no known type
    KindOf,          \* the type in that name
    Default,         \* the default workspace
    Configurations,  \* the lists of workspaces the agent may be configured with
    MaxRequests,     \* bound on the requests of Central
    MaxFaults        \* bound on failed calls and crashes together

Kinds      == {"api-key", "http-basic", "oauth-secret"}
Workspaces == UNION Configurations \cup {Default}
Consumers  == Apps \X Workspaces

ASSUME CredentialsAssumption ==
    /\ AppOf \in [Credentials -> Apps]
    /\ WsOf \in [Credentials -> Workspaces \cup {None}]
    /\ KindOf \in [Credentials -> Kinds]
ASSUME ConfigurationsAssumption ==
    \A configuration \in Configurations : IsFiniteSet(configuration)
ASSUME BoundsAssumption == MaxRequests \in Nat /\ MaxFaults \in Nat

Ids == 1..(MaxRequests + MaxFaults)

Entity == [consumer : Consumers, kind : Kinds, name : Ids, secret : Ids, live : BOOLEAN]
Record == [consumer : Consumers, id : Ids, name : Ids \cup {None}, secret : Ids]
Ops    == {"provisionApp", "deprovisionApp", "provision", "update", "deprovision"}
Answer == [result : {"success", "failed"}, gone : BOOLEAN, record : Record \cup {None}]

ASSUME NoneAssumption ==
    /\ None \notin Workspaces \cup Consumers \cup Ids
    /\ None \notin Record /\ None \notin Answer

VARIABLES
    (* Kong *)
    configured, \* the workspaces of it that the agent is configured with
    consumers,  \* the consumers; that of application a in workspace w is <<a, w>>
    creds,      \* every credential Kong ever created, by identifier
    (* Central *)
    recorded,   \* the consumers in the agent details of their application
    app,        \* app[a]: the state of application a
    status,     \* status[c]: the state of credential c
    rec,        \* rec[c]: the agent details and the secret of credential c
    (* the agent *)
    pc,         \* the call it makes next
    cur,        \* the request in hand
    todo,       \* the workspaces that application deprovisioning has left
    answer,     \* the request status it has decided on
    (* bounds *)
    requests, faults

kong    == <<configured, consumers, creds>>
central == <<recorded, app, status, rec>>
vars    == <<kong, central, pc, cur, todo, answer, requests, faults>>

TypeOK ==
    /\ configured \in Configurations
    /\ consumers \subseteq Consumers
    /\ recorded \subseteq Consumers
    /\ creds \in Seq(Entity) /\ Len(creds) <= MaxRequests + MaxFaults
    /\ app \in [Apps -> {"none", "pending", "active", "deleting", "deleteFailed", "removed"}]
    /\ status \in [Credentials -> {"none", "pending", "provisioned", "failed", "updating",
                                   "updateFailed", "deleting", "deleteFailed", "deleted"}]
    /\ rec \in [Credentials -> Record \cup {None}]
    /\ pc \in {"idle", "create", "delete", "getConsumer", "deleteConsumer", "report", "down"}
    /\ cur \in [op : Ops, on : Apps \cup Credentials] \cup {None}
    /\ todo \in Seq(Workspaces)
    /\ answer \in Answer \cup {None}
    /\ requests \in 0..MaxRequests
    /\ faults \in 0..MaxFaults

Init ==
    /\ configured \in Configurations
    /\ consumers = {} /\ creds = <<>> /\ recorded = {}
    /\ app = [a \in Apps |-> "none"]
    /\ status = [c \in Credentials |-> "none"]
    /\ rec = [c \in Credentials |-> None]
    /\ pc = "idle" /\ cur = None /\ todo = <<>> /\ answer = None
    /\ requests = 0 /\ faults = 0

Fault == faults < MaxFaults /\ faults' = faults + 1

-----------------------------------------------------------------------------
(* Central and its users. *)

Request ==
    /\ requests < MaxRequests
    /\ requests' = requests + 1
    /\ UNCHANGED <<kong, recorded, rec, pc, cur, todo, answer, faults>>

AppRequest(a) ==
    /\ \/ app[a] = "none" /\ app' = [app EXCEPT ![a] = "pending"]
       \/ app[a] \in {"active", "deleteFailed"} /\ app' = [app EXCEPT ![a] = "deleting"]
    /\ UNCHANGED status
    /\ Request

CredentialRequest(c) ==
    /\ WsOf[c] \in configured \cup {None}
    /\ \/ /\ status[c] \in {"none", "failed"}
          /\ app[AppOf[c]] = "active"
          /\ status' = [status EXCEPT ![c] = "pending"]
       \/ /\ status[c] \in {"provisioned", "updateFailed"}
          /\ status' = [status EXCEPT ![c] = "updating"]
       \/ /\ status[c] \in {"provisioned", "updateFailed", "failed", "deleteFailed"}
          /\ status' = [status EXCEPT ![c] = "deleting"]
    /\ UNCHANGED app
    /\ Request

(* What an access request does for an application, in short: it creates the  *)
(* consumer, and saves its identifier unless that fails.                     *)
ProvisionApp(a, w) ==
    /\ pc = "idle"
    /\ app[a] = "active"
    /\ w \in configured
    /\ <<a, w>> \notin recorded
    /\ consumers' = consumers \cup {<<a, w>>}
    /\ \/ recorded' = recorded \cup {<<a, w>>} /\ UNCHANGED faults
       \/ UNCHANGED recorded /\ Fault
    /\ UNCHANGED <<creds, configured, app, status, rec, pc, cur, todo, answer, requests>>

-----------------------------------------------------------------------------
(* How a handler goes on. *)

Goto(step) == pc' = step /\ UNCHANGED answer

Respond(result, gone, record) ==
    /\ pc' = "report"
    /\ answer' = [result |-> result, gone |-> gone, record |-> record]

Failed  == Respond("failed", FALSE, None)
Success == Respond("success", FALSE, None)

Take(op, on) == pc = "idle" /\ cur' = [op |-> op, on |-> on]

-----------------------------------------------------------------------------
(* Applications. *)

(* Nothing is done: the consumer comes with the first access request.        *)
StartProvisionApp(a) ==
    /\ app[a] = "pending"
    /\ Take("provisionApp", a)
    /\ Success
    /\ UNCHANGED <<kong, central, todo, requests, faults>>

(* NewApplicationProvisioner collects the consumers of the application in    *)
(* the workspaces the agent is configured with; a map gives them any order.  *)
StartDeprovisionApp(a) ==
    /\ app[a] = "deleting"
    /\ Take("deprovisionApp", a)
    /\ todo' \in SetToSeqs({w \in configured : <<a, w>> \in recorded})
    /\ IF todo' = <<>> THEN Failed ELSE Goto("getConsumer")
    /\ UNCHANGED <<kong, central, requests, faults>>

(* Mutants: the workspace just dealt with stays on the list; the first       *)
(* workspace is the last.                                                    *)
M_NextConsumer_stays ==
    /\ todo' = todo
    /\ IF todo' = <<>> THEN Success ELSE Goto("getConsumer")

M_NextConsumer_first == todo' = Tail(todo) /\ Success

NextConsumer ==
    /\ todo' = Tail(todo)
    /\ IF todo' = <<>> THEN Success ELSE Goto("getConsumer")

CurConsumer == <<cur.on, Head(todo)>>

(* DeleteConsumer looks the consumer up first; any error of the lookup       *)
(* counts as "already removed".                                              *)
GetConsumer ==
    /\ pc = "getConsumer"
    /\ \/ CurConsumer \in consumers /\ Goto("deleteConsumer") /\ UNCHANGED <<todo, faults>>
       \/ CurConsumer \notin consumers /\ NextConsumer /\ UNCHANGED faults
       \/ NextConsumer /\ Fault
    /\ UNCHANGED <<kong, central, cur, requests>>

(* Kong deletes the credentials of a consumer with the consumer. *)
Removed(x) ==
    /\ consumers' = consumers \ {x}
    /\ creds' = [k \in DOMAIN creds |->
                    IF creds[k].consumer = x THEN [creds[k] EXCEPT !.live = FALSE] ELSE creds[k]]
    /\ UNCHANGED configured

(* The first failure ends the deprovisioning. *)
DeleteConsumer ==
    /\ pc = "deleteConsumer"
    /\ \/ Removed(CurConsumer) /\ NextConsumer /\ UNCHANGED faults
       \/ Removed(CurConsumer) /\ Failed /\ UNCHANGED todo /\ Fault
       \/ Failed /\ UNCHANGED <<kong, todo>> /\ Fault
    /\ UNCHANGED <<central, cur, requests>>

-----------------------------------------------------------------------------
(* Credentials. *)

(* The consumer that the details of the application record for the workspace *)
(* of the credential.                                                        *)
ConsumerOf(c) ==
    IF <<AppOf[c], WsOf[c]>> \in recorded THEN <<AppOf[c], WsOf[c]>> ELSE None

StartProvision(c) ==
    /\ status[c] = "pending"
    /\ Take("provision", c)
    /\ IF WsOf[c] = None THEN Failed ELSE Goto("create")
    /\ UNCHANGED <<kong, central, todo, requests, faults>>

(* Mutant: the old credential is left alone. *)
M_StartUpdate(c) ==
    /\ status[c] = "updating"
    /\ Take("update", c)
    /\ IF WsOf[c] = None \/ rec[c] = None THEN Failed ELSE Goto("create")
    /\ UNCHANGED <<kong, central, todo, requests, faults>>

StartUpdate(c) ==
    /\ status[c] = "updating"
    /\ Take("update", c)
    /\ IF WsOf[c] = None \/ rec[c] = None THEN Failed ELSE Goto("delete")
    /\ UNCHANGED <<kong, central, todo, requests, faults>>

StartDeprovision(c) ==
    /\ status[c] = "deleting"
    /\ Take("deprovision", c)
    /\ IF WsOf[c] = None \/ rec[c] = None THEN Failed ELSE Goto("delete")
    /\ UNCHANGED <<kong, central, todo, requests, faults>>

(* The workspace a call goes to: that of the credential, but Update makes    *)
(* its calls with a context that has none.                                   *)
CallWs == IF cur.op = "update" THEN Default ELSE WsOf[cur.on]

(* A workspace without a client: getWorkspaceClient returns nil and the call *)
(* brings the process down.                                                  *)
Panic ==
    /\ pc \in {"create", "delete"}
    /\ CallWs \notin configured
    /\ pc' = "down"
    /\ UNCHANGED <<kong, central, cur, todo, answer, requests, faults>>

(* An error of Update fails it, and any error of Deprovision counts as       *)
(* "already deleted".                                                        *)
DeleteFailed == IF cur.op = "update" THEN Failed ELSE Respond("success", TRUE, None)
Deleted      == IF cur.op = "update" THEN Goto("create") ELSE Success

(* DELETE finds a credential under its consumer, in the workspace of the     *)
(* call.                                                                     *)
DeleteCredential ==
    LET k == rec[cur.on].id
        found == creds[k].live /\ creds[k].consumer[2] = CallWs
        Gone == creds' = [creds EXCEPT ![k].live = FALSE] /\ UNCHANGED <<consumers, configured>>
    IN  /\ pc = "delete"
        /\ CallWs \in configured
        /\ \/ found /\ Gone /\ Deleted /\ UNCHANGED faults
           \/ found /\ Gone /\ DeleteFailed /\ Fault
           \/ ~found /\ DeleteFailed /\ UNCHANGED <<kong, faults>>
           \/ DeleteFailed /\ UNCHANGED kong /\ Fault
        /\ UNCHANGED <<central, cur, todo, requests>>

(* WithUsername, WithClientID and the like take a random value for an empty  *)
(* one.                                                                      *)
OrElse(value, random) == IF value = None THEN random ELSE value

(* Mutant: Update asks for a new name. *)
M_NameFor(c, random) == random

(* Update keeps the user name or client identifier, which it finds in the    *)
(* details of the credential.  For an API key no such detail is kept.        *)
NameFor(c, random) ==
    OrElse(IF cur.op = "update" THEN rec[c].name ELSE None, random)

(* The entity of a credential, as ToKeyAuth, ToBasicAuth and ToOauth2 fill   *)
(* it in and Kong completes it; every random value is new.                   *)
NewEntity(c, x, random) ==
    [consumer |-> x, kind |-> KindOf[c], name |-> NameFor(c, random), secret |-> random,
     live |-> TRUE]

RecordOf(k, entity) ==
    [consumer |-> entity.consumer, id |-> k, secret |-> entity.secret,
     name |-> IF entity.kind = "api-key" THEN None ELSE entity.name]

(* Mutant: the secret is handed out although the call failed. *)
M_CreateCredential ==
    LET c == cur.on
        x == IF cur.op = "update" THEN rec[c].consumer ELSE ConsumerOf(c)
        k == Len(creds) + 1
        entity == NewEntity(c, x, k)
        found == x \in consumers /\ x[2] = CallWs
        Made == creds' = Append(creds, entity) /\ UNCHANGED <<consumers, configured>>
        HandOut == Respond("success", FALSE, RecordOf(k, entity))
    IN  /\ pc = "create"
        /\ CallWs \in configured
        /\ \/ found /\ Made /\ HandOut /\ (UNCHANGED faults \/ Fault)
           \/ found /\ HandOut /\ UNCHANGED kong /\ Fault
           \/ ~found /\ Failed /\ UNCHANGED <<kong, faults>>
        /\ UNCHANGED <<central, cur, todo, requests>>

(* POST needs a consumer that exists in the workspace of the call. *)
CreateCredential ==
    LET c == cur.on
        x == IF cur.op = "update" THEN rec[c].consumer ELSE ConsumerOf(c)
        k == Len(creds) + 1
        entity == NewEntity(c, x, k)
        found == x \in consumers /\ x[2] = CallWs
        Made == creds' = Append(creds, entity) /\ UNCHANGED <<consumers, configured>>
    IN  /\ pc = "create"
        /\ CallWs \in configured
        /\ \/ found /\ Made /\ Respond("success", FALSE, RecordOf(k, entity)) /\ UNCHANGED faults
           \/ found /\ Made /\ Failed /\ Fault
           \/ ~found /\ Failed /\ UNCHANGED <<kong, faults>>
           \/ Failed /\ UNCHANGED kong /\ Fault
        /\ UNCHANGED <<central, cur, todo, requests>>

-----------------------------------------------------------------------------
(* The answer reaches Central: the state of the resource, and the properties *)
(* of a credential as its agent details.                                     *)

StateAfter(op, result) ==
    CASE op = "provisionApp"   -> "active"
      [] op = "deprovisionApp" -> IF result = "success" THEN "removed" ELSE "deleteFailed"
      [] op = "provision"      -> IF result = "success" THEN "provisioned" ELSE "failed"
      [] op = "update"         -> IF result = "success" THEN "provisioned" ELSE "updateFailed"
      [] op = "deprovision"    -> IF result = "success" THEN "deleted" ELSE "deleteFailed"

Idle == pc' = "idle" /\ cur' = None /\ todo' = <<>> /\ answer' = None

(* Mutant: the details keep the identifier of the credential replaced. *)
M_Report ==
    /\ pc = "report"
    /\ IF cur.op \in {"provisionApp", "deprovisionApp"}
          THEN /\ app' = [app EXCEPT ![cur.on] = StateAfter(cur.op, answer.result)]
               /\ UNCHANGED <<status, rec>>
          ELSE /\ status' = [status EXCEPT ![cur.on] = StateAfter(cur.op, answer.result)]
               /\ rec' = [rec EXCEPT ![cur.on] = OrElse(@, answer.record)]
               /\ UNCHANGED app
    /\ Idle
    /\ UNCHANGED <<kong, recorded, requests, faults>>

Report ==
    /\ pc = "report"
    /\ IF cur.op \in {"provisionApp", "deprovisionApp"}
          THEN /\ app' = [app EXCEPT ![cur.on] = StateAfter(cur.op, answer.result)]
               /\ UNCHANGED <<status, rec>>
          ELSE /\ status' = [status EXCEPT ![cur.on] = StateAfter(cur.op, answer.result)]
               /\ rec' = [rec EXCEPT ![cur.on] = OrElse(answer.record, @)]
               /\ UNCHANGED app
    /\ Idle
    /\ UNCHANGED <<kong, recorded, requests, faults>>

Crash ==
    /\ pc # "down"
    /\ pc' = "down"
    /\ Fault
    /\ UNCHANGED <<kong, central, cur, todo, answer, requests>>

Restart ==
    /\ pc = "down"
    /\ Idle
    /\ UNCHANGED <<kong, central, requests, faults>>

-----------------------------------------------------------------------------
Start ==
    \/ \E a \in Apps : StartProvisionApp(a) \/ StartDeprovisionApp(a)
    \/ \E c \in Credentials : StartProvision(c) \/ StartUpdate(c) \/ StartDeprovision(c)

Call == GetConsumer \/ DeleteConsumer \/ CreateCredential \/ DeleteCredential \/ Panic

AgentStep == Start \/ Call \/ Report \/ Restart

Next ==
    \/ \E a \in Apps : AppRequest(a)
    \/ \E c \in Credentials : CredentialRequest(c)
    \/ \E a \in Apps, w \in Workspaces : ProvisionApp(a, w)
    \/ AgentStep \/ Crash

Spec == Init /\ [][Next]_vars

(* The agent goes on with the request in hand or takes another, and its      *)
(* container is restarted.                                                   *)
FairSpec == Spec /\ WF_vars(AgentStep)

-----------------------------------------------------------------------------
(* Properties. *)

Live == {k \in DOMAIN creds : creds[k].live}

(* A credential that Central shows as provisioned is in Kong with the secret *)
(* that was handed out, of its type, at the consumer of its application in   *)
(* its workspace, as long as that consumer exists: whatever calls failed     *)
(* before and however often it was rotated (credential.go:123-294).          *)
ProvisionedWorks ==
    \A c \in Credentials : status[c] = "provisioned" =>
        LET x == <<AppOf[c], WsOf[c]>>
        IN  /\ rec[c] # None /\ rec[c].consumer = x
            /\ creds[rec[c].id].consumer = x
            /\ creds[rec[c].id].kind = KindOf[c]
            /\ creds[rec[c].id].secret = rec[c].secret
            /\ x \in consumers => creds[rec[c].id].live

(* What the agent may still account for in Kong: the credentials of record   *)
(* and the one it has just made or is about to replace.                      *)
Accounted ==
    {rec[c].id : c \in {d \in Credentials : rec[d] # None /\ status[d] # "deleted"}}
        \cup (IF answer = None \/ answer.record = None THEN {} ELSE {answer.record.id})

(* Rotations, retries and deletions leave no credential behind that works    *)
(* and that Central knows nothing of, but one for each failure of a call or  *)
(* crash (credential.go:94, 149, 238).                                       *)
FewOrphans == Cardinality(Live \ Accounted) <= faults

(* A rotation revokes the secret it replaces and keeps the user name or      *)
(* client identifier (credential.go:220, 255, 276).                          *)
RotationReplaces ==
    [][\A c \in Credentials : status[c] = "updating" /\ status'[c] = "provisioned" =>
          /\ rec'[c].secret # rec[c].secret
          /\ rec'[c].name = rec[c].name
          /\ \A k \in Live' : creds'[k].secret # rec[c].secret]_vars

(* An application is shown as removed only when its consumers are gone from  *)
(* every workspace it was recorded in, but for failures of a lookup          *)
(* (application.go:81-88).                                                   *)
RemovedAppIsGone ==
    \A a \in Apps : app[a] = "removed" =>
        Cardinality({x \in consumers \cap recorded : x[1] = a}) <= faults

(* The secrets that Central has handed out, and those that Kong accepts,     *)
(* each at its consumer.                                                     *)
Shown   == [c \in Credentials |-> IF rec[c] = None THEN None ELSE rec[c].secret]
Working == {<<creds[k].consumer, creds[k].secret>> : k \in Live}

(* All this without the calls: what Central shows and what Kong accepts      *)
(* change by the steps of CredentialContract only (application.go 44-92,     *)
(* credential.go 72-294).                                                    *)
Contract == INSTANCE CredentialContract
    WITH shown <- Shown, working <- Working, failures <- faults, Secrets <- Ids

ImplementsContract == Contract!Spec

(* Every request is answered, whatever calls fail and crashes interrupt it,  *)
(* by an agent that works in the default workspace; any other may be brought *)
(* down by the same rotation again and again.                                *)
EveryRequestAnswered ==
    /\ \A a \in Apps :
          Default \in configured /\ app[a] \in {"pending", "deleting"} ~>
              app[a] \notin {"pending", "deleting"}
    /\ \A c \in Credentials :
          Default \in configured /\ status[c] \in {"pending", "updating", "deleting"} ~>
              status[c] \notin {"pending", "updating", "deleting"}
=============================================================================
