# A TLA+ model of the Kong agents

This directory holds the formal model of the two Amplify agents for Kong: TLA+
modules, TLC configurations that check them on small instances, and proofs that
TLAPS checks for all instances. Paths below are relative to `src/pkg` unless they
start with `src/`.

- [The system](#the-system)
- [Modules](#modules)
- [Kong plugin lookup](#kong-plugin-lookup)
- [Access provisioning](#access-provisioning)
- [Applications and credentials](#applications-and-credentials)
- [Discovery](#discovery)
- [Endpoints, security and specifications of a route](#endpoints-security-and-specifications-of-a-route)
- [The traceability agent](#the-traceability-agent)
- [Log entries](#log-entries)
- [Runs and bounds](#runs-and-bounds)
- [Fairness and deadlock](#fairness-and-deadlock)
- [Proofs](#proofs)
- [Disagreements between code and documentation](#disagreements)
- [Not modelled](#not-modelled)

## The system

Two programs stand between a Kong gateway and Amplify Central. The *discovery
agent* publishes the routes of Kong as APIs in Central and carries out what users
of Central ask for: access to a route, credentials, their removal. The
*traceability agent* receives log entries of Kong over HTTP and forwards them as
transactions and metrics.

| Component | Code | State it keeps | Operations | What makes it correct |
|---|---|---|---|---|
| Plugin lookup | `discovery/kong/provisioning.go` 258-275, 356-381; `plugins.go` | none | find a plugin by scope; effective plugin of a route | exact whatever the order of the listing |
| Access provisioning | `discovery/subscription/access`, `discovery/kong/provisioning.go`, `discovery/subscription/provision.go` | none of its own between requests; consumers and plugins in Kong, agent details in Central | grant, revoke, limit | what Kong lets through is what Central shows |
| Application provisioning | `discovery/subscription/application` | consumers in Kong | delete the consumers of an application | no consumer outlives its application |
| Credential provisioning | `discovery/subscription/credential` | credentials in Kong | create, rotate, delete | a credential shown works, a replaced or removed one does not |
| Request definitions | `discovery/subscription/register.go` | none | register schemas for each workspace at startup | the names are those that APIs are published with |
| Discovery | `discovery/agent/agent.go`, loop of `discovery/cmd` | the cache of checksums | list services and routes, publish what changed | every change is published, nothing else is |
| Endpoints and security | `discovery/agent/route.go`, `agent.go` 376-510 | a specification shared by the routes of a service | hosts x paths x protocols; security of the plugins | exactly what the route serves and its plugins ask for |
| Kong client | `discovery/kong/kongclient.go` | a client for each workspace | list, fetch a specification from one of three sources | the first document that is found; no answer is not "none" |
| Configuration | `discovery/config` | settings | validate, parse | an accepted configuration publishes |
| Beater | `traceability/beater` | two wait groups, the HTTP server | accept a batch, shut down | no batch in processing is lost at shutdown |
| Agent resources | `traceability/beater` 122-144, `traceability/main` | the agent resources in Central | register, remove | the last one stays, the others go |
| Event processing | `traceability/processor` | none between batches | metric and events of each log entry | entries are independent |
| Traceability configuration | `traceability/config`, `traceability/cmd` | settings | validate | |

How they interact: the SDK (agent-sdk, external) calls the provisioner of
`provision.go` once for each request Central has pending, one at a time; the
provisioner calls Kong's admin API over HTTP and Central through its client. The
discovery loop runs in goroutines of the same process and reads the plugins the
provisioner writes, but shares no memory with it. The traceability agent is a
process of its own; several pods of it share the list of their resources in Central.

What is hard: a request takes up to nine remote calls, each of which may fail, take effect
although its answer is lost, or be the last one before a crash, after which the
same request comes again; an operator edits the same plugins by hand; Kong lists
plugins by a random identifier, so any order is possible; ACL groups are changed
by reading the whole list and writing it back; the goroutines of discovery share a
cache that is written before what it records has happened; the shutdown of the
traceability agent is spread over four goroutines and two wait groups. PROJECT.json lists
these hazards at the lines where they bite, with the properties that watch them.

## Modules

| Module | Contents |
|---|---|
| `KongPlugins` | the plugin table of Kong, `getSpecificPlugin`, `checkAccess`, `GetEffectivePlugins` as operators |
| `CredentialNames` | the names of credential request definitions, given, registered and read back |
| `MCLookups` | all small tables and all short names as inputs of the two modules above, against reference definitions |
| `AccessContract` | what access provisioning promises Central: the abstract specification |
| `AccessProvisioning`, `MCAccessProvisioning` | access requests call by call, with Kong, Central, users and an operator around them |
| `CredentialContract` | what the provisioning of credentials promises Central: the abstract specification |
| `CredentialProvisioning`, `MCCredentialProvisioning` | managed applications and credentials call by call |
| `Discovery`, `MCDiscovery` | the discovery loop, its goroutines and its cache |
| `RouteApi` | endpoints and security of the routes of a service, validation and parsing of the configuration |
| `SpecRetrieval` | the search for the specification of a service |
| `MCPublishedApi` | the inputs of the two modules above |
| `HttpLogBeater` | the HTTP server of the traceability agent and its shutdown |
| `AgentResources` | the resources of the pods in Central |
| `TraceabilityAgent`, `MCTraceabilityAgent` | a beater as one of the pods |
| `EventProcessing`, `MCEventProcessing` | the entries of a batch |
| `KongPlugins_proof` | when the lookups are exact, and which plugin is effective, for all tables |
| `MCLookups_proof` | what the run checks of lookups and names, for all tables and names |
| `AccessProvisioning_proof` | the inductive invariants of access provisioning and their consequences; it implements its contract; quotas |
| `CredentialProvisioning_proof` | the inductive invariant of applications and credentials and its consequences; they implement their contract |
| `Discovery_proof`, `EventProcessing_proof` | the inductive invariants of these modules and their consequences |
| `PublishedApi_proof` | what becomes of one service: the invariants of `RouteApi` and of `SpecRetrieval` |
| `TraceabilityAgent_proof` | the invariants of the beater and of the pods; the agent implements the beater |

`AccessProvisioning` extends `KongPlugins` and instantiates `AccessContract`, as
`CredentialProvisioning` does `CredentialContract`. `RouteApi` extends `CredentialNames`. `TraceabilityAgent` extends both `HttpLogBeater` and
`AgentResources` and joins their actions. A
definition whose name starts with `M_` is a mutant: the neighbouring definition
with a plausible mistake. No specification uses it; it shows that a property would notice.

## Kong plugin lookup

A plugin is a record of the fields the code reads: name, workspace, scope
(service, route, consumer), the enabled flag, allowed groups, limit. `None` is a nil
pointer or an empty string. A table maps identifiers `1..MaxPlugin` to plugins; the
listing is in the order of identifiers, and a new plugin takes *any* free one,
as Kong lists by primary key, a random UUID.

`getSpecificPlugin` is written as the code behaves, not as it is meant: the three
match flags are set before the loop and never cleared, so the plugin returned is the
first one at which all three have been raised by *some* plugins of that name
(`ReturnPoints`). `ScopedTo` is the intended answer.

`MCLookups` runs through every table of three plugins over two routes, a
service and two consumers, three being what it takes for two plugins to raise flags for a
third:

- `AclLookupExact`: the lookup of ACL plugins is exact nevertheless, as long as no ACL plugin has
  both a service and a route;
- `RateLookupComplete`: the lookup of a rate limiting plugin overlooks none;
- `RateLookupExact`: it finds the plugin of just the route and consumer, and nothing if there is none,
  where the route has no other rate limiting plugin than that consumer's, whatever is on other routes. A plugin
  of another consumer or for all consumers on the route raises the flag of the route and may mislead it, even with
  a single consumer around (see [below](#disagreements));
- `EffectiveIsMostSpecific`: `GetEffectivePlugins` keeps an enabled applicable plugin
  that no other beats, in any order.

The same run goes through every workspace name of up to three words, the words of the credential
types among them, since `parseCredentialType` looks for the type *anywhere* in a name
(credential.go 57-79):

- `ParsesBack`: the name registered for a workspace and a type is read back as these, unless the
  workspace is itself named after a type;
- `NeverAnotherWorkspace`: then the answer is still right, or the workspace read back is the whole
  name of the definition: never a shorter one that might exist.

## Access provisioning

### State

| Variable | Models |
|---|---|
| `consumers`, `plugins` | Kong |
| `status`, `quota` | the access requests in Central |
| `details` | the agent details of an application, `<workspace>-kongApplicationId` for each workspace (`common.WksPrefixName`) |
| `pc`, `outcome` | the call the handler makes next; what it has decided to answer |
| `cur` | the request it works on |
| `appID` | `AccessProvisioner.appID` |
| `listed` | the plugins of the last `ListAll` |
| `faults` | failed calls and crashes so far, a bound for TLC |

### Actions

| Action | Code |
|---|---|
| `StartProvision`, `StartDeprovision` | `NewAccessProvisioner`, and `Provision` / `Deprovision` up to the first call: access.go 60-125, 150-174 |
| `GetManagedApplication` | access.go 203-210 |
| `GetConsumer`, `CreateConsumer` | provisioning.go 20-40 |
| `AddConsumerACL` | provisioning.go 42-61, error ignored by access.go 218-221 |
| `UpdateManagedAppDetails` | access.go 225-232, error ignored |
| `ListForGrant`, `CreateACL`, `UpdateACL` | `AddRouteACL`, `createACL`, `updateOrDeleteACL` |
| `ListForQuota`, `EnableQuota`, `CreateQuota` | `AddQuota` |
| `ListForRevoke`, `RevokeACL`, `DisableQuota` | `RemoveRouteACL` |
| `Report` | the handler returns and Central shows the answer |
| `Crash` | the process ends; what was in memory is gone, the request is delivered again |

A step of the model is one remote call with the code up to the next one: the listing and the
decision taken from it are one step, the write that follows is another, and the
environment acts in between. A write takes effect and is answered, takes effect
with its answer lost, or fails without effect (`Write`); the handler continues
where the code goes in each case. What a write sends is built from `listed`, not from
the current table: `UpdateACL` and `RevokeACL` write back the groups of the listing.

`AddConsumerACL` of the code is a lookup and a creation; as its only consequence is the
group, and both errors are dropped, it is one step. The group is named after the
consumer, so an allow list contains consumer identifiers and an operator's `Groups`.

### Environment, and where its behaviour is taken from

- **Kong.** It accepts one plugin for a name, workspace and scope (`Occupied`), updates
  a plugin of a route only under that route, finds consumers by identifier or
  username (`ConsumersAt`), and keeps usernames and custom identifiers unique in a
  workspace. These are the answers the code handles; they are marked external.
- **Central and the SDK.** One request of an application for a route at a time;
  requests are served one by one; an unanswered request is delivered again after a
  restart, a failed one when a user retries. `Deletable` says which states of a
  request are deprovisioned by the agent when it is deleted.
- **The operator** adds an ACL plugin to a route, edits its groups (never the
  agent's, and never down to an empty list) and disables it. He limits the rate of a route for
  all consumers (`OperatorLimit`); he does not limit the agent's consumers one by one, nor touch their
  limits. `OperatorActions` chooses which of these happen.
- **At the start** there are no consumers, so that no plugin is of one, and ACL plugins are of global or service
  scope (`InitialPluginsAssumption`); there may be limits on routes. The agent insists on a global ACL plugin
  unless access control is disabled.
- One agent. A second replica would be a second writer of the same plugins.

Abstracted: names, tags and messages; `deny` and `hide_groups_header`, which are copied through;
the interval of a quota, which is part of its limit value, except weekly,
which the code refuses.

### Properties

- `NoAccessWithoutRequest`: nobody is let in on a route without a request for it
  that Central has not shown as deprovisioned. A stale list written back, a lost answer or a
  crash between two calls could break it.
- `GrantedIsLetIn`: a request shown as granted is granted in Kong, until its own
  deprovisioning.
- `OnlyTheRequestedGroupMoves`: in a step of the agent no consumer but the one of its request
  enters or leaves the ACL of a route, and only in the direction of the request.
- `ImplementsContract`: all of this as a refinement of `AccessContract`, with the pairs
  Kong lets in as the abstract `granted`.
- `DetailsNameItsConsumer`: what Central records for an application and a workspace is
  its consumer in that workspace.
- `QuotaInForce`: a granted request with a quota has an enabled rate limiting plugin
  of its route and consumer. The code breaks this, see [below](#disagreements).
- `QuotaOfSoleUser`: it holds on a route that no other application ever asked for and that
  has no limit for all consumers (`SoleUser`), whatever stands on other routes, in whatever order Kong lists it.
- `EveryRequestIsAnswered`: under fairness, and once failures and crashes stop.
- `AccessInv`: the inductive invariant of the proof, checked by TLC too.

"Let in" is the allow list of the route's ACL plugin, whether the plugin is enabled or
not: the operator may switch protection off, and the agent's own writes switch it on.

## Applications and credentials

`CredentialProvisioning` puts `AppProvisioner` (application.go) and the credential
provisioner (credential.go, builder.go) into one module, because the credentials live at
the consumers that the deletion of an application removes.

| Variable | Models |
|---|---|
| `configured` | the workspaces of `KONG_WORKSPACES`: any of the `Configurations` |
| `consumers`, `creds` | Kong: the consumers, and every credential ever created, with its consumer, type, name, secret and whether it is there still |
| `recorded` | the consumers in the agent details of their application |
| `app`, `status`, `rec` | Central: the state of applications and credentials, the details of a credential and the secret handed out |
| `pc`, `cur`, `todo`, `answer` | the handler: the next call, the request, the workspaces left, the answer decided on |
| `requests`, `faults` | bounds |

| Action | Code |
|---|---|
| `StartProvisionApp` | application.go 66-70, which does nothing |
| `StartDeprovisionApp` | `NewApplicationProvisioner` and `Deprovision`: application.go 30-81 |
| `GetConsumer`, `DeleteConsumer` | the two calls of `DeleteConsumer`: provisioning.go 63-73 |
| `StartProvision`, `StartUpdate`, `StartDeprovision` | credential.go up to the first call, the parsing of the definition's name included |
| `CreateCredential`, `DeleteCredential` | the calls for the three types, with what builder.go fills in |
| `Panic` | a call in a workspace without a client (kongclient.go 141-147) |
| `Report`, `Crash`, `Restart` | the answer reaches Central; the process ends; its container starts again |
| `AppRequest`, `CredentialRequest`, `ProvisionApp` | users of Central; what access requests do for an application, in short |

A call takes effect, takes effect with its answer lost, fails without effect, or finds
nothing. The code treats these differently for each operation, and the model follows it: an
error of a deletion fails `Update` but counts as "already deleted" in `Deprovision`.

- `ProvisionedWorks`: a credential shown as provisioned is in Kong with the secret handed
  out, of its type, at the consumer of its application in its workspace.
- `RotationReplaces`: a rotation revokes the secret it replaces and keeps the name.
- `FewOrphans`: no credential works that Central knows nothing of, but one for each failure.
- `RemovedAppIsGone`: the consumers of a removed application are gone, but one for each
  failure.
- `EveryRequestAnswered`: every request is answered, by an agent that works in the default
  workspace.
- `ImplementsContract`: a refinement of `CredentialContract`, which knows no calls and no
  identifiers. Its state is what Central shows of each application and credential (`app`,
  `status`), the secret it has handed out (`shown`, the secret in `rec`), the pairs of a consumer and a
  secret that Kong accepts (`working`, from the credentials that live), and the number of failures.

What the contract says beyond the properties above is who may change what and when. A secret comes to work
(`Issue`) only for a request that waits, at the consumer it is asked for, and is one nobody was
given before; a secret that was handed out stops working only by a rotation or deletion of its own credential
(`Revoke`) or by the removal of its application (`Remove`); a secret is handed out only when it works, and its
predecessor only then replaced, when it works no more (`AnswerProvisioned`). With every answer, no more works
that Central does not show than there were failures (`FewLeftBehind`), and an application is shown as removed
only when its secrets work at no consumer, but at one for each failure.

The exceptions of `FewOrphans`, `RemovedAppIsGone` and `EveryRequestAnswered` are what the code does; see
[below](#disagreements).

## Discovery

`Discovery` models the run loop (`discovery/cmd/cmd.go` 47-57), `NewAgent` with its check for
an ACL plugin, `DiscoverAPIs`, and a worker for each service: the goroutine of
agent.go 172-240 and 250-330.

| Variable | Models |
|---|---|
| `specVersion`, `pluginVersion`, `acl` | Kong: how often each specification and each route's plugins changed, where a global ACL plugin is |
| `published` | Central: the API last published for each route |
| `loop`, `next` | where the loop is, the workspace it lists next |
| `workers` | the goroutines of services, each with its step, its routes left, the specification it read and the API in hand |
| `cache` | the checksums in the agent's cache |
| `sent`, `lost`, `judged` | history, for the properties: what was published, what failed to be, the last API taken for published |
| `changes`, `faults` | bounds |

`makeChecksum` identifies the content an operator gave the service, not how often it was
changed: after `Period` changes the first content is back. It tells apart the orders in which
Go ranges over a map of plugins (agent.go 388), which are the `Orders`. A worker reads the
specification once and the plugins of each route later, so that what it publishes may mix two
states of Kong; the operator changes things in between. The cache is filled in
`PrepareRoute`, before `PublishAPI` publishes or fails.

- `NeverOlder`: an API in Central is never replaced by an older state: rounds do not overlap, a
  service has one worker.
- `PublishesNews`: within a life of the agent a state is published once.
- `CatchesUp`: when Kong no longer changes, every API that can be published is in Central in its
  last state, whatever failed or crashed on the way; the exceptions are a failed
  publication and a content that has come back (`UpToDate`), and an agent that finds no ACL plugin
  when it starts.

## Endpoints, security and specifications of a route

`RouteApi` is sequential: `Start` validates the configuration and parses it, then
`SpecPreparation` goes through the routes of a service one after the other. `props` are the
properties as they are set, `doc` the specification of the service, `routes` its routes with
their plugins, `schemes` the security in the processor that the routes share, `apis` what is
published: it has an entry for each route that is. `ParseProperties` and `ValidateCfg` are discovery/config/config.go;
`handleHosts`, `handlePaths`, `handleProtocols` route.go; the security operators
agent.go 376-510.

- `EndpointsExact`: exactly the endpoints the route can be reached at, each once; `Wanted`
  says which without following the code's loops.
- `AcceptedPublishes`: under an accepted configuration a route with a path and both protocols
  is published.
- `SecurityIsOwn`: a document says of security what the plugins of its own route do: nothing of the
  backend's document or of the route before it is left, what is linked was registered and has a
  scheme (but not if a key-auth plugin names no key, for one), and it is open only without such plugins.
- `TokensOverTls`: OAuth tokens are obtained over TLS from an endpoint of the API.

`SpecRetrieval` is the search for a specification (kongclient.go 157-348): a local file, the
dev portal, or the paths of the backend one by one, with a transport failure or a status
other than 200 at any of them. A service without protocol and host has no backend to ask (`address`): that is
an error.

- `FirstSpecWins`: the first path with a specification is the one; with none the API is
  unstructured if that is asked for.
- `NoAnswerIsAnError`: a source that does not answer is never taken for one that has nothing.

## The traceability agent

`HttpLogBeater` is beater.go as processes that interleave:

| Process | Variable | Actions |
|---|---|---|
| `New` and `Run` | `run` | `New`, `Connect`, `RegisterShutdownHandler`, `SetServer`, `ListenAndServe`, `ServerClosed`, `AddShutdown`, `Return` |
| `HandleEvent`, one per request | `req[q]` | `Receive`, `Answer`, `ReadBody`, `Count` |
| its processing goroutine | `req[q]` | `Handle`, `DropBatch`, `PublishAll` |
| `Stop` | `stop` | `Stop`, `Drained` |
| `shutdownHandler` | `shutdown` | `WaitProcessing`, `Woken`, `ShutdownPublish`, `CleanResource` |

They share `server` (`b.server`), the counters of the two wait groups `processing` and
`shutdownDone`, and the metric collector (`metrics`, `published`). A wait group behaves as
that of Go: the `Done` that makes the counter zero wakes the waiter, one that makes it negative
panics, and a waiter that finds the group in use again panics (`Woken`). `Signal` stands for libbeat and
the SDK, which on a signal call `Stop` and the shutdown handler at the same time; it may
come before `Run` has set its server. `signalled`, `inFlight` and `panicked` record what
happened.

`AgentResources` is `cleanResource` of several pods: `CheckStatus`, `GetResources` and
`DeleteResourceInstance` are its three calls, `Start` the registration by the SDK. The status
of an agent is not a variable: it may have failed by the time it is asked, so `CheckStatus` goes either
way. `together` records that several pods have been stopping at a time.

`TraceabilityAgent` joins them: the signal of the beater is the one that stops its pod, and its
`CleanResource` ends when its pod has gone through `CleanStep`.

- `BeaterInv`: the inductive invariant; in it `CountersExact` (the wait group counts the
  processing goroutines exactly), `ShutdownCounted`, `WaitedFor` and `ReturnsAfterShutdown`.
- `InFlightIsAccounted`: when `Run` returns, the batches that were in processing when the shutdown
  began are done and their metrics are sent.
- `RemovedAfterMetrics`: the resource leaves Central only after that.
- `OneLeftBehind`: however the pods stop, those whose status allows it leave at most one resource,
  unless a call fails.
- `LastResourceStays`: the last resource stays, as long as no two pods have been stopping at a
  time.
- `StopEnds`: a serving agent that is told to stop ends, be it by a panic.

## Log entries

`EventProcessing` goes through a batch as handler.go 56-80 does. `i` is the entry, `pc` the
step: `Check` (handler.go 82-110, with the defaults of an entry that reached no service),
`ShouldSample`, `CreateTransactionEvent`, `CreateSummaryEvent`, `CreateFromEventReport`
(transaction.go 53-158). Any step of the SDK may refuse an entry. `fate[k]` records which
step dropped entry `k`, `metrics` and `events` what comes out.

- `NeverPanics`: no entry makes the agent dereference a nil pointer;
- `EveryEntryHasItsTurn`: an entry that is refused costs no other entry its metrics;
- `WholeTransactions`: at any time the events are a sequence of pairs, a summary and the leg of the same
  entry, of entries counted in the metrics and in the order of the log;
- `StatusesAgree`: the two statuses of a transaction, from separate tables (util.go 13-30), do
  not contradict each other.

## Runs and bounds

| Run | Instance | Distinct states |
|---|---|---|
| `plugin_lookup` | all tables of 3 plugins, 2 routes, 1 service, 2 consumers; all names of 3 words | 118 thousand |
| `access_grants` | 2 applications, 1 route, operator, 2 faults, 3 plugins | 230 thousand |
| `access_routes` | 2 applications, 2 routes, 2 faults, 3 plugins | 1.0 million |
| `access_requests` | 1 application, a route in each of 2 workspaces, quotas with a weekly one, 1 fault, 4 plugins; liveness | 179 thousand |
| `access_quotas` | 1 application, 2 routes of a workspace, an operator who limits routes, 1 fault, 6 plugins | 3.0 million |
| `credentials` | 1 application, 3 credentials in 2 workspaces, with and without the default one, 5 requests, 2 faults; liveness | 202 thousand |
| `discovery` | 2 workspaces, 3 services, 3 routes, 2 changes, 1 fault of any kind; liveness | 309 thousand |
| `published_api` | every configuration with every route of 2 hosts, paths, protocols; 2 routes with any authentication plugins; every content of every source of a specification, 3 paths, 2 faults | 276 thousand |
| `events` | batches of 3 entries with any status or part missing, any step refusing | 1.6 million |
| `traceability_agent` | 2 requests, 2 pods, 1 fault; liveness | 685 thousand |

Why this is enough:

- *Access.* Two applications on a route are what it takes to disturb a neighbour in its allow list;
  two routes, to touch the wrong plugin; two workspaces, to record an identifier under the wrong
  prefix; two faults, for a failure of the attempt and of its retry (a crash and a lost answer, say).
  `MaxPlugin` leaves room for all plugins the requests can create besides those of the start, so that no
  creation is blocked by the bound. Consumers are interchangeable, as are routes of one
  workspace, hence the symmetry; the liveness run uses none. Requests are asked for, deleted
  and retried without limit: the state space is finite without a bound on them. `access_requests`
  checks several questions on one instance; access control is on in all of them
  (without it `Provision` and `Deprovision` skip the ACL, which the proof of `AccessInv` covers).
- *Quotas.* Two routes and an operator's limit on one of them are what it takes to mislead the lookup: the
  application's limit on the other route may be listed before or after it. Six plugins are the ACL plugin, the
  limit of the application and that of the operator on both routes. A limit that was switched
  off with an earlier request is met again by the next one. Several applications are left to `quota_two_apps` and the proof.
- *Credentials.* Five requests are an application, a credential, its rotation or two, and
  their removal; two faults, a failed rotation and a failure of the retry. One credential is in the
  default workspace, one in another, one has a name without a known type.
- *Discovery.* A service of two routes, one of them unnamed, is what the per-route steps can go wrong
  at; a second service with a route, in another workspace, makes two workers use the cache at a time; a third one
  without a specification is what must not hold up the others. The run has one order of plugins: with more, an API is
  published again for its order, which the properties allow, and the proofs are for any `Orders`.
  With `Period` 2, two changes bring a content back. A fault may strike in any round, rounds are unbounded.
- *Traceability.* Two requests are one in processing while another is counted, and one that wakes the
  shutdown while another arrives. Two pods are what it takes to both see two resources.
- *Pure parts.* Lists of length two show order and duplicates; status codes lie on either side of every
  boundary of the two tables.

`quota_two_apps` and `discovery_failed` end in a counterexample, see [below](#disagreements).

## Fairness and deadlock

- `AccessProvisioning!FairSpec`: the handler takes its next step (weak fairness: it is a
  goroutine with calls that return or fail), and each waiting request is picked up if
  again and again it could be (strong fairness for each request: the SDK's queue
  delivers others in between but drops none).
- `CredentialProvisioning!FairSpec`: the same handler goes on, takes a request that waits, and its
  container is restarted (weak fairness of `AgentStep`; Central's requests are bounded, so each has its turn).
- `Discovery!FairSpec`: the loop and the worker of each service go on, and the container is restarted.
- `FairAgentSpec`: the goroutines of the agent run, each on its own, and Central answers its
  calls. Nothing is assumed of clients, which may never finish a request, nor of other pods.

Nothing is assumed of users and operators. Failures and crashes are bounded by
`MaxFaults`, so liveness says: once they stop, what must happen does.

Deadlock is checked in the runs of lookups, access and discovery. It is not checked where the system
really stops: the process of `traceability_agent` ends, the routes, searches and batches of `published_api`
and `events` come to their end, and in `credentials` Central stops asking at the bound.

## Proofs

`tlapm` on the eight modules whose names end in `_proof` checks all proofs. Each holds for every value of
the constants that the assumptions [below](#assumptions-and-what-is-not-proved) allow: the bounds of the
runs are bounds of TLC only.

| Component | What is proved of it |
|---|---|
| Plugin lookup | `AclLookupIsExact`, `RateLookupIsExact`, `EffectivePluginIsMostSpecific`; `AclExact`, `RateComplete`, `RateExact`, `EffectiveExact` |
| Names of request definitions | `NamesParseBack`, `NoOtherWorkspace` |
| Access provisioning | `AccessInvariant`, `AccessOnlyOnRequest`, `DetailsCorrect`, `OnlyRequestedGroups`, `GrantedStaysLetIn`, `Refinement`, `QuotaOfSoleUsers` |
| Applications and credentials | `CredInvariant`, `ProvisionedDoesWork`, `OrphansAreFew`, `RemovedIsGone`, `RotationDoesReplace`, `CredentialRefinement` |
| Discovery | `DiscoveryInvariant`, `OnlyNews`, `NothingOlder` |
| Endpoints and security of routes | `RouteInvariant`, `EndpointsAreExact`, `AcceptedIsPublished`, `SecurityIsOfTheRoute`, `TokensComeOverTls` |
| Specifications | `SearchInvariant`, `FirstWins`, `ErrorsAreReported` |
| Traceability agent | `BeaterInvariant`, `AgentIsBeater`, `AgentRemovedAfterMetrics`, `AgentOneLeftBehind`, `AgentLastResourceStays` |
| Log entries | `EventInvariant`, `NoPanic`, `EveryTurn`, `TransactionsWhole`, `StatusesDoAgree` |

### Plugin lookup

**`AclLookupIsExact`.** For every table, if ACL plugins have no consumer and none has both a route
and a service, `getSpecificPlugin` returns an ACL plugin of just the wanted route, or
`None` when there is none. The argument: the consumer flag is raised by the first
ACL plugin; the route flag can be raised only by a plugin of the route, and that
one has no service, so it raises the service flag itself and is returned at once.

**`RateLookupIsExact`.** The lookup of `AddQuota` is exact if the rate limiting plugins on the wanted route have no
service and belong to the one wanted consumer, whatever there is on other routes: a plugin of the route raises all
three flags at once. With any other limit on the route it need not be, see [below](#disagreements). `RateExact` is this
for the tables of the run.

**`EffectivePluginIsMostSpecific`.** For every table and any number of plugins, `GetEffectivePlugins` keeps an
applicable plugin of the highest rank, and forgets none. The loop is a recursive function; that it has the values its
recursion says (`ScanSteps`) is proved without an induction theorem, by the least length at which it had none. The
same argument then shows that after any number of plugins the one kept is as specific as each
applicable one so far, each comparison keeping the higher rank (`MostSpecificKeepsRank`).

In `MCLookups_proof` the four properties of the run follow for every table: `AclExact`, `RateComplete`, `RateExact`
and `EffectiveExact`.

### Names of request definitions

**`NamesParseBack`, `NoOtherWorkspace`**: for workspaces named with any number of words. A name is a sequence of
words; `DefinitionName` says which word stands where in the name of a definition. If the workspace contains no type,
the type is found only where it was put (`WhereTypesAre`), as the two words of one type are no two neighbouring words
of another (`TypesDiffer`), so the workspace comes back whole (`WorkspaceParsed`). If it does contain one,
the first type that is found (`FirstType`) is either the right one or is not at the end of the name, and then
the workspace read back is the whole name.

### Access provisioning

**`AccessInvariant`: `Spec => []AccessInv`**, for any sets of applications, routes and workspaces,
any number of plugins and faults. `NoAccessWithoutRequest` is not inductive by itself: that the
consumer is out when a deprovisioning is answered follows only from what the handler knew at
each earlier call. `AccessInv` says what that is:

- `AclShape`: each route has at most one ACL plugin, scoped to it alone, which makes the
  lookup exact by the first theorem;
- `AllowedExist`, `OneConsumerPerApp`: allow lists hold consumers that exist, and an
  application has one in a workspace, so taking one identifier out takes the application out;
- `DetailsNameItsConsumer`, `ActsForItsConsumer`: the identifier the handler acts on
  is that consumer;
- `WorksOnRequest`: the request it works on is still waiting: no user's step can withdraw it;
- `ListingIsFresh`: what is about to be written back still has the consumers Kong
  has, since only the operator wrote in between, and only groups of its own;
- `RevokedBeforeReport`: from the write of `RevokeACL` on, the consumer is out.

There is one lemma for each action. `HandlerStep` does the part common to the calls
that touch plugins, `FailureStep` that of calls without effect, and `SameGroups` that of the operator.
`TypeCorrect`, `AccessOnlyOnRequest` and `DetailsCorrect` are consequences.

**`OnlyRequestedGroups`: `Spec => OnlyTheRequestedGroupMoves`.** Two lemmas say what a step may do to the ACLs:
`GroupsKept`, or `GroupMoved` for the consumer of the request in hand and in the direction of the request.
`ListingIsFresh` is what keeps a write back of a whole list from being more than that.

**`GrantedStaysLetIn`: `Spec => []GrantedIsLetIn`.** `AccessInv` says when nobody may be let in, not when somebody
must be. `GrantInv` adds that: who is shown as granted is in the allow list (`GrantedIsLetIn`, which is preserved
because every other request moves another group), and from the write of the group to the answer the group of
the request in hand is there (`GrantedBeforeReport`). With `AccessInv` the pair is inductive (`GrantInvariant`).

**`Refinement`: `Spec => ImplementsContract`.** The pairs Kong lets in are the `granted` of `AccessContract`. Each
step maps to one of its steps or a stutter: a write of the ACL to `Grant` or `Revoke` (by `GroupMoved`), a report
to `AnswerGranted`, `AnswerDeleted` or `AnswerFailed`, the first two of which the contract allows only in a state
that the two invariants guarantee.

**`QuotaOfSoleUsers`: `Spec => []QuotaOfSoleUser`.** `QuotaInForce` is false in general. It is true on a route that an
application has to itself: no other application ever asked for access to it, and no limit for all consumers is on
it (`SoleUser`). The condition is about that route only; on the others there may be any limits, of the agent or an
operator, in any place of the listing. `QuotaInv` says what else is needed:

- `RateShape`: a limit of a consumer is one the agent made: of a consumer of the route's workspace, for a request
  that was made;
- `RatesListed`: until the agent writes, the limits of its listing are as they were, as the operator only adds some;
- `LimitedBeforeReport`: when a provisioning is about to be answered as done, its limit is in force.

By `RateShape` every limit on such a route is the application's own (`OnlyItsLimits`), so that the lookup of `AddQuota` is
exact by `RateLookupIsExact` (`RateFound`). A limit goes only when it is switched off for its own request
(`LimitedStep`), which is then no longer granted. Requests and limits of others do not go away, so that whoever
has a route to itself had it before (`SoleUserBefore`).

**`LookupByMetadataIdFindsNothing`**: the lookup that is to detect an existing
consumer finds none that the agent created (see below).

### Applications and credentials

**`CredInvariant`: `Spec => []CredInv`**, for any applications, credentials, configurations, and any number of
requests, failed calls and crashes. That a credential shown as provisioned works is not inductive: a credential
deleted on the way of another request might be its own, and the answer in hand might carry anything. `CredInv`
says:

- `CountInv`: the credentials ever made and the requests that Central waits for are together no more than the requests
  and failures so far, so that a creation always has an identifier left
  (`TypeCorrect`: the types of this module are proved, no run checks them);
- `HandInv`, `CallInv`: the request in hand is one Central waits for, each call is made for a request that needs
  it, and an update creates only when the old credential is gone;
- `RecordsInv`: what Central has on record is a credential of that consumer and type in Kong (`Issued`), no two
  records share one, and only those of a pending update or deletion may be gone;
- `AnswerInv`: a record in the answer is that of a credential just made, which no record has yet, under the old name;
- `OrphansInv`: the credentials that work and that Central will know nothing of when it has the answer in hand are no
  more than the failures. It is stronger than `FewOrphans`, as a credential that the answer in hand reports as deleted
  counts already;
- `RemovalInv`: of the consumers a deprovisioning leaves behind it, those not on its list any more are no more than the
  failures.

There is one lemma for each part, with a case for each action; what a call does is stated once, in a lemma
for each action (`CreateFacts`, `DeleteFacts` and so on). The two counts rest on `OneMore`: a set that grows by
one element at most, and only with a failure, stays within the failures. `ProvisionedDoesWork`,
`OrphansAreFew`, `RemovedIsGone` and `RotationDoesReplace` are consequences.

**`CredentialRefinement`: `Spec => ImplementsContract`.** A creation that takes effect is `Issue`, whether or not its
answer arrives (`CreateIsIssue`); a deletion is `Revoke` (`DeleteIsRevoke`); that of a consumer with credentials is
`Remove` (`DeleteIsRemove`); a failure that changes nothing is `Fail`, every other call a stutter (`Quiet`). The
argument is in the answers (`ReportIsAnswer`). By `RecordsInv` a secret identifies its credential, so that
`working` can be followed pair by pair (`WorkingPairs`); by `AnswerInv` the secret to be handed out works and the one
it replaces does not; by `OrphansInv` few are left behind (`FewLeft`). For a removed application one more invariant is
needed: what works does so at a consumer that exists and is on record (`AtConsumers`), so that `RemovalInv`, which
counts consumers, bounds what still works (`RemovedFew`).

### Discovery

**`DiscoveryInvariant`: `Spec => []DiscoveryInv`**, for any number of workspaces, services, routes, changes and
faults. `NeverOlder` speaks of two states of Central; what makes it true is what each worker holds:

- `WorkersInv`: a worker belongs to the round in hand and to a workspace listed in it, so that a service has
  one worker; what it read is its service's, and not older than what Central has of the service
  (`AheadOfCentral`); an API in its hand is in the cache but was not published (`HoldsNews`);
- `PublishedWasRead`, `VersionsCounted`: no version in Central is ahead of Kong, so that what is read next is not
  older;
- `SentIsCached`: whatever was published in this life of the agent is in the cache.

`NothingOlder`, `OnlyNews` and `TypeCorrect` follow.

### Endpoints and security of routes

**`RouteInvariant`: `Spec => []RouteInv`**, for every set of inputs, any number of routes and any hosts, paths,
protocols and plugins of theirs. `RouteInv` says that a route behind the one in hand is published if it has an
endpoint, and with the endpoints and, in an OpenAPI document, the security that the route calls for by itself
(`AsPublished`, `OwnBody`): nothing depends on the routes before it.

What the three nested loops of route.go append is stated separately, and by two steps:

- `Flattened`: a sequence of lists, flattened, holds what the lists hold, each once if they have nothing in common.
  `FlattenSeq` is a recursive function; that it has the values its recursion says (`FlattenSteps`), and that these are
  as stated, is shown by the least length at which it was otherwise, as in `ScanSteps`.
- `ProtocolEndpoints`, `PathEndpoints`, `HostEndpoints`: each loop by the one inside it; `RouteEndpoints` puts
  the proxy in: the hosts of a route give no endpoint only if nothing would.

Then `EndpointsWanted` says that these are the endpoints of `Wanted`, which knows nothing of loops or of ports set to
0; that is where the validation of the configuration is needed (`Ports`). `EndpointsAreExact` and
`AcceptedIsPublished` follow, and `SecurityIsOfTheRoute` and `TokensComeOverTls` from what the schemes of a plugin
are (`KeySchemes`, `OAuthSchemes`, `SchemeCases`).

### Specifications

**`SearchInvariant`: `RetrievalSpec => []SearchInv`**, for any number of paths and failures: unless a failure struck, the
paths asked so far had no specification (`InOrder`), and a search that goes on has seen no transport failure
(`GivesUp`). `FirstWins` and `ErrorsAreReported` follow. The module of the proof extends `RouteApi` and
`SpecRetrieval`, two components that share no variable.

### Log entries

**`EventInvariant`: `Spec => []EventInv`**, for batches of any length: every entry before the one in hand has had its
turn and no other (`TurnsInv`), the entry in hand has its defaults from the check on, and its leg if it is
sampled (`EntryInv`), and the events are pairs of entries that are done (`EventsInv`). `NoPanic`, `EveryTurn`, `TransactionsWhole` and `StatusesDoAgree` follow.

### Traceability agent

**`BeaterInvariant`: `Spec => []BeaterInv`**, for any finite set of requests. That in-flight batches are
accounted for when `Run` returns needs what each goroutine knew on the way there:

- `CountersExact`: only because the wait group counts exactly the running goroutines does a
  counter of zero mean that none is left; it takes a fact on cardinalities for the goroutine that
  starts or ends;
- `WaitedFor`: what is done at each stage of the shutdown, from the batches it found to their metrics;
- `ShutdownCounted`, `ReturnsAfterShutdown`: the counter of `shutdownDone` tells which of `Run` and
  the shutdown has come by, so `Run` finds it zero only after the shutdown has ended.

**`AgentIsBeater`: `AgentSpec => Spec`.** The agent among other pods implements the beater: the pods and
the cleanup are stuttering steps of it. `AgentBeaterInvariant` and `AgentInFlightAccounted` follow
from the proofs about the beater alone, and so does **`AgentRemovedAfterMetrics`**, as only
`Clean` and steps of other pods change resources and those leave that of the agent alone.

**`AgentOneLeftBehind`, `AgentLastResourceStays`**, for any finite set of pods. Their invariant `PodsInv` says
that as long as no two pods have been stopping at a time, one that is about to delete its resource
still sees another (`OneAtATime`), and which resources stopped pods have left (`OneLeftBehind`).

### Assumptions, and what is not proved

Assumptions of the proofs are the named `ASSUME`s of the modules; TLC evaluates them in the runs.

- `KongPlugins`, `AccessProvisioning`: identifiers of different kinds differ (Kong's and Central's are UUIDs),
  Metadata.IDs are unique, requests are deprovisioned only from the states granted and failed, the plugins at
  the start are as above.
- `MCLookups`: the bound on the length of names is a number.
- `CredentialProvisioning`: each configuration names finitely many workspaces.
- `RouteApi`: the hosts, paths and protocols of a route are sequences that hold nothing twice, as Kong keeps them as
  sets; the properties of the proxy are there.
- `Discovery`: services of different workspaces differ, and so do routes of different services, as Kong's identifiers
  do; no workspace is configured twice. The code accepts one that is, see [below](#disagreements).
- `HttpLogBeater`, `AgentResources`: finitely many requests and pods.
- `None` is none of the values it stands beside.

What stays with TLC, and why:

- liveness (`EveryRequestIsAnswered`, `EveryRequestAnswered`, `CatchesUp`, `StopEnds`): with fairness and `ENABLED`
  out of the prover's reach;
- `QuotaInForce` on routes with limits of others: it does not hold, as `quota_two_apps` shows. `QuotaOfSoleUsers` says
  where it does.

## Disagreements

Two runs end in a counterexample: the model, which follows the code, does not
do what a document or a comment says.

| Run | What happens |
|---|---|
| `quota_two_apps` | The sticky flags of `getSpecificPlugin` make `AddQuota` take another plugin for its own; access is granted without a limit although `src/README.md` 56 promises one. One application is enough if an operator has limited its route for all consumers: the plugin of the operator raises the flag of the route, that of the application on another route, listed after it, the flag of the consumer, and is returned. A deprovisioning looks its limit up in the same way (provisioning.go 204) and may switch off that of another application on the route. |
| `discovery_failed` | The checksum is cached before the API is published (agent.go 324, 284): after a failed publication `isPublished` says "published with the latest changes" (agent.go 517) of an API that is not in Central, and it never will be in this life of the agent. The same run without a failed publication ends in a content that was changed back (agent.go 521). |

Others were met while modelling. The properties except what they concern, or do not speak of it:

| Code | What it does |
|---|---|
| `discovery/kong/provisioning.go` 233 | An existing rate limiting plugin is enabled as it is: after a change of plan the old limit stays. |
| `discovery/kong/provisioning.go` 23 | `CreateConsumer` is to "validate that the consumer does not already exist" but looks it up by an identifier Kong does not know it by (proved: `LookupByMetadataIdFindsNothing`). After a crash between creation and recording, every retry fails on the duplicate. |
| `discovery/kong/provisioning.go` 181 | After the ACL plugin went with its last group, a repeated deprovisioning fails for ever. |
| `discovery/kong/provisioning.go` 67 | Any error of the lookup counts as "consumer already removed". |
| `discovery/subscription/access/access.go` 218 | An error of `AddConsumerACL` is only logged: a granted consumer may lack its group (`src/README.md` 52). |
| `discovery/subscription/application/application.go` 66 | Provisioning an application creates no consumer, against `src/README.md` 52; the first access request does. |
| `discovery/subscription/credential/credential.go` 94 | Any error of a deletion counts as "already deleted": a credential shown as removed may work. |
| `discovery/subscription/credential/credential.go` 218 | `Update` makes its calls without the workspace of the credential. In another workspace than the default one it finds nothing; an agent that is not configured with the default workspace has no client for it and goes down (kongclient.go 141). |
| `discovery/subscription/provision.go` 65 | The definitions of all types are registered, not those of the plugins found (`src/README.md` 42). |
| `discovery/agent/agent.go` 158 | A workspace that is configured twice is listed twice in a round, and each of its services gets two workers: one may publish what it read before the other did. |
| `discovery/agent/agent.go` 521 | A content that is changed and changed back counts as published. |
| `discovery/agent/agent.go` 388 | The order of a map is in the checksum: an unchanged API may be published again. |
| `discovery/agent/agent.go` 380 | Only OpenAPI documents get credentials linked (`src/README.md` 44 speaks of all). |
| `discovery/kong/kongclient.go` 160-182 | An unstructured API is created only when specifications are looked for at the backend (`src/README.md` 94 names no such condition). |
| `discovery/kong/kongclient.go` 317 | Every status but 200 counts as "no specification here", also 503. |
| `traceability/beater/beater.go` 69 | `Stop` before `Run` has set its server stops nothing. |
| `traceability/beater/beater.go` 73 | If the shutdown ends before `Run` adds to `shutdownDone`, the counter goes below zero and the process panics. |
| `traceability/beater/beater.go` 94 | A batch is acknowledged before it is counted: the shutdown may miss it. |
| `traceability/beater/beater.go` 139 | Two pods that stop together both see two resources and remove both. |
| `traceability/processor/transaction.go` 62 | A sampled entry whose leg cannot be built is not counted in the metrics (`src/README.md` 64). |

## Not modelled

Left out, and why:

- the SDK, go-kong, libbeat and HTTP: modelled by how this code uses them;
- the schemas of `register.go`, the messages and logging: constants without behaviour;
- the forming of URLs and headers, TLS settings, the contents of documents: I/O and layout;
- `util.go` 32-60 of the processor: formatting;
- `WithProvData`: nothing calls it; the suspension of an OAuth credential, which
  register.go 39 allows: `Update` does not look at what kind of update is asked for, it rotates;
- the traceability configuration: two fields are checked for being set, once;
- services without a name, which bring the agent down at the first dereference (agent.go 181);
- a change of `KONG_ACL_DISABLE` between two lives of the agent.
