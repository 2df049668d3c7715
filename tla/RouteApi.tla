------------------------------ MODULE RouteApi ------------------------------
(***************************************************************************)
(* What the discovery agent publishes for the routes of a service: their   *)
(* endpoints (pkg/discovery/agent/route.go), and the security schemes and  *)
(* credentials that their plugins call for (agent.go:376-509), under a     *)
(* configuration it has accepted (pkg/discovery/config).                   *)
(*                                                                         *)
(* The routes of a service are processed one after the other, and all with *)
(* the same specification processor: what one route writes into it the     *)
(* next one finds there.                                                   *)
(***************************************************************************)
EXTENDS CredentialNames, FiniteSets

CONSTANTS
    Inputs,     \* the properties, specifications and routes there may be together
    Workspace   \* the workspace of the service, the sequence of its words

(* Kong keeps the hosts, the paths and the protocols of a route as sets, and *)
(* lists each of them once.                                                  *)
ListedOnce(list) == list \in Seq(ToSet(list)) /\ IsInjective(list)

(* The properties of the proxy that the endpoints stem from, among others.   *)
ASSUME InputsAssumption ==
    \A input \in Inputs :
        /\ {"host", "http", "httpDisable", "https", "httpsDisable", "basePath"}
              \subseteq DOMAIN input.props
        /\ input.props = [field \in DOMAIN input.props |-> input.props[field]]
        /\ input.props.httpDisable \in BOOLEAN /\ input.props.httpsDisable \in BOOLEAN
        /\ input.routes \in Seq(ToSet(input.routes))
        /\ \A r \in ToSet(input.routes) :
              ListedOnce(r.hosts) /\ ListedOnce(r.paths) /\ ListedOnce(r.protocols)

VARIABLES
    props,      \* the properties
    doc,        \* the specification as read: its type and own schemes
    routes,     \* the routes of the service
    pc,         \* "start", "run" or "refused"
    i,          \* the route in hand
    schemes,    \* the security schemes in the specification processor
    apis        \* apis[k]: what is published for route k, if anything is

vars == <<props, doc, routes, pc, i, schemes, apis>>

-----------------------------------------------------------------------------
(* Configuration. *)

(* Mutant: a disabled port keeps its value. *)
M_ParseProperties(p) == p

(* The port of a disabled endpoint counts as 0. *)
ParseProperties(p) ==
    [p EXCEPT !.http  = IF p.httpDisable THEN 0 ELSE @,
              !.https = IF p.httpsDisable THEN 0 ELSE @]

(* Mutant: both ports may be disabled. *)
M_ValidateCfg(c) ==
    /\ c.host # ""
    /\ c.httpDisable \/ c.http # 0
    /\ c.httpsDisable \/ c.https # 0
    /\ c.basePath \notin {"base", "/base/"}
    /\ c.adminUrl = "valid"
    /\ c.username = "" <=> c.password = ""

(* A base path is absent, or starts with a slash and does not end with one;  *)
(* a user name comes with a password and a password with a user name.        *)
ValidateCfg(c) ==
    /\ c.host # ""
    /\ c.httpDisable \/ c.http # 0
    /\ c.httpsDisable \/ c.https # 0
    /\ ~(c.httpDisable /\ c.httpsDisable)
    /\ c.basePath \notin {"base", "/base/"}
    /\ c.adminUrl = "valid"
    /\ c.username = "" <=> c.password = ""

cfg == ParseProperties(props)

-----------------------------------------------------------------------------
(* Endpoints. *)

Endpoint(host, port, protocol, path) ==
    [host |-> host, port |-> port, protocol |-> protocol, path |-> path]

(* 0: the protocol is none of the two, or its port is disabled. *)
PortOf(protocol) ==
    CASE protocol = "http" -> cfg.http [] protocol = "https" -> cfg.https [] OTHER -> 0

(* One endpoint for each protocol of the route whose port is enabled. *)
handleProtocol(protocol, host, path) ==
    IF PortOf(protocol) = 0 THEN <<>>
    ELSE <<Endpoint(host, PortOf(protocol), protocol, path)>>

handleProtocols(r, host, path) ==
    FlattenSeq([k \in DOMAIN r.protocols |-> handleProtocol(r.protocols[k], host, path)])

handlePaths(r, host, basePath) ==
    FlattenSeq([k \in DOMAIN r.paths |-> handleProtocols(r, host, <<basePath, r.paths[k]>>)])

handleHosts(r) == FlattenSeq([k \in DOMAIN r.hosts |-> handlePaths(r, r.hosts[k], "")])

(* The proxy host and base path of the configuration stand in when the hosts *)
(* of the route give no endpoint.                                            *)
GetEndpoints(r) ==
    IF handleHosts(r) = <<>> THEN handlePaths(r, cfg.host, cfg.basePath) ELSE handleHosts(r)

-----------------------------------------------------------------------------
(* Security. *)

(* A configuration that does not parse leaves the specification as it is.    *)
apiKeySecurity(config) ==
    IF ~config.parses THEN {}
    ELSE {[type |-> CrdOf["key-auth"], name |-> n,
           in |-> IF config.keyInQuery THEN "query" ELSE "header"] : n \in config.keyNames}

(* Mutant: the first endpoint will do. *)
M_oAuthSecurity(config, endpoints) ==
    IF ~config.parses \/ endpoints = <<>> THEN {}
    ELSE {[type |-> CrdOf["oauth2"], flows |-> config.grants, at |-> endpoints[1]]}

(* The URLs of the flows are those of the first https endpoint. *)
oAuthSecurity(config, endpoints) ==
    LET https == {k \in DOMAIN endpoints : endpoints[k].protocol = "https"}
        first == CHOOSE k \in https : \A j \in https : k <= j
    IN  IF ~config.parses \/ https = {} THEN {}
        ELSE {[type |-> CrdOf["oauth2"], flows |-> config.grants, at |-> endpoints[first]]}

SchemesOf(plugins, endpoints) ==
    UNION {CASE p = "basic-auth" -> {[type |-> CrdOf["basic-auth"]]}
             [] p = "key-auth"   -> apiKeySecurity(plugins[p])
             [] p = "oauth2"     -> oAuthSecurity(plugins[p], endpoints)
             [] OTHER            -> {} : p \in DOMAIN plugins}

IsOas == doc.type \in {"oas2", "oas3"}

(* Mutant: what the processor holds is not stripped. *)
M_processSpecSecurity(plugins, endpoints) ==
    IF IsOas THEN schemes \cup SchemesOf(plugins, endpoints) ELSE schemes

(* The schemes of an OpenAPI document are replaced by those of the plugins;  *)
(* any other document keeps what it has.                                     *)
processSpecSecurity(plugins, endpoints) ==
    IF IsOas THEN SchemesOf(plugins, endpoints) ELSE schemes

(* Without credentials the API is published as open to everyone. *)
buildServiceBody(plugins, endpoints) ==
    LET crds == IF IsOas THEN CrdsOf(Workspace, DOMAIN plugins) ELSE {}
    IN  [endpoints |-> endpoints, schemes |-> processSpecSecurity(plugins, endpoints),
         crds |-> crds, passthrough |-> crds = {}]

-----------------------------------------------------------------------------
Init ==
    /\ \E input \in Inputs :
          props = input.props /\ doc = input.doc /\ routes = input.routes
    /\ pc = "start"
    /\ i = 1
    /\ schemes = doc.schemes
    /\ apis = <<>>

(* The agent does not start with a configuration it refuses. *)
Start ==
    /\ pc = "start"
    /\ pc' = IF ValidateCfg(cfg) THEN "run" ELSE "refused"
    /\ UNCHANGED <<props, doc, routes, i, schemes, apis>>

(* The next route: it is passed over if it has no endpoint. *)
SpecPreparation ==
    /\ pc = "run"
    /\ i <= Len(routes)
    /\ LET plugins == routes[i].plugins
           endpoints == GetEndpoints(routes[i])
       IN  IF endpoints = <<>> THEN UNCHANGED <<schemes, apis>>
           ELSE /\ schemes' = processSpecSecurity(plugins, endpoints)
                /\ apis' = [k \in DOMAIN apis \cup {i} |->
                              IF k = i THEN buildServiceBody(plugins, endpoints) ELSE apis[k]]
    /\ i' = i + 1
    /\ UNCHANGED <<props, doc, routes, pc>>

Next == Start \/ SpecPreparation

Spec == Init /\ [][Next]_vars

-----------------------------------------------------------------------------
(* Properties. *)

(* The endpoints that the properties and the route call for: its own hosts   *)
(* as they are, or else the proxy host with its base path, with every path   *)
(* and every protocol that is not disabled.                                  *)
Wanted(r) ==
    LET Enabled(p) == IF p = "http" THEN ~props.httpDisable ELSE p = "https" /\ ~props.httpsDisable
        Port(p) == IF p = "http" THEN props.http ELSE props.https
        places == IF Len(r.hosts) > 0 THEN {<<r.hosts[h], "">> : h \in DOMAIN r.hosts}
                  ELSE {<<props.host, props.basePath>>}
    IN  {Endpoint(place[1], Port(r.protocols[p]), r.protocols[p], <<place[2], r.paths[k]>>) :
            place \in places, k \in DOMAIN r.paths,
            p \in {q \in DOMAIN r.protocols : Enabled(r.protocols[q])}}

(* A route is published with exactly the endpoints it can be reached at,     *)
(* each once, and not at all if there is none (route.go, config.go:228-242). *)
EndpointsExact ==
    \A k \in DOMAIN routes : pc = "run" /\ k < i =>
        IF Wanted(routes[k]) = {} THEN k \notin DOMAIN apis
        ELSE /\ k \in DOMAIN apis
             /\ ToSet(apis[k].endpoints) = Wanted(routes[k])
             /\ Len(apis[k].endpoints) = Cardinality(Wanted(routes[k]))

(* Under a configuration the agent accepts a route that has a path and       *)
(* speaks both protocols is published (config.go:163-177).                   *)
AcceptedPublishes ==
    \A k \in DOMAIN routes :
        pc = "run" /\ k < i /\ Len(routes[k].paths) > 0
            /\ {"http", "https"} \subseteq ToSet(routes[k].protocols) => k \in DOMAIN apis

(* An OpenAPI document says of security what the plugins of its own route    *)
(* do: every scheme in it is asked for by one of them, none stems from the   *)
(* backend's document or from another route of the service; every credential *)
(* linked to it has a scheme, unless its configuration does not parse, names *)
(* no key, or is for OAuth without an https endpoint, and was registered     *)
(* when the agent started; and it is open only without such plugins          *)
(* (agent.go:376-466, 504).                                                  *)
SecurityIsOwn ==
    \A k \in DOMAIN apis : IsOas =>
        LET plugins == routes[k].plugins
            auth == DOMAIN plugins \cap AuthPlugins
        IN  /\ \A s \in apis[k].schemes : \E p \in auth :
                  /\ CrdOf[p] = s.type
                  /\ p = "key-auth" => s.name \in plugins[p].keyNames
                  /\ p = "oauth2" => s.flows = plugins[p].grants
            /\ \A p \in auth :
                  /\ plugins[p].parses
                  /\ p = "key-auth" => plugins[p].keyNames # {}
                  /\ p = "oauth2" => \E e \in ToSet(apis[k].endpoints) : e.protocol = "https"
                  => \E s \in apis[k].schemes : s.type = CrdOf[p]
            /\ apis[k].crds \subseteq Registered({Workspace})
            /\ apis[k].passthrough <=> auth = {}

(* OAuth tokens are obtained over TLS from the API itself (agent.go:430).    *)
TokensOverTls ==
    \A k \in DOMAIN apis : IsOas =>
        \A s \in apis[k].schemes : s.type = CrdOf["oauth2"] =>
            s.at \in ToSet(apis[k].endpoints) /\ s.at.protocol = "https"
=============================================================================
