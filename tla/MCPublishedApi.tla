--------------------------- MODULE MCPublishedApi ---------------------------
(* The inputs of RouteApi, some about endpoints, some about security; and    *)
(* beside them the searches of SpecRetrieval.  A behaviour is about one of   *)
(* the two: the routes of a service, or its specification.                   *)
EXTENDS RouteApi, SpecRetrieval, TLC

MCWorkspace == <<"team">>

Oas(own) == [type |-> "oas3", schemes |-> own]
BasicScheme == [type |-> <<"http", "basic">>]

Defaults ==
    [host |-> "proxy", http |-> 80, httpDisable |-> FALSE, https |-> 443, httpsDisable |-> FALSE,
     basePath |-> "", adminUrl |-> "valid", username |-> "", password |-> ""]

-----------------------------------------------------------------------------
(* Any configuration, a route with any hosts, paths and protocols. *)
AnyProps ==
    [host : {"", "proxy"}, http : {0, 80}, httpDisable : BOOLEAN, https : {0, 443},
     httpsDisable : BOOLEAN, basePath : {"", "/base", "base", "/base/"},
     adminUrl : {"valid", "invalid"}, username : {""}, password : {"", "secret"}]

Lists(S) == {<<>>} \cup {<<x>> : x \in S} \cup {s \in S \X S : s[1] # s[2]}

AnyRoute ==
    {<<r>> : r \in [hosts : Lists({"one", "two"}), paths : Lists({"/a", "/b"}),
                    protocols : Lists({"http", "https"}) \cup {<<"grpc", "https">>},
                    plugins : {<<>>}]}

AboutEndpoints ==
    [props : AnyProps, doc : {Oas({})}, routes : AnyRoute]

-----------------------------------------------------------------------------
(* A service of two routes with any plugins, and documents with and without  *)
(* security of their own.                                                    *)
KeyConfigs ==
    [parses : BOOLEAN, keyNames : {{}, {"k1"}, {"k1", "k2"}}, keyInQuery : {FALSE}]
OAuthConfigs == [parses : BOOLEAN, grants : {{}, {"client_credentials"}}]

PluginMaps ==
    UNION {[{"basic-auth"} -> {[parses |-> TRUE]}],
           [{"key-auth"} -> KeyConfigs],
           [{"oauth2"} -> OAuthConfigs],
           [{"acl"} -> {[parses |-> TRUE]}],
           {("key-auth" :> k) @@ ("oauth2" :> o) : k \in KeyConfigs, o \in OAuthConfigs},
           {<<>>}}

RouteWith(map, protocols) ==
    [hosts |-> <<>>, paths |-> <<"/a">>, protocols |-> protocols, plugins |-> map]

TwoRoutes ==
    {<<RouteWith(m, p), RouteWith(n, <<"http", "https">>)>> :
        m \in PluginMaps, n \in PluginMaps, p \in {<<"http">>, <<"http", "https">>}}

AnyDocument ==
    {Oas({}), Oas({BasicScheme}), [type |-> "unstructured", schemes |-> {}]}

AboutSecurity ==
    [props : {Defaults, [Defaults EXCEPT !.httpsDisable = TRUE]}, doc : AnyDocument,
     routes : TwoRoutes]

AnyInput == AboutEndpoints \cup AboutSecurity

-----------------------------------------------------------------------------
NoRoutes ==
    /\ props = Defaults /\ doc = Oas({}) /\ routes = <<>>
    /\ pc = "refused" /\ i = 1 /\ schemes = {} /\ apis = <<>>

NoSearch ==
    /\ localPath = TRUE /\ devPortal = FALSE /\ createUnstructured = FALSE
    /\ file = "spec" /\ documents = "noDocument" /\ address = TRUE /\ backend = <<>>
    /\ searchPc = "done" /\ next = 1 /\ result = [is |-> "file", path |-> 0]
    /\ failed = [transport |-> 0, status |-> 0]

EitherInit == (Init /\ NoSearch) \/ (RetrievalInit /\ NoRoutes)

EitherNext ==
    \/ Next /\ UNCHANGED retrievalVars
    \/ RetrievalNext /\ UNCHANGED vars

EitherSpec == EitherInit /\ [][EitherNext]_<<vars, retrievalVars>>

=============================================================================
