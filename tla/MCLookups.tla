------------------------------ MODULE MCLookups ------------------------------
(* The inputs of the operators that only compute: plugin tables for those of *)
(* KongPlugins, names of workspaces for those of CredentialNames.            *)
EXTENDS KongPlugins

INSTANCE CredentialNames

CONSTANTS Words, MaxWords  \* a workspace is named with up to MaxWords of Words

ASSUME MaxWordsAssumption == MaxWords \in Nat

VARIABLES table, workspace
vars == <<table, workspace>>

(* ACL plugins have no consumer scope in Kong; the contents of a plugin     *)
(* (allow, limit) play no part in the lookups.                              *)
InputPlugins ==
    {p \in [name : {ACL, RateLimiting}, ws : Workspaces,
            service : Services \cup {None}, route : Routes \cup {None},
            consumer : ConsumerIds \cup {None}, enabled : BOOLEAN,
            allow : {{}}, limit : {None}] :
        p.name = ACL => p.consumer = None}

AnyTable ==
    /\ table \in [PluginIds -> InputPlugins \cup {None}]
    /\ workspace = <<"team">>

AnyWorkspace ==
    /\ table = [i \in PluginIds |-> None]
    /\ workspace \in UNION {[1..n -> Words] : n \in 1..MaxWords}

Init == AnyTable \/ AnyWorkspace

Spec == Init /\ [][UNCHANGED vars]_vars

-----------------------------------------------------------------------------
(* Plugins. *)

AclScopes == {i \in Named(table, ACL) : table[i].route # None}

(* Where no ACL plugin is scoped to both a service and a route, the lookup  *)
(* AddRouteACL and RemoveRouteACL start with is exact in spite of its       *)
(* sticky flags: it returns an ACL plugin of the route alone, and finds one *)
(* whenever there is one (provisioning.go 136 and 181).                     *)
AclLookupExact ==
    (\A i \in AclScopes : table[i].service = None) =>
        \A r \in Routes :
            LET found == getSpecificPlugin(table, None, r, None, ACL)
                wanted == ScopedTo(table, None, r, None, ACL)
            IN  IF wanted = {} THEN found = None ELSE found \in wanted

(* Whatever the plugins are, the lookup of AddQuota never overlooks the     *)
(* rate limiting plugin of a route and consumer: it answers "not found",    *)
(* upon which AddQuota creates one, only if there is none.                  *)
RateLookupComplete ==
    \A r \in Routes, c \in ConsumerIds :
        getSpecificPlugin(table, None, r, c, RateLimiting) = None
            => ScopedTo(table, None, r, c, RateLimiting) = {}

(* The lookup of AddQuota is exact for a route and consumer whose route has *)
(* no other rate limiting plugin than that consumer's own, whatever is on   *)
(* other routes and in whatever order.  Any other plugin on the route,      *)
(* another consumer's or one for all consumers, may mislead it: that one    *)
(* raises the flag of the route, and the plugin of the consumer on another  *)
(* route, listed after it, is taken for the wanted one (provisioning.go     *)
(* 356-381).                                                                *)
RateLookupExact ==
    \A r \in Routes, c \in ConsumerIds :
        (\A i \in Named(table, RateLimiting) :
             table[i].route = r => table[i].service = None /\ table[i].consumer = c) =>
            LET found == getSpecificPlugin(table, None, r, c, RateLimiting)
                wanted == ScopedTo(table, None, r, c, RateLimiting)
            IN  IF wanted = {} THEN found = None ELSE found \in wanted

(* GetEffectivePlugins keeps, of the enabled plugins that apply to a route, *)
(* one that no other beats in specificity, in whatever order Kong lists     *)
(* them, and forgets none (plugins.go 18-74).                               *)
EffectiveIsMostSpecific ==
    \A r \in Routes, s \in Services, name \in {ACL, RateLimiting} :
        LET applicable == {i \in Named(table, name) : Applies(table[i], r, s)}
            kept == GetEffectivePlugin(table, r, s, name)
        IN  IF applicable = {} THEN kept = None
            ELSE /\ \E i \in applicable : kept = table[i]
                 /\ \A i \in applicable : Rank(table[i]) <= Rank(kept)

-----------------------------------------------------------------------------
(* Names. *)

Names(p) == \E i \in DOMAIN Types : ContainsName(p, Types[i])

Parsed(p) == parseCredentialType(WksPrefixName(workspace, CrdOf[p]))

(* The definition a credential of a published API is requested with leads   *)
(* back to the workspace and the type of the API, unless the workspace      *)
(* itself is named after a type (agent.go:390, credential.go:51-65).        *)
ParsesBack ==
    \A p \in AuthPlugins :
        ~Names(workspace) => Parsed(p) = <<workspace, CrdOf[p]>>

(* And then too it leads to the right credential or to a workspace of the   *)
(* definition's whole name, never to a shorter one that might exist.        *)
NeverAnotherWorkspace ==
    \A p \in AuthPlugins :
        \/ Parsed(p) = <<workspace, CrdOf[p]>>
        \/ Parsed(p)[1] = WksPrefixName(workspace, CrdOf[p])
=============================================================================
