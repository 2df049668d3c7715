---------------------------- MODULE KongPlugins ----------------------------
(***************************************************************************)
(* The plugin table of a Kong gateway as the discovery agent reads it:     *)
(* the lookups of pkg/discovery/kong/provisioning.go (getSpecificPlugin,   *)
(* checkAccess) and of pkg/discovery/kong/plugins.go (mostSpecific,        *)
(* GetEffectivePlugins).  Nothing here changes state; the operators are    *)
(* pure functions of a listing.                                            *)
(*                                                                         *)
(* Kong pages through its plugins by primary key, and the key is a random  *)
(* UUID.  A plugin is therefore stored under a number from PluginIds, a    *)
(* new plugin takes any free number, and a listing is scanned from the     *)
(* lowest number to the highest: an old and a new plugin come in any       *)
(* order.                                                                  *)
(***************************************************************************)
EXTENDS Naturals

CONSTANTS
    Workspaces,    \* Kong workspaces the agent is configured with
    Services,      \* gateway services
    Routes,        \* routes of the services
    ConsumerIds,   \* identifiers Kong may give to a consumer
    Groups,        \* ACL groups that are not consumer identifiers (an operator's)
    Limits,        \* interval and limit of a quota Kong can enforce
    None,          \* an empty string, a nil pointer, an absent entry
    MaxPlugin      \* bound on the number of plugins Kong holds at once

ASSUME MaxPluginAssumption == MaxPlugin \in Nat

ASSUME NoneAssumption ==
    None \notin Workspaces \cup Services \cup Routes \cup ConsumerIds \cup Groups \cup Limits
                  \cup Nat

PluginIds == 1..MaxPlugin

ACL == "acl"
RateLimiting == "rate-limiting"

(* The fields of klib.Plugin the agent looks at.  "allow" is meaningful for *)
(* ACL, "limit" for rate limiting; a nil scope reference is None.           *)
Plugin ==
    [name     : {ACL, RateLimiting},
     ws       : Workspaces,
     service  : Services \cup {None},
     route    : Routes \cup {None},
     consumer : ConsumerIds \cup {None},
     enabled  : BOOLEAN,
     allow    : SUBSET (ConsumerIds \cup Groups),
     limit    : Limits \cup {None}]

ASSUME NoPluginAssumption == None \notin Plugin

PluginTable == [PluginIds -> Plugin \cup {None}]

Present(table) == {i \in PluginIds : table[i] # None}

(* ListAll through the client of workspace w sees that workspace only. *)
ListAll(table, w) ==
    [i \in PluginIds |->
        IF table[i] # None /\ table[i].ws = w THEN table[i] ELSE None]

Named(list, name) == {i \in Present(list) : list[i].name = name}

Least(S) == CHOOSE i \in S : \A j \in S : i <= j

-----------------------------------------------------------------------------
(* The plugins that getSpecificPlugin was asked for: all three scopes are   *)
(* the wanted ones.  This is the reference; the code's answer is below.     *)
ScopedTo(list, service, route, consumer, name) ==
    {i \in Named(list, name) :
        /\ list[i].service = service
        /\ list[i].route = route
        /\ list[i].consumer = consumer}

(* The plugins at which the loop of getSpecificPlugin would return.  The    *)
(* three flags are declared before the loop and never cleared, so a flag    *)
(* raised by an earlier plugin of that name still counts.                   *)
ReturnPoints(list, service, route, consumer, name) ==
    {i \in Named(list, name) :
        LET seen == {j \in Named(list, name) : j <= i}
        IN  /\ \E j \in seen : list[j].consumer = consumer
            /\ \E j \in seen : list[j].route = route
            /\ \E j \in seen : list[j].service = service}

(* Mutants: any route will do; a plugin is recognised only where it is the   *)
(* first of its name.                                                        *)
M_route_ignored(list, service, route, consumer, name) ==
    LET points == {i \in Named(list, name) :
                     list[i].route # None /\ list[i].consumer = consumer}
    IN  IF points = {} THEN None ELSE Least(points)

M_first_only(list, service, route, consumer, name) ==
    LET first == {i \in ScopedTo(list, service, route, consumer, name) :
                    \A j \in Named(list, name) : i <= j}
    IN  IF first = {} THEN None ELSE Least(first)

(* The plugin getSpecificPlugin returns, None for "no plugin found". *)
getSpecificPlugin(list, service, route, consumer, name) ==
    LET points == ReturnPoints(list, service, route, consumer, name)
    IN  IF points = {} THEN None ELSE Least(points)

(* checkAccess: the group is in the allow list of the plugin. *)
checkAccess(plugin, group) == group \in plugin.allow

-----------------------------------------------------------------------------
(* How specific the scope of a plugin is: a route beats a service. *)
Rank(p) == (IF p.route # None THEN 2 ELSE 0) + (IF p.service # None THEN 1 ELSE 0)

(* Mutant: the early returns for a plugin with both scopes are missing. *)
M_mostSpecific(p1, p2) ==
    CASE p1 = None -> p2
      [] p2 = None -> p1
      [] OTHER     -> IF p1.route # None THEN p1 ELSE p2

(* mostSpecific, in the order of its returns. *)
mostSpecific(p1, p2) ==
    LET both(p) == p.service # None /\ p.route # None
    IN  IF p1 = None THEN p2
        ELSE IF p2 = None \/ both(p1) THEN p1
        ELSE IF both(p2) THEN p2
        ELSE IF p1.route # None THEN p1
        ELSE IF p2.route # None THEN p2
        ELSE IF p1.service # None THEN p1 ELSE p2

(* The plugins GetEffectivePlugins does not skip. *)
Applies(p, route, service) ==
    /\ p # None
    /\ p.route \in {None, route}
    /\ p.service \in {None, service}
    /\ p.enabled

(* The entry of one plugin name in the map GetEffectivePlugins returns. *)
GetEffectivePlugin(list, route, service, name) ==
    LET scan[n \in 0..MaxPlugin] ==
            IF n = 0 THEN None
            ELSE IF Applies(list[n], route, service) /\ list[n].name = name
                 THEN mostSpecific(scan[n - 1], list[n])
                 ELSE scan[n - 1]
    IN  scan[MaxPlugin]
=============================================================================
