------------------------ MODULE MCAccessProvisioning ------------------------
(* Small instances of AccessProvisioning. *)
EXTENDS AccessProvisioning, TLC

CONSTANTS a1, a2, r1, r2, w1, w2, idOf1, idOf2

(* Two applications, or one of them. *)
MCMetadataId == [a \in Apps |-> IF a = a1 THEN idOf1 ELSE idOf2]

(* Both routes in one workspace; a workspace for each. *)
OneWorkspace  == [r \in Routes |-> w1]
TwoWorkspaces == [r \in Routes |-> IF r = r1 THEN w1 ELSE w2]

(* A gateway without plugins; one with the ACL plugin for all routes that    *)
(* the agent insists on unless access control is disabled, anywhere in the   *)
(* order of the listing.                                                     *)
NoPlugins == {[i \in PluginIds |-> None]}
GlobalAcl ==
    {[j \in PluginIds |->
        IF j = i THEN NewPlugin(ACL, w1, None, None, {}, None) ELSE None] : i \in PluginIds}

Interchangeable == Permutations(ConsumerIds)
InterchangeableWithRoutes == Permutations(ConsumerIds) \cup Permutations(Routes)
=============================================================================
