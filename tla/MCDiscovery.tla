---------------------------- MODULE MCDiscovery ----------------------------
(* Small instances of Discovery. *)
EXTENDS Discovery, TLC

CONSTANTS w1, w2, s1, s2, s3, r1, r2, r3

(* A service of two routes in one workspace; in the other a service of one   *)
(* route and a service of none.                                              *)
MCWorkspaces == <<w1, w2>>
MCServicesOf == (w1 :> {s1}) @@ (w2 :> {s2, s3})
MCRoutesOf   == (s1 :> {r1, r2}) @@ (s2 :> {r3}) @@ (s3 :> {})

(* One service with one route. *)
OneWorkspace == <<w1>>
OneServiceOf == (w1 :> {s1})
OneRouteOf   == (s1 :> {r1})
=============================================================================
