---------------------- MODULE MCCredentialProvisioning ----------------------
(* A small instance of CredentialProvisioning. *)
EXTENDS CredentialProvisioning

CONSTANTS a1, c1, c2, c3, default, team

(* An application with a credential of each kind in two workspaces, *)
(* and one of an unknown type.                                      *)
MCAppOf  == [c \in Credentials |-> a1]
MCWsOf   == [c \in Credentials |-> IF c = c1 THEN default ELSE IF c = c2 THEN team ELSE None]
MCKindOf == [c \in Credentials |->
                IF c = c1 THEN "http-basic" ELSE IF c = c2 THEN "oauth-secret" ELSE "api-key"]
=============================================================================
