--------------------------- MODULE AccessContract ---------------------------
(***************************************************************************)
(* What the provisioning of access promises to Amplify Central, whatever   *)
(* calls it takes to get there: a managed application is let in on a route *)
(* only while an access request for that pair is being provisioned, is put *)
(* out only while that request is being deprovisioned, and no answer       *)
(* contradicts what Kong enforces.                                         *)
(*                                                                         *)
(* AccessProvisioning implements this specification.                       *)
(***************************************************************************)
CONSTANTS
    Apps,        \* managed applications
    Routes,      \* routes on which access can be requested
    AclDisable   \* the agent runs without access control (KONG_ACL_DISABLE)

VARIABLES
    status,      \* what Central shows of the access request of each pair
    granted      \* the pairs <<application, route>> Kong lets through

vars == <<status, granted>>

Become(a, r, old, new) ==
    /\ status[<<a, r>>] \in old
    /\ status' = [status EXCEPT ![<<a, r>>] = new]
    /\ UNCHANGED granted

Init ==
    /\ status = [p \in Apps \X Routes |-> "none"]
    /\ granted = {}

(* The steps of Central and its users. *)
Ask(a, r) ==
    \/ Become(a, r, {"none", "deleted", "failed"}, "pending")
    \/ Become(a, r, {"granted", "failed", "deleteFailed"}, "deleting")

Grant(a, r) ==
    /\ status[<<a, r>>] = "pending"
    /\ granted' = granted \cup {<<a, r>>}
    /\ UNCHANGED status

Revoke(a, r) ==
    /\ status[<<a, r>>] = "deleting"
    /\ granted' = granted \ {<<a, r>>}
    /\ UNCHANGED status

AnswerGranted(a, r) ==
    /\ AclDisable \/ <<a, r>> \in granted
    /\ Become(a, r, {"pending"}, "granted")

AnswerDeleted(a, r) ==
    /\ <<a, r>> \notin granted
    /\ Become(a, r, {"deleting"}, "deleted")

AnswerFailed(a, r) ==
    \/ Become(a, r, {"pending"}, "failed")
    \/ Become(a, r, {"deleting"}, "deleteFailed")

Next ==
    \E a \in Apps, r \in Routes :
        \/ Ask(a, r)
        \/ Grant(a, r)
        \/ Revoke(a, r)
        \/ AnswerGranted(a, r)
        \/ AnswerDeleted(a, r)
        \/ AnswerFailed(a, r)

Spec == Init /\ [][Next]_vars
=============================================================================
