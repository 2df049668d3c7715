------------------------- MODULE CredentialContract -------------------------
(***************************************************************************)
(* What the provisioning of credentials promises to Amplify Central,       *)
(* whatever calls it takes to get there: a secret works only at the        *)
(* consumer it is asked for and is handed out only once it does, a         *)
(* rotation and a deletion withdraw the secret that was handed out, a      *)
(* removed application has none, and what failures leave behind is bounded *)
(* by their number.                                                        *)
(*                                                                         *)
(* CredentialProvisioning implements this specification.                   *)
(***************************************************************************)
EXTENDS Naturals, FiniteSets

CONSTANTS
    None,
    Apps,         \* managed applications
    Credentials,  \* credential resources
    AppOf, WsOf,  \* the application and the workspace of each credential
    Secrets

VARIABLES
    app,       \* what Central shows of each application
    status,    \* what Central shows of each credential
    shown,     \* shown[c]: the secret Central has handed out for c
    working,   \* the pairs <<consumer, secret>> that Kong accepts
    failures   \* calls that failed, answers that were lost and crashes

vars == <<app, status, shown, working, failures>>

Init ==
    /\ app = [a \in Apps |-> "none"]
    /\ status = [c \in Credentials |-> "none"]
    /\ shown = [c \in Credentials |-> None]
    /\ working = {}
    /\ failures = 0

AppBecomes(a, old, new) == app[a] \in old /\ app' = [app EXCEPT ![a] = new]

Becomes(c, old, new) == status[c] \in old /\ status' = [status EXCEPT ![c] = new]

-----------------------------------------------------------------------------
(* The steps of Central and its users. *)

AskApp(a) ==
    /\ \/ AppBecomes(a, {"none"}, "pending")
       \/ AppBecomes(a, {"active", "deleteFailed"}, "deleting")
    /\ UNCHANGED <<status, shown, working, failures>>

Ask(c) ==
    /\ \/ app[AppOf[c]] = "active" /\ Becomes(c, {"none", "failed"}, "pending")
       \/ Becomes(c, {"provisioned", "updateFailed"}, "updating")
       \/ Becomes(c, {"provisioned", "updateFailed", "failed", "deleteFailed"}, "deleting")
    /\ UNCHANGED <<app, shown, working, failures>>

-----------------------------------------------------------------------------
(* What Kong accepts changes, and the agent may or may not hear of it. *)

MayFail == failures' \in {failures, failures + 1}

Fail == failures' = failures + 1 /\ UNCHANGED <<app, status, shown, working>>

Consumer(c) == <<AppOf[c], WsOf[c]>>

New(s) == (\A c \in Credentials : shown[c] # s) /\ (\A p \in working : p[2] # s)

Issue(c, s) ==
    /\ status[c] \in {"pending", "updating"}
    /\ New(s)
    /\ working' = working \cup {<<Consumer(c), s>>}
    /\ MayFail
    /\ UNCHANGED <<app, status, shown>>

Revoke(c) ==
    /\ status[c] \in {"updating", "deleting"}
    /\ working' = working \ {<<Consumer(c), shown[c]>>}
    /\ MayFail
    /\ UNCHANGED <<app, status, shown>>

(* A consumer goes with all its credentials. *)
Remove(a) ==
    /\ app[a] = "deleting"
    /\ \E x \in {p[1] : p \in working} :
          x[1] = a /\ working' = {p \in working : p[1] # x}
    /\ MayFail
    /\ UNCHANGED <<app, status, shown>>

-----------------------------------------------------------------------------
(* The answers. *)

(* What works and what Central does not show, or shows as deleted: one for   *)
(* each failure at most.                                                     *)
LeftBehind ==
    working \ {<<Consumer(c), shown[c]>> : c \in {d \in Credentials : status[d] # "deleted"}}

FewLeftBehind == Cardinality(LeftBehind) <= failures

Answer(c) == FewLeftBehind' /\ UNCHANGED <<app, working, failures>>

AnswerProvisioned(c, s) ==
    /\ Becomes(c, {"pending", "updating"}, "provisioned")
    /\ <<Consumer(c), s>> \in working
    /\ <<Consumer(c), shown[c]>> \notin working
    /\ \A d \in Credentials : shown[d] # s
    /\ shown' = [shown EXCEPT ![c] = s]
    /\ Answer(c)

AnswerDeleted(c) ==
    /\ Becomes(c, {"deleting"}, "deleted")
    /\ UNCHANGED shown
    /\ Answer(c)

AnswerFailed(c) ==
    /\ \/ Becomes(c, {"pending"}, "failed")
       \/ Becomes(c, {"updating"}, "updateFailed")
       \/ Becomes(c, {"deleting"}, "deleteFailed")
    /\ UNCHANGED shown
    /\ Answer(c)

(* The consumers of an application at which something still works. *)
StillThere(a) == {x \in {p[1] : p \in working} : x[1] = a}

FewStillThere(a) == Cardinality(StillThere(a)) <= failures

AnswerApp(a) ==
    /\ \/ AppBecomes(a, {"pending"}, "active")
       \/ AppBecomes(a, {"deleting"}, "deleteFailed")
       \/ AppBecomes(a, {"deleting"}, "removed") /\ FewStillThere(a)
    /\ UNCHANGED <<status, shown, working, failures>>

-----------------------------------------------------------------------------
Next ==
    \/ \E a \in Apps : AskApp(a) \/ Remove(a) \/ AnswerApp(a)
    \/ \E c \in Credentials :
          \/ Ask(c) \/ Revoke(c) \/ AnswerDeleted(c) \/ AnswerFailed(c)
          \/ \E s \in Secrets : Issue(c, s) \/ AnswerProvisioned(c, s)
    \/ Fail

Spec == Init /\ [][Next]_vars
=============================================================================
