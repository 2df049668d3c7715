--------------------------- MODULE AgentResources ---------------------------
(***************************************************************************)
(* The resources that the traceability agents of a gateway keep in         *)
(* Central: cleanResource of pkg/traceability/beater/beater.go and the     *)
(* agent name of pkg/traceability/main/agent.go.                           *)
(*                                                                         *)
(* Every pod of the stateful set runs an agent under the name of the pod.  *)
(* The agent registers a resource of that name when it starts, and removes *)
(* it when it stops, unless it is the last one.  The pods share nothing    *)
(* but the list of resources in Central.                                   *)
(***************************************************************************)
EXTENDS Naturals, FiniteSets

CONSTANTS
    Pods,       \* the agents
    Named,      \* those with POD_NAME set: the others remove nothing
    MaxFaults   \* bound on failed calls

ASSUME PodsAssumption == IsFiniteSet(Pods)
ASSUME MaxFaultsAssumption == MaxFaults \in Nat

VARIABLES
    pod,        \* pod[p]: where the agent of pod p is
    resources,  \* the agent resources in Central, by the name of their pod
    together,   \* whether several pods have been stopping at a time
    faults      \* failed calls so far

podVars == <<pod, resources, together, faults>>

PodsInit ==
    /\ pod = [p \in Pods |-> "absent"]
    /\ resources = {}
    /\ together = FALSE
    /\ faults = 0

Gone == {"absent", "left", "stopped"}

Goto(p, step) == pod' = [pod EXCEPT ![p] = step]

Fault == faults < MaxFaults /\ faults' = faults + 1

(* The agent starts, or starts again, and registers its resource.            *)
Start(p) ==
    /\ pod[p] \in Gone
    /\ Goto(p, "up")
    /\ resources' = resources \cup {p}
    /\ UNCHANGED <<together, faults>>

(* The pod is told to stop. *)
BeginStop(p) ==
    /\ pod[p] = "up"
    /\ Goto(p, "stopping")
    /\ together' = (together \/ \E q \in Pods \ {p} : pod[q] \notin Gone \cup {"up"})
    /\ UNCHANGED <<resources, faults>>

(* An agent without a pod name leaves its resource, and so does one whose    *)
(* status is failed or unhealthy now.                                        *)
CheckStatus(p) ==
    /\ pod[p] = "stopping"
    /\ \/ Goto(p, "left")
       \/ p \in Named /\ Goto(p, "listing")
    /\ UNCHANGED <<resources, together, faults>>

(* Mutant: the agent does not count its own resource. *)
M_GetResources(p) ==
    /\ pod[p] = "listing"
    /\ \/ Cardinality(resources \ {p}) > 1 /\ Goto(p, "deleting") /\ UNCHANGED faults
       \/ Cardinality(resources \ {p}) <= 1 /\ Goto(p, "stopped") /\ UNCHANGED faults
       \/ Goto(p, "stopped") /\ Fault
    /\ UNCHANGED <<resources, together>>

(* Mutant: one resource is taken for more than one. *)
M_GetResourcesLast(p) ==
    /\ pod[p] = "listing"
    /\ \/ Cardinality(resources) >= 1 /\ Goto(p, "deleting") /\ UNCHANGED faults
       \/ Goto(p, "stopped") /\ Fault
    /\ UNCHANGED <<resources, together>>

(* It removes its resource if there is another one, and only if Central      *)
(* could tell.                                                               *)
GetResources(p) ==
    /\ pod[p] = "listing"
    /\ \/ Cardinality(resources) > 1 /\ Goto(p, "deleting") /\ UNCHANGED faults
       \/ Cardinality(resources) <= 1 /\ Goto(p, "stopped") /\ UNCHANGED faults
       \/ Goto(p, "stopped") /\ Fault
    /\ UNCHANGED <<resources, together>>

(* The result of the removal is not looked at.                               *)
DeleteResourceInstance(p) ==
    /\ pod[p] = "deleting"
    /\ Goto(p, "stopped")
    /\ \/ resources' = resources \ {p} /\ UNCHANGED faults
       \/ UNCHANGED resources /\ Fault
    /\ UNCHANGED together

CleanStep(p) == CheckStatus(p) \/ GetResources(p) \/ DeleteResourceInstance(p)

-----------------------------------------------------------------------------
(* The comment at beater.go:136: the last agent resource is not removed.     *)
(* It is not until several pods have been stopping at a time.                *)
LastResourceStays == [][~together /\ resources # {} => resources' # {}]_podVars

(* However the agents start and stop, those that looked whether to clean up  *)
(* leave at most one resource behind (beater.go:139-143).                    *)
OneLeftBehind == faults = 0 => Cardinality({p \in resources : pod[p] = "stopped"}) <= 1
=============================================================================
