-------------------------- MODULE TraceabilityAgent --------------------------
(***************************************************************************)
(* A traceability agent among those of the other pods: the server and its  *)
(* shutdown (HttpLogBeater) together with the cleanup of the agent         *)
(* resource that the shutdown ends with (AgentResources).                  *)
(***************************************************************************)
EXTENDS HttpLogBeater, AgentResources

CONSTANT Self  \* the pod of this agent

ASSUME SelfAssumption == Self \in Pods

agentVars == <<vars, podVars>>

AgentInit == Init /\ PodsInit

Up == pod[Self] # "absent"

(* The SDK registers the agent before New is called. *)
StartAgent == run = "checking" /\ ~Up /\ Start(Self) /\ UNCHANGED vars

(* The steps of the beater that do not concern its resource. *)
BeaterRun == Up /\ RunStep /\ UNCHANGED podVars

BeaterStop == Stop /\ UNCHANGED podVars

BeaterShutdown == (WaitProcessing \/ Woken \/ ShutdownPublish) /\ UNCHANGED podVars

BeaterProcessing(q) == ProcessingStep(q) /\ UNCHANGED podVars

BeaterRest ==
    /\ Up
    /\ New \/ Drained \/ \E q \in Requests : HandlerStep(q)
    /\ UNCHANGED podVars

(* The signal is the one that the pod gets. *)
StopSignal == Signal /\ BeginStop(Self)

(* Mutant: the resource is cleaned up before the metrics are published. *)
M_Clean == Alive /\ shutdown = "publishing" /\ CleanStep(Self) /\ UNCHANGED vars

(* shutdownHandler calls cleanResource last, and ends when that is done. *)
Clean == Alive /\ shutdown = "cleaning" /\ CleanStep(Self) /\ UNCHANGED vars

Cleaned == pod[Self] \in Gone /\ CleanResource /\ UNCHANGED podVars

OtherPod(p) == (Start(p) \/ BeginStop(p) \/ CleanStep(p)) /\ UNCHANGED vars

AgentNext ==
    \/ StartAgent \/ BeaterRun \/ BeaterStop \/ BeaterShutdown \/ BeaterRest
    \/ StopSignal \/ Clean \/ Cleaned
    \/ \E q \in Requests : BeaterProcessing(q)
    \/ \E p \in Pods \ {Self} : OtherPod(p)

AgentSpec == AgentInit /\ [][AgentNext]_agentVars

(* The goroutines of the agent run, and Central answers it; nothing is       *)
(* assumed of the clients, which may never finish a request, nor of the      *)
(* other pods.                                                               *)
FairAgentSpec ==
    /\ AgentSpec
    /\ WF_agentVars(BeaterRun)
    /\ WF_agentVars(BeaterStop)
    /\ WF_agentVars(BeaterShutdown \/ Clean \/ Cleaned)
    /\ \A q \in Requests : WF_agentVars(BeaterProcessing(q))

-----------------------------------------------------------------------------
(* A serving agent that is told to stop ends, whatever its clients and the   *)
(* other pods do, be it by the panic of a wait group                         *)
(* (beater.go:70-75, 107-120).                                               *)
StopEnds == signalled = "serving" ~> (run = "returned" \/ panicked)

FinishedInFlight == \A q \in inFlight : req[q] = "done" /\ (q \in metrics => q \in published)

(* The resource of an agent leaves Central only when the batches it found in *)
(* processing are done and their metrics are sent: nothing tells Central of  *)
(* an agent that is still at work (beater.go:111-119).                       *)
RemovedAfterMetrics ==
    [][(Self \in resources /\ Self \notin resources') => FinishedInFlight]_agentVars
=============================================================================
