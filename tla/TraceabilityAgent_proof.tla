----------------------- MODULE TraceabilityAgent_proof -----------------------
(***************************************************************************)
(* Proofs about the traceability agent, for any number of requests and     *)
(* pods.  BeaterInv is an inductive invariant of HttpLogBeater and PodsInv *)
(* one of AgentResources.  An agent among the others is the beater of the  *)
(* one and a pod of the other, so what holds of either holds of it.        *)
(***************************************************************************)
EXTENDS TraceabilityAgent, FiniteSetTheorems, TLAPS

-----------------------------------------------------------------------------
(* The beater. *)

(* What the wait group counts is finite. *)
LEMMA RunningFinite ==
    /\ IsFiniteSet(Running)
    /\ Cardinality(Running) \in Nat
    /\ Cardinality(Running) <= Cardinality(Requests)
    /\ Cardinality(Requests) \in Nat
<1>1. Running \in SUBSET Requests
    BY DEF Running
<1>. QED
    BY <1>1, RequestsAssumption, FS_Subset, FS_CardinalityType

(* A step that leaves every request where it is, as far as the wait group is *)
(* concerned, leaves the count exact.                                        *)
LEMMA SameRunning ==
    ASSUME TypeOK, CountersExact, UNCHANGED processing,
           \A q \in Requests :
                req'[q] \in {"counted", "handled"} <=> req[q] \in {"counted", "handled"}
    PROVE  CountersExact'
<1>1. Running' = Running
    BY DEF Running
<1>. QED
    BY <1>1 DEF CountersExact

(* A goroutine joins the wait group. *)
LEMMA Joins ==
    ASSUME TypeOK, CountersExact, NEW q \in Requests, q \notin Running,
           processing' = processing + 1, req' = [req EXCEPT ![q] = "counted"]
    PROVE  CountersExact' /\ processing' \in 0..Cardinality(Requests)
<1>1. Running' = Running \cup {q}
    BY DEF Running, TypeOK
<1>2. /\ Cardinality(Running') = Cardinality(Running) + 1
      /\ Cardinality(Running') <= Cardinality(Requests)
    <2>1. Running' \in SUBSET Requests
        BY DEF Running
    <2>. QED
        BY <1>1, <2>1, RunningFinite, FS_AddElement, FS_Subset, RequestsAssumption
<1>. QED
    BY <1>2, RunningFinite DEF CountersExact

(* A goroutine leaves the wait group; the last one empties it.               *)
LEMMA Leaves ==
    ASSUME TypeOK, CountersExact, NEW q \in Running,
           processing' = processing - 1, req' = [req EXCEPT ![q] = "done"]
    PROVE  /\ CountersExact'
           /\ processing \in 1..Cardinality(Requests)
           /\ processing' \in 0..Cardinality(Requests)
           /\ processing = 1 => Running' = {}
<1>1. Running' = Running \ {q} /\ q \in Requests
    BY DEF Running, TypeOK
<1>2. IsFiniteSet(Running') /\ Cardinality(Running') = Cardinality(Running) - 1
    BY <1>1, RunningFinite, FS_RemoveElement
<1>3. Cardinality(Running) # 0
    BY RunningFinite, FS_EmptySet
<1>4. CountersExact'
    BY <1>2, RunningFinite DEF CountersExact
<1>5. processing = 1 => Running' = {}
    BY <1>2, FS_EmptySet DEF CountersExact
<1>. QED
    BY <1>3, <1>4, <1>5, RunningFinite DEF CountersExact

-----------------------------------------------------------------------------
(* The beater starts with nothing counted. *)
LEMMA BeaterInit == Init => BeaterInv
<1>. SUFFICES ASSUME Init PROVE BeaterInv
    OBVIOUS
<1>1. Running = {}
    BY DEF Init, Running
<1>2. CountersExact
    BY <1>1, FS_EmptySet DEF Init, CountersExact
<1>3. TypeOK
    <2>1. 0 \in 0..Cardinality(Requests) /\ 0 \in -1..1
        BY RunningFinite
    <2>. QED
        BY <2>1 DEF Init, TypeOK
<1>4. ShutdownCounted /\ WaitedFor /\ ReturnsAfterShutdown
    BY DEF Init, ShutdownCounted, WaitedFor, ReturnsAfterShutdown
<1>. QED
    BY <1>2, <1>3, <1>4 DEF BeaterInv

(* Run takes a step: the requests and the shutdown handler stay as they are. *)
LEMMA RunKeeps ==
    ASSUME BeaterInv, New \/ RunStep
    PROVE  BeaterInv'
<1>. USE DEF BeaterInv
<1>1. UNCHANGED <<req, processing, stopVars, metrics, published, panicked>>
    BY DEF New, RunStep, Connect, RegisterShutdownHandler, SetServer, ListenAndServe,
           ServerClosed, AddShutdown, Return, serverVars, groups
<1>2. /\ run = "joining" /\ run' = "waiting" /\ shutdownDone' = shutdownDone + 1
      \/ /\ run # "returned" /\ UNCHANGED shutdownDone
         /\ run = "waiting" => run' = "returned" /\ shutdownDone = 0
         /\ run # "waiting" => run' \notin {"waiting", "returned"}
    BY DEF New, RunStep, Connect, RegisterShutdownHandler, SetServer, ListenAndServe,
           ServerClosed, AddShutdown, Return, groups, Alive
<1>3. ShutdownCounted' /\ shutdownDone' \in -1..1
    BY <1>1, <1>2 DEF ShutdownCounted, TypeOK, stopVars
<1>4. TypeOK'
    BY <1>1, <1>3 DEF TypeOK, New, RunStep, Connect, RegisterShutdownHandler, SetServer,
        ListenAndServe, ServerClosed, AddShutdown, Return, stopVars
<1>5. CountersExact'
    BY <1>1, SameRunning
<1>6. WaitedFor'
    BY <1>1 DEF WaitedFor, stopVars
<1>7. ReturnsAfterShutdown'
    BY <1>1, <1>2 DEF ReturnsAfterShutdown, ShutdownCounted, stopVars
<1>. QED
    BY <1>3, <1>4, <1>5, <1>6, <1>7

(* A handler takes a step: at most its own request changes, which no         *)
(* shutdown waits for yet.                                                   *)
LEMMA HandlerKeeps ==
    ASSUME BeaterInv, NEW q \in Requests, HandlerStep(q)
    PROVE  BeaterInv'
<1>. USE DEF BeaterInv
<1>1. /\ UNCHANGED <<serverVars, shutdownDone, stopVars, metrics, published, panicked>>
      /\ \E s \in {"received", "refused", "acknowledged", "read", "unread", "counted"} :
            req' = [req EXCEPT ![q] = s]
      /\ req[q] \in {"none", "received", "acknowledged", "read"}
    BY DEF HandlerStep, Receive, Answer, ReadBody, Count, groups
<1>2. CountersExact' /\ processing' \in 0..Cardinality(Requests)
    <2>1. CASE Count(q)
        BY <2>1, Joins DEF Count, Running
    <2>2. CASE Receive(q) \/ Answer(q) \/ ReadBody(q)
        <3>1. UNCHANGED processing
            BY <2>2 DEF Receive, Answer, ReadBody, groups
        <3>2. \A p \in Requests :
                req'[p] \in {"counted", "handled"} <=> req[p] \in {"counted", "handled"}
            BY <2>2 DEF Receive, Answer, ReadBody, TypeOK
        <3>. QED
            BY <3>1, <3>2, SameRunning DEF TypeOK
    <2>. QED
        BY <2>1, <2>2 DEF HandlerStep
<1>3. TypeOK'
    BY <1>1, <1>2 DEF TypeOK, serverVars, stopVars
<1>4. q \notin inFlight
    BY <1>1 DEF WaitedFor
<1>5. WaitedFor'
    BY <1>1, <1>4 DEF WaitedFor, TypeOK, stopVars
<1>6. ShutdownCounted' /\ ReturnsAfterShutdown'
    BY <1>1 DEF ShutdownCounted, ReturnsAfterShutdown, serverVars, stopVars
<1>. QED
    BY <1>2, <1>3, <1>5, <1>6

(* The metrics of a batch enter the collector: it is none of those that      *)
(* shutdownHandler has finished with.                                        *)
LEMMA HandleKeeps ==
    ASSUME BeaterInv, NEW q \in Requests, Handle(q)
    PROVE  BeaterInv'
<1>. USE DEF BeaterInv, Handle
<1>1. UNCHANGED <<run, server, processing, shutdownDone, stop, shutdown, signalled, inFlight,
                  published, panicked>>
    BY DEF serverVars, groups, stopVars
<1>2. TypeOK'
    BY <1>1 DEF TypeOK
<1>3. CountersExact'
    <2>1. \A p \in Requests :
            req'[p] \in {"counted", "handled"} <=> req[p] \in {"counted", "handled"}
        BY DEF TypeOK
    <2>. QED
        BY <1>1, <2>1, SameRunning
<1>4. shutdown \in {"woken", "publishing", "cleaning", "done"} => q \notin inFlight
    BY DEF WaitedFor
<1>5. WaitedFor'
    BY <1>1, <1>4 DEF WaitedFor, TypeOK
<1>6. ShutdownCounted' /\ ReturnsAfterShutdown'
    BY <1>1 DEF ShutdownCounted, ReturnsAfterShutdown
<1>. QED
    BY <1>2, <1>3, <1>5, <1>6

(* A batch is done with: if it was the last one, shutdownHandler goes on.    *)
LEMMA DoneKeeps ==
    ASSUME BeaterInv, NEW q \in Requests, DropBatch(q) \/ PublishAll(q)
    PROVE  BeaterInv'
<1>. USE DEF BeaterInv
<1>1. /\ UNCHANGED <<run, server, shutdownDone, stop, signalled, inFlight, metrics, published>>
      /\ req[q] \in {"counted", "handled"}
      /\ req' = [req EXCEPT ![q] = "done"]
      /\ DoneProcessing
    BY DEF DropBatch, PublishAll, serverVars
<1>2. /\ CountersExact'
      /\ processing' \in 0..Cardinality(Requests)
      /\ processing = 1 => Running' = {}
    BY <1>1, Leaves DEF Running, DoneProcessing
<1>3. TypeOK'
    BY <1>1, <1>2, RunningFinite DEF TypeOK, DoneProcessing
<1>4. WaitedFor'
    <2>1. \A p \in inFlight : req'[p] \in {"counted", "handled", "done"}
        BY <1>1 DEF WaitedFor, TypeOK
    <2>2. CASE shutdown = "waiting" /\ processing = 1
        <3>1. \A p \in inFlight : req'[p] = "done"
            BY <1>1, <1>2, <2>1, <2>2 DEF Running, TypeOK
        <3>. QED
            BY <1>1, <2>2, <3>1 DEF WaitedFor, DoneProcessing
    <2>3. CASE ~(shutdown = "waiting" /\ processing = 1)
        BY <1>1, <2>1, <2>3 DEF WaitedFor, DoneProcessing, TypeOK
    <2>. QED
        BY <2>2, <2>3
<1>5. ShutdownCounted' /\ ReturnsAfterShutdown'
    BY <1>1 DEF ShutdownCounted, ReturnsAfterShutdown, DoneProcessing
<1>. QED
    BY <1>2, <1>3, <1>4, <1>5

(* The signal comes: shutdownHandler finds the goroutines that are counted.  *)
LEMMA SignalKeeps ==
    ASSUME BeaterInv, Signal
    PROVE  BeaterInv'
<1>. USE DEF BeaterInv, Signal
<1>1. UNCHANGED <<run, server, req, processing, shutdownDone, metrics, published, panicked>>
    BY DEF serverVars, groups
<1>2. shutdown = "idle" /\ shutdown' \in {"idle", "called"} /\ signalled' # "no"
    BY DEF WaitedFor
<1>3. \/ UNCHANGED <<shutdown, inFlight>>
      \/ shutdown' = "called" /\ inFlight' = Running
    OBVIOUS
<1>4. TypeOK'
    BY <1>1, <1>3 DEF TypeOK, Running
<1>5. CountersExact'
    BY <1>1, SameRunning
<1>6. WaitedFor'
    BY <1>1, <1>2, <1>3 DEF WaitedFor, Running
<1>7. ShutdownCounted' /\ ReturnsAfterShutdown'
    BY <1>1, <1>2 DEF ShutdownCounted, ReturnsAfterShutdown
<1>. QED
    BY <1>4, <1>5, <1>6, <1>7

(* Stop touches the server only. *)
LEMMA StopKeeps ==
    ASSUME BeaterInv, Stop \/ Drained
    PROVE  BeaterInv'
<1>. USE DEF BeaterInv
<1>1. /\ UNCHANGED <<run, req, processing, shutdownDone, shutdown, signalled, inFlight, metrics,
                     published, panicked>>
      /\ stop' \in {"draining", "done"}
      /\ server' \in {server, "closed"}
    BY DEF Stop, Drained, serverVars, groups
<1>2. TypeOK'
    BY <1>1 DEF TypeOK
<1>3. CountersExact'
    BY <1>1, SameRunning
<1>4. WaitedFor' /\ ShutdownCounted' /\ ReturnsAfterShutdown'
    BY <1>1 DEF WaitedFor, ShutdownCounted, ReturnsAfterShutdown
<1>. QED
    BY <1>2, <1>3, <1>4

(* shutdownHandler takes a step: it finds the wait group empty, publishes or *)
(* ends.                                                                     *)
LEMMA ShutdownKeeps ==
    ASSUME BeaterInv, ShutdownStep
    PROVE  BeaterInv'
<1>. USE DEF BeaterInv
<1>1. /\ UNCHANGED <<run, server, req, processing, stop, signalled, inFlight, metrics>>
      /\ run # "returned"
      /\ shutdown # "idle"
    BY DEF ShutdownStep, WaitProcessing, Woken, ShutdownPublish, CleanResource, serverVars,
           groups, Alive
<1>2. CountersExact'
    BY <1>1, SameRunning
<1>3. processing = 0 => \A q \in inFlight : req[q] = "done"
    <2>1. processing = 0 => Running = {}
        BY RunningFinite, FS_EmptySet DEF CountersExact
    <2>. QED
        BY <2>1 DEF WaitedFor, Running, TypeOK
<1>4. WaitedFor'
    <2>1. CASE WaitProcessing
        BY <1>1, <1>3, <2>1 DEF WaitedFor, WaitProcessing
    <2>2. CASE Woken
        BY <1>1, <2>2 DEF WaitedFor, Woken
    <2>3. CASE ShutdownPublish
        BY <1>1, <2>3 DEF WaitedFor, ShutdownPublish
    <2>4. CASE CleanResource
        BY <1>1, <2>4 DEF WaitedFor, CleanResource
    <2>. QED
        BY <2>1, <2>2, <2>3, <2>4 DEF ShutdownStep
<1>5. ShutdownCounted'
    <2>1. CASE CleanResource
        BY <1>1, <2>1 DEF ShutdownCounted, CleanResource, DoneShutdown, TypeOK
    <2>2. CASE WaitProcessing \/ Woken \/ ShutdownPublish
        BY <1>1, <2>2 DEF ShutdownCounted, WaitProcessing, Woken, ShutdownPublish, groups
    <2>. QED
        BY <2>1, <2>2 DEF ShutdownStep
<1>6. TypeOK'
    <2>1. shutdownDone' \in -1..1
        BY <1>5 DEF ShutdownCounted
    <2>2. CASE WaitProcessing
        BY <1>1, <2>1, <2>2 DEF TypeOK, WaitProcessing
    <2>3. CASE Woken
        BY <1>1, <2>1, <2>3, ZenonT(30) DEF TypeOK, Woken
    <2>4. CASE ShutdownPublish
        BY <1>1, <2>1, <2>4 DEF TypeOK, ShutdownPublish
    <2>5. CASE CleanResource
        BY <1>1, <2>1, <2>5 DEF TypeOK, CleanResource, DoneShutdown
    <2>. QED
        BY <2>2, <2>3, <2>4, <2>5 DEF ShutdownStep
<1>7. ReturnsAfterShutdown'
    BY <1>1 DEF ReturnsAfterShutdown
<1>. QED
    BY <1>2, <1>4, <1>5, <1>6, <1>7

(* A step that leaves the beater alone. *)
LEMMA StutterKeeps ==
    ASSUME BeaterInv, UNCHANGED vars
    PROVE  BeaterInv'
<1>. USE DEF BeaterInv, vars, serverVars, groups, stopVars
<1>1. CountersExact'
    BY SameRunning
<1>. QED
    BY <1>1 DEF TypeOK, ShutdownCounted, WaitedFor, ReturnsAfterShutdown

(* Every step of the beater keeps its invariant. *)
LEMMA BeaterNext == BeaterInv /\ [Next]_vars => BeaterInv'
<1>. SUFFICES ASSUME BeaterInv, [Next]_vars
              PROVE  BeaterInv'
    OBVIOUS
<1>1. CASE New \/ RunStep
    BY <1>1, RunKeeps
<1>2. CASE Signal
    BY <1>2, SignalKeeps
<1>3. CASE Stop \/ Drained
    BY <1>3, StopKeeps
<1>4. CASE ShutdownStep
    BY <1>4, ShutdownKeeps
<1>5. ASSUME NEW q \in Requests, HandlerStep(q)
      PROVE  BeaterInv'
    BY <1>5, HandlerKeeps
<1>6. ASSUME NEW q \in Requests, ProcessingStep(q)
      PROVE  BeaterInv'
    BY <1>6, HandleKeeps, DoneKeeps DEF ProcessingStep
<1>7. CASE UNCHANGED vars
    BY <1>7, StutterKeeps
<1>. QED
    BY <1>1, <1>2, <1>3, <1>4, <1>5, <1>6, <1>7 DEF Next

(* The counters of the wait groups are exact, and every stage of the         *)
(* shutdown has what the one before promised, however many requests there    *)
(* are and whenever they come (beater.go:73-116).                            *)
THEOREM BeaterInvariant == Spec => []BeaterInv
<1>. QED
    BY BeaterInit, BeaterNext, PTL DEF Spec

(* Run returns with no batch in processing that the shutdown found there and *)
(* no metrics of it unsent (beater.go:111-116).                              *)
THEOREM InFlightAccounted == Spec => []InFlightIsAccounted
<1>1. BeaterInv => InFlightIsAccounted
    BY DEF BeaterInv, WaitedFor, ReturnsAfterShutdown, InFlightIsAccounted
<1>. QED
    BY <1>1, BeaterInvariant, PTL

-----------------------------------------------------------------------------
(* The agent. *)

(* A step of the agent, in as far as the beater sees it, is one of the       *)
(* beater's.                                                                 *)
LEMMA AgentStep == [AgentNext]_agentVars => [Next]_vars
<1>. SUFFICES ASSUME AgentNext PROVE [Next]_vars
    BY DEF agentVars
<1>1. CASE StartAgent \/ Clean
    BY <1>1 DEF StartAgent, Clean
<1>2. CASE BeaterRun
    BY <1>2 DEF BeaterRun, Next
<1>3. CASE BeaterStop
    BY <1>3 DEF BeaterStop, Next
<1>4. CASE BeaterShutdown
    BY <1>4 DEF BeaterShutdown, Next, ShutdownStep
<1>5. CASE BeaterRest
    BY <1>5 DEF BeaterRest, Next
<1>6. CASE StopSignal
    BY <1>6 DEF StopSignal, Next
<1>7. CASE Cleaned
    BY <1>7 DEF Cleaned, Next, ShutdownStep
<1>8. ASSUME NEW q \in Requests, BeaterProcessing(q)
      PROVE  [Next]_vars
    BY <1>8 DEF BeaterProcessing, Next
<1>9. ASSUME NEW p \in Pods \ {Self}, OtherPod(p)
      PROVE  [Next]_vars
    BY <1>9 DEF OtherPod
<1>. QED
    BY <1>1, <1>2, <1>3, <1>4, <1>5, <1>6, <1>7, <1>8, <1>9 DEF AgentNext

(* The agent implements the beater: the other pods and the cleanup of its    *)
(* resource are stuttering steps of the server and its shutdown.             *)
THEOREM AgentIsBeater == AgentSpec => Spec
<1>1. AgentInit => Init
    BY DEF AgentInit
<1>. QED
    BY <1>1, AgentStep, PTL DEF AgentSpec, Spec

(* So its wait groups and its shutdown are in order (beater.go:73-116).      *)
THEOREM AgentBeaterInvariant == AgentSpec => []BeaterInv
<1>. QED
    BY AgentIsBeater, BeaterInvariant, PTL

(* The agent returns with nothing in processing that the shutdown found    *)
(* there and no metrics of it unsent (beater.go:111-116).                  *)
THEOREM AgentInFlightAccounted == AgentSpec => []InFlightIsAccounted
<1>. QED
    BY AgentIsBeater, InFlightAccounted, PTL

(* The resource goes only in a step of the cleanup, which comes after the    *)
(* metrics are published (beater.go:111-119).                                *)
THEOREM AgentRemovedAfterMetrics == AgentSpec => RemovedAfterMetrics
<1>1. ASSUME BeaterInv, [AgentNext]_agentVars, Self \in resources, Self \notin resources'
      PROVE  FinishedInFlight
    <2>1. shutdown = "cleaning"
        <3>1. UNCHANGED podVars => Self \in resources'
            BY <1>1 DEF podVars
        <3>2. ASSUME NEW p \in Pods, Start(p) PROVE Self \in resources'
            BY <1>1, <3>2 DEF Start
        <3>3. ASSUME NEW p \in Pods, BeginStop(p) PROVE Self \in resources'
            BY <1>1, <3>3 DEF BeginStop
        <3>4. ASSUME NEW p \in Pods \ {Self}, CleanStep(p) PROVE Self \in resources'
            BY <1>1, <3>4 DEF CleanStep, CheckStatus, GetResources, DeleteResourceInstance
        <3>5. AgentNext
            BY <1>1, <3>1 DEF agentVars
        <3>6. Clean
            BY <1>1, <3>1, <3>2, <3>3, <3>4, <3>5, SelfAssumption
               DEF AgentNext, StartAgent, BeaterRun, BeaterStop, BeaterShutdown, BeaterRest,
                   StopSignal, Cleaned, BeaterProcessing, OtherPod
        <3>. QED
            BY <3>6 DEF Clean
    <2>. QED
        BY <1>1, <2>1 DEF BeaterInv, WaitedFor, FinishedInFlight
<1>. QED
    BY <1>1, AgentBeaterInvariant, PTL DEF AgentSpec, RemovedAfterMetrics

-----------------------------------------------------------------------------
(* The resources of the pods. *)

PodsNext == \E p \in Pods : Start(p) \/ BeginStop(p) \/ CleanStep(p)

(* The beater's steps that do not concern its resource leave the pods      *)
(* alone.                                                                  *)
LEMMA PodsStep == [AgentNext]_agentVars => [PodsNext]_podVars
<1>. SUFFICES ASSUME AgentNext PROVE [PodsNext]_podVars
    BY DEF agentVars
<1>1. CASE StartAgent \/ StopSignal \/ Clean
    BY <1>1, SelfAssumption DEF StartAgent, StopSignal, Clean, PodsNext
<1>2. CASE BeaterRun \/ BeaterStop \/ BeaterShutdown \/ BeaterRest \/ Cleaned
    BY <1>2 DEF BeaterRun, BeaterStop, BeaterShutdown, BeaterRest, Cleaned
<1>3. ASSUME NEW q \in Requests, BeaterProcessing(q)
      PROVE  [PodsNext]_podVars
    BY <1>3 DEF BeaterProcessing
<1>4. ASSUME NEW p \in Pods \ {Self}, OtherPod(p)
      PROVE  [PodsNext]_podVars
    BY <1>4 DEF OtherPod, PodsNext
<1>. QED
    BY <1>1, <1>2, <1>3, <1>4 DEF AgentNext

CleaningUp == {"stopping", "listing", "deleting"}

PodTypes ==
    /\ pod \in [Pods -> Gone \cup {"up"} \cup CleaningUp]
    /\ resources \subseteq Pods
    /\ together \in BOOLEAN
    /\ faults \in Nat

(* As long as the pods stop one at a time, the one that is about to remove   *)
(* its resource still sees another one.                                      *)
OneAtATime ==
    ~together =>
        /\ \A p, q \in Pods : pod[p] \in CleaningUp /\ pod[q] \in CleaningUp => p = q
        /\ \A p \in Pods : pod[p] = "deleting" => resources \ {p} # {}

(* Whoever stops after looking is the only one who left something, unless    *)
(* some call failed.                                                         *)
PodsInv == PodTypes /\ OneAtATime /\ OneLeftBehind

(* No pod has a resource yet. *)
LEMMA PodsInitially == PodsInit => PodsInv
<1>. SUFFICES ASSUME PodsInit PROVE PodsInv
    OBVIOUS
<1>1. {p \in resources : pod[p] = "stopped"} = {}
    BY DEF PodsInit
<1>2. OneLeftBehind
    BY <1>1, FS_EmptySet DEF OneLeftBehind
<1>3. PodTypes /\ OneAtATime
    BY DEF PodsInit, PodTypes, OneAtATime, Gone, CleaningUp
<1>. QED
    BY <1>2, <1>3 DEF PodsInv

LeftBehind == {p \in resources : pod[p] = "stopped"}

(* A step that leaves no resource more behind. *)
LEMMA NoMoreLeft ==
    ASSUME PodTypes, OneLeftBehind, faults' = 0 => faults = 0, LeftBehind' \subseteq LeftBehind
    PROVE  OneLeftBehind'
<1>1. IsFiniteSet(LeftBehind)
    <2>1. LeftBehind \in SUBSET Pods
        BY DEF LeftBehind, PodTypes
    <2>. QED
        BY <2>1, PodsAssumption, FS_Subset
<1>2. /\ Cardinality(LeftBehind') <= Cardinality(LeftBehind)
      /\ Cardinality(LeftBehind') \in Nat
      /\ Cardinality(LeftBehind) \in Nat
    <2>1. LeftBehind' \in SUBSET LeftBehind
        OBVIOUS
    <2>. QED
        BY <1>1, <2>1, FS_Subset, FS_CardinalityType
<1>. QED
    BY <1>2 DEF OneLeftBehind, LeftBehind

(* One resource or none is not more than one, whoever is looking.            *)
LEMMA SeesAnother ==
    ASSUME PodTypes, NEW p \in Pods, Cardinality(resources) > 1
    PROVE  resources \ {p} # {}
<1>. SUFFICES ASSUME resources \ {p} = {} PROVE FALSE
    OBVIOUS
<1>1. resources \in SUBSET {p}
    OBVIOUS
<1>2. IsFiniteSet({p}) /\ Cardinality({p}) = 1
    BY FS_Singleton
<1>3. IsFiniteSet(resources) /\ Cardinality(resources) <= 1
    BY <1>1, <1>2, FS_Subset
<1>. QED
    BY <1>3, FS_CardinalityType

(* With one resource left at most, at most one is left behind.             *)
LEMMA LooksAlone ==
    ASSUME PodTypes, Cardinality(resources) <= 1, LeftBehind' \subseteq resources
    PROVE  OneLeftBehind'
<1>1. IsFiniteSet(resources)
    <2>1. resources \in SUBSET Pods
        BY DEF PodTypes
    <2>. QED
        BY <2>1, PodsAssumption, FS_Subset
<1>2. /\ Cardinality(LeftBehind') <= Cardinality(resources)
      /\ Cardinality(LeftBehind') \in Nat
      /\ Cardinality(resources) \in Nat
    <2>1. LeftBehind' \in SUBSET resources
        OBVIOUS
    <2>. QED
        BY <1>1, <2>1, FS_Subset, FS_CardinalityType
<1>. QED
    BY <1>2 DEF OneLeftBehind, LeftBehind

(* A new resource is not one left behind.                                  *)
LEMMA StartKeeps ==
    ASSUME PodsInv, NEW p \in Pods, Start(p)
    PROVE  PodsInv'
<1>. USE DEF PodsInv, Start, Goto
<1>1. PodTypes'
    BY DEF PodTypes
<1>2. OneAtATime'
    BY DEF OneAtATime, PodTypes, Gone, CleaningUp
<1>3. LeftBehind' \subseteq LeftBehind
    BY DEF LeftBehind, PodTypes
<1>. QED
    BY <1>1, <1>2, <1>3, NoMoreLeft

(* A pod that begins to stop is not stopped yet.                           *)
LEMMA BeginStopKeeps ==
    ASSUME PodsInv, NEW p \in Pods, BeginStop(p)
    PROVE  PodsInv'
<1>. USE DEF PodsInv, BeginStop, Goto
<1>1. PodTypes'
    BY DEF PodTypes, CleaningUp
<1>2. OneAtATime'
    <2>. SUFFICES ASSUME ~together' PROVE OneAtATime'
        BY DEF OneAtATime
    <2>1. \A q \in Pods \ {p} : pod'[q] \notin CleaningUp
        BY DEF PodTypes, Gone, CleaningUp
    <2>2. pod'[p] = "stopping"
        BY DEF PodTypes
    <2>. QED
        BY <2>1, <2>2 DEF OneAtATime, CleaningUp
<1>3. LeftBehind' \subseteq LeftBehind
    BY DEF LeftBehind, PodTypes
<1>. QED
    BY <1>1, <1>2, <1>3, NoMoreLeft

(* A pod that is not to clean up is not one of those left behind.          *)
LEMMA CheckStatusKeeps ==
    ASSUME PodsInv, NEW p \in Pods, CheckStatus(p)
    PROVE  PodsInv'
<1>. USE DEF PodsInv, CheckStatus, Goto
<1>1. PodTypes'
    BY DEF PodTypes, Gone, CleaningUp
<1>2. OneAtATime'
    BY DEF OneAtATime, PodTypes, CleaningUp
<1>3. LeftBehind' \subseteq LeftBehind
    BY DEF LeftBehind, PodTypes
<1>. QED
    BY <1>1, <1>2, <1>3, NoMoreLeft

(* Unless a call failed, a pod keeps its resource only if it saw no other. *)
LEMMA GetResourcesKeeps ==
    ASSUME PodsInv, NEW p \in Pods, GetResources(p)
    PROVE  PodsInv'
<1>. USE DEF PodsInv
<1>1. /\ pod[p] = "listing"
      /\ UNCHANGED <<resources, together>>
      /\ \/ Cardinality(resources) > 1 /\ pod' = [pod EXCEPT ![p] = "deleting"]
            /\ UNCHANGED faults
         \/ /\ pod' = [pod EXCEPT ![p] = "stopped"]
            /\ \/ Cardinality(resources) <= 1 /\ UNCHANGED faults
               \/ faults' = faults + 1
    BY DEF GetResources, Goto, Fault
<1>2. PodTypes'
    BY <1>1 DEF PodTypes, Gone, CleaningUp
<1>3. OneAtATime'
    BY <1>1, SeesAnother DEF OneAtATime, PodTypes, CleaningUp
<1>4. OneLeftBehind'
    <2>1. CASE faults' = faults + 1
        BY <2>1 DEF OneLeftBehind, PodTypes
    <2>2. CASE pod' = [pod EXCEPT ![p] = "deleting"] /\ UNCHANGED faults
        <3>1. LeftBehind' \subseteq LeftBehind
            BY <1>1, <2>2 DEF LeftBehind, PodTypes
        <3>. QED
            BY <2>2, <3>1, NoMoreLeft
    <2>3. CASE Cardinality(resources) <= 1
        <3>1. LeftBehind' \subseteq resources
            BY <1>1 DEF LeftBehind
        <3>. QED
            BY <2>3, <3>1, LooksAlone
    <2>. QED
        BY <1>1, <2>1, <2>2, <2>3
<1>. QED
    BY <1>2, <1>3, <1>4

(* Unless that fails, a pod that deletes its resource leaves none behind.  *)
LEMMA DeleteKeeps ==
    ASSUME PodsInv, NEW p \in Pods, DeleteResourceInstance(p)
    PROVE  PodsInv'
<1>. USE DEF PodsInv
<1>1. /\ pod[p] = "deleting"
      /\ pod' = [pod EXCEPT ![p] = "stopped"]
      /\ UNCHANGED together
      /\ \/ resources' = resources \ {p} /\ UNCHANGED faults
         \/ UNCHANGED resources /\ faults' = faults + 1
    BY DEF DeleteResourceInstance, Goto, Fault
<1>2. PodTypes'
    BY <1>1 DEF PodTypes, Gone
<1>3. OneAtATime'
    BY <1>1 DEF OneAtATime, PodTypes, CleaningUp
<1>4. OneLeftBehind'
    <2>1. CASE faults' = faults + 1
        BY <2>1 DEF OneLeftBehind, PodTypes
    <2>2. CASE resources' = resources \ {p} /\ UNCHANGED faults
        <3>1. LeftBehind' \subseteq LeftBehind
            BY <1>1, <2>2 DEF LeftBehind, PodTypes
        <3>. QED
            BY <2>2, <3>1, NoMoreLeft
    <2>. QED
        BY <1>1, <2>1, <2>2
<1>. QED
    BY <1>2, <1>3, <1>4

(* Every step of a pod keeps the invariant. *)
LEMMA PodsKeep == PodsInv /\ [PodsNext]_podVars => PodsInv'
<1>. SUFFICES ASSUME PodsInv, [PodsNext]_podVars
              PROVE  PodsInv'
    OBVIOUS
<1>1. ASSUME NEW p \in Pods, Start(p) \/ BeginStop(p) \/ CleanStep(p)
      PROVE  PodsInv'
    BY <1>1, StartKeeps, BeginStopKeeps, CheckStatusKeeps, GetResourcesKeeps, DeleteKeeps
       DEF CleanStep
<1>2. CASE UNCHANGED podVars
    <2>1. LeftBehind' \subseteq LeftBehind
        BY <1>2 DEF LeftBehind, podVars
    <2>2. OneLeftBehind'
        BY <1>2, <2>1, NoMoreLeft DEF PodsInv, podVars
    <2>. QED
        BY <1>2, <2>2 DEF PodsInv, PodTypes, OneAtATime, podVars
<1>. QED
    BY <1>1, <1>2 DEF PodsNext

(* The pods' invariant holds of the composition. *)
LEMMA PodsInvariant == AgentSpec => []PodsInv
<1>1. AgentInit => PodsInv
    BY PodsInitially DEF AgentInit
<1>2. PodsInv /\ [AgentNext]_agentVars => PodsInv'
    BY PodsStep, PodsKeep
<1>. QED
    BY <1>1, <1>2, PTL DEF AgentSpec

(* Agents that stop after looking at Central leave one resource behind at    *)
(* most, however many agents there are and however they overlap              *)
(* (beater.go:139-143).                                                      *)
THEOREM AgentOneLeftBehind == AgentSpec => []OneLeftBehind
<1>1. PodsInv => OneLeftBehind
    BY DEF PodsInv
<1>. QED
    BY <1>1, PodsInvariant, PTL

(* The last resource stays until several pods have been stopping at a time   *)
(* (beater.go:136).                                                          *)
THEOREM AgentLastResourceStays == AgentSpec => LastResourceStays
<1>1. ASSUME PodsInv, [PodsNext]_podVars
      PROVE  [~together /\ resources # {} => resources' # {}]_podVars
    <2>. SUFFICES ASSUME ~together, resources # {}, PodsNext
                  PROVE  resources' # {}
        BY <1>1
    <2>1. ASSUME NEW p \in Pods, Start(p) \/ BeginStop(p)
          PROVE  resources' # {}
        BY <2>1 DEF Start, BeginStop
    <2>2. ASSUME NEW p \in Pods, CleanStep(p)
          PROVE  resources' # {}
        BY <1>1, <2>2 DEF CleanStep, CheckStatus, GetResources, DeleteResourceInstance,
            PodsInv, OneAtATime
    <2>. QED
        BY <2>1, <2>2 DEF PodsNext
<1>. QED
    BY <1>1, PodsInvariant, PodsStep, PTL DEF AgentSpec, LastResourceStays
=============================================================================
