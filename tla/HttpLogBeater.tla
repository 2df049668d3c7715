--------------------------- MODULE HttpLogBeater ---------------------------
(***************************************************************************)
(* The traceability agent's HTTP server and how it stops:                  *)
(* pkg/traceability/beater/beater.go.                                      *)
(*                                                                         *)
(* Four kinds of goroutines run here: Run, which serves until the server   *)
(* is closed; a handler and then a processing goroutine for every request  *)
(* of Kong's HTTP Log plugin; Stop, which libbeat calls on a signal; and   *)
(* shutdownHandler, which the agent SDK calls on the same signal.  Nothing *)
(* orders the last two.  They share two wait groups and the server.        *)
(***************************************************************************)
EXTENDS Integers, FiniteSets

CONSTANT Requests  \* the requests Kong may send while the agent runs

ASSUME RequestsAssumption == IsFiniteSet(Requests)

VARIABLES
    run,           \* where New and Run are
    server,        \* b.server: "zero" value, "set", "listening" or "closed"
    req,           \* req[q]: how far the agent is with request q
    processing,    \* counter of the wait group b.processing
    shutdownDone,  \* counter of the wait group b.shutdownDone
    stop,          \* where Stop is
    shutdown,      \* where shutdownHandler is
    metrics,       \* requests whose metrics the collector has
    published,     \* requests whose metrics ShutdownPublish has sent
    signalled,     \* when the signal came: "no", "early" or "serving"
    inFlight,      \* requests in processing when shutdownHandler was called
    panicked       \* a wait group panicked: the process is gone

serverVars == <<run, server>>
groups     == <<processing, shutdownDone>>
stopVars   == <<stop, shutdown, signalled, inFlight>>
vars == <<serverVars, req, groups, stopVars, metrics, published, panicked>>

Running == {q \in Requests : req[q] \in {"counted", "handled"}}

TypeOK ==
    /\ run \in {"checking", "connecting", "registering", "setting", "calling", "listening",
                "joining", "waiting", "returned", "failed"}
    /\ server \in {"zero", "set", "listening", "closed"}
    /\ req \in [Requests -> {"none", "received", "refused", "acknowledged", "read", "unread",
                             "counted", "handled", "done"}]
    /\ processing \in 0..Cardinality(Requests)
    /\ shutdownDone \in -1..1
    /\ stop \in {"idle", "called", "draining", "done"}
    /\ shutdown \in {"idle", "called", "waiting", "woken", "publishing", "cleaning", "done"}
    /\ metrics \subseteq Requests
    /\ published \subseteq Requests
    /\ signalled \in {"no", "early", "serving"}
    /\ inFlight \subseteq Requests
    /\ panicked \in BOOLEAN

Init ==
    /\ run = "checking"
    /\ server = "zero"
    /\ req = [q \in Requests |-> "none"]
    /\ processing = 0
    /\ shutdownDone = 0
    /\ stop = "idle"
    /\ shutdown = "idle"
    /\ metrics = {}
    /\ published = {}
    /\ signalled = "no"
    /\ inFlight = {}
    /\ panicked = FALSE

Alive == ~panicked /\ run \notin {"returned", "failed"}

-----------------------------------------------------------------------------
(* New and Run. *)

(* New asks for the health checks until they pass. *)
New ==
    /\ Alive
    /\ run = "checking"
    /\ run' \in {"checking", "connecting"}
    /\ UNCHANGED <<server, req, groups, stopVars, metrics, published, panicked>>

Connect ==
    /\ Alive
    /\ run = "connecting"
    /\ run' \in {"registering", "failed"}
    /\ UNCHANGED <<server, req, groups, stopVars, metrics, published, panicked>>

RegisterShutdownHandler ==
    /\ Alive
    /\ run = "registering"
    /\ run' = "setting"
    /\ UNCHANGED <<server, req, groups, stopVars, metrics, published, panicked>>

(* The assignment of b.server replaces a server that Stop has closed already. *)
SetServer ==
    /\ Alive
    /\ run = "setting"
    /\ run' = "calling"
    /\ server' = "set"
    /\ UNCHANGED <<req, groups, stopVars, metrics, published, panicked>>

(* ListenAndServe serves until the server is closed.  It returns at once if  *)
(* it is closed already or the port cannot be bound, and the error is        *)
(* dropped.                                                                  *)
ListenAndServe ==
    /\ Alive
    /\ run = "calling"
    /\ \/ server = "set" /\ run' = "listening" /\ server' = "listening"
       \/ run' = "joining" /\ UNCHANGED server
    /\ UNCHANGED <<req, groups, stopVars, metrics, published, panicked>>

ServerClosed ==
    /\ Alive
    /\ run = "listening"
    /\ server = "closed"
    /\ run' = "joining"
    /\ UNCHANGED <<server, req, groups, stopVars, metrics, published, panicked>>

AddShutdown ==
    /\ Alive
    /\ run = "joining"
    /\ shutdownDone' = shutdownDone + 1
    /\ run' = "waiting"
    /\ UNCHANGED <<server, req, processing, stopVars, metrics, published, panicked>>

Return ==
    /\ Alive
    /\ run = "waiting"
    /\ shutdownDone = 0
    /\ run' = "returned"
    /\ UNCHANGED <<server, req, groups, stopVars, metrics, published, panicked>>

-----------------------------------------------------------------------------
(* HandleEvent, once per request. *)

Receive(q) ==
    /\ Alive
    /\ req[q] = "none"
    /\ server = "listening"
    /\ req' = [req EXCEPT ![q] = "received"]
    /\ UNCHANGED <<serverVars, groups, stopVars, metrics, published, panicked>>

(* The answer 200, or 405 to anything but a POST, precedes the reading. *)
Answer(q) ==
    /\ Alive
    /\ req[q] = "received"
    /\ \E answer \in {"acknowledged", "refused"} : req' = [req EXCEPT ![q] = answer]
    /\ UNCHANGED <<serverVars, groups, stopVars, metrics, published, panicked>>

ReadBody(q) ==
    /\ Alive
    /\ req[q] = "acknowledged"
    /\ \E result \in {"read", "unread"} : req' = [req EXCEPT ![q] = result]
    /\ UNCHANGED <<serverVars, groups, stopVars, metrics, published, panicked>>

(* Mutant: the goroutine starts without having been counted. *)
M_Count(q) ==
    /\ Alive
    /\ req[q] = "read"
    /\ req' = [req EXCEPT ![q] = "counted"]
    /\ UNCHANGED <<serverVars, groups, stopVars, metrics, published, panicked>>

Count(q) ==
    /\ Alive
    /\ req[q] = "read"
    /\ processing' = processing + 1
    /\ req' = [req EXCEPT ![q] = "counted"]
    /\ UNCHANGED <<serverVars, shutdownDone, stopVars, metrics, published, panicked>>

-----------------------------------------------------------------------------
(* sync.WaitGroup.  The Done that makes the counter zero releases the waiter,*)
(* the one that makes it negative panics.                                    *)

DoneProcessing ==
    /\ processing' = processing - 1
    /\ panicked' = (processing = 0)
    /\ shutdown' = IF shutdown = "waiting" /\ processing = 1 THEN "woken" ELSE shutdown

(* Mutant: the end of shutdownHandler is not announced. *)
M_DoneShutdown == UNCHANGED <<shutdownDone, panicked>>

DoneShutdown == shutdownDone' = shutdownDone - 1 /\ panicked' = (shutdownDone = 0)

-----------------------------------------------------------------------------
(* The processing goroutine of a request. *)

(* Handle hands the metrics of the batch to the collector. *)
Handle(q) ==
    /\ Alive
    /\ req[q] = "counted"
    /\ req' = [req EXCEPT ![q] = "handled"]
    /\ metrics' = metrics \cup {q}
    /\ UNCHANGED <<serverVars, groups, stopVars, published, panicked>>

(* A batch that cannot be parsed is dropped. *)
DropBatch(q) ==
    /\ Alive
    /\ req[q] = "counted"
    /\ req' = [req EXCEPT ![q] = "done"]
    /\ DoneProcessing
    /\ UNCHANGED <<serverVars, shutdownDone, stop, signalled, inFlight, metrics, published>>

PublishAll(q) ==
    /\ Alive
    /\ req[q] = "handled"
    /\ req' = [req EXCEPT ![q] = "done"]
    /\ DoneProcessing
    /\ UNCHANGED <<serverVars, shutdownDone, stop, signalled, inFlight, metrics, published>>

-----------------------------------------------------------------------------
(* The signal: libbeat calls Stop, the SDK the shutdown handler it knows.    *)

Signal ==
    /\ Alive
    /\ signalled = "no"
    /\ run # "checking"
    /\ signalled' = IF server = "listening" THEN "serving" ELSE "early"
    /\ stop' = "called"
    /\ IF run \in {"connecting", "registering"}
          THEN UNCHANGED <<shutdown, inFlight>>
          ELSE shutdown' = "called" /\ inFlight' = Running
    /\ UNCHANGED <<serverVars, req, groups, metrics, published, panicked>>

(* Shutdown closes the listener and waits for the handlers.  The zero server *)
(* it may find is not the one that will listen.                              *)
Stop ==
    /\ Alive
    /\ stop = "called"
    /\ stop' = "draining"
    /\ server' = IF server = "zero" THEN "zero" ELSE "closed"
    /\ UNCHANGED <<run, req, groups, shutdown, signalled, inFlight, metrics, published, panicked>>

Drained ==
    /\ Alive
    /\ stop = "draining"
    /\ \A q \in Requests : req[q] \notin {"received", "acknowledged", "read"}
    /\ stop' = "done"
    /\ UNCHANGED <<serverVars, req, groups, shutdown, signalled, inFlight, metrics, published,
                   panicked>>

(* Mutant: shutdownHandler publishes without waiting. *)
M_WaitProcessing ==
    /\ Alive
    /\ shutdown = "called"
    /\ shutdown' = "publishing"
    /\ UNCHANGED <<serverVars, req, groups, stop, signalled, inFlight, metrics, published,
                   panicked>>

(* shutdownHandler waits for the processing goroutines: not at all if none   *)
(* is counted, else until the counter is zero.                               *)
WaitProcessing ==
    /\ Alive
    /\ shutdown = "called"
    /\ shutdown' = IF processing = 0 THEN "publishing" ELSE "waiting"
    /\ UNCHANGED <<serverVars, req, groups, stop, signalled, inFlight, metrics, published,
                   panicked>>

(* A waiter that finds the wait group in use again panics. *)
Woken ==
    /\ Alive
    /\ shutdown = "woken"
    /\ IF processing = 0
          THEN shutdown' = "publishing" /\ UNCHANGED panicked
          ELSE panicked' = TRUE /\ UNCHANGED shutdown
    /\ UNCHANGED <<serverVars, req, groups, stop, signalled, inFlight, metrics, published>>

ShutdownPublish ==
    /\ Alive
    /\ shutdown = "publishing"
    /\ published' = metrics
    /\ shutdown' = "cleaning"
    /\ UNCHANGED <<serverVars, req, groups, stop, signalled, inFlight, metrics, panicked>>

(* cleanResource always returns; then the deferred Done runs. *)
CleanResource ==
    /\ Alive
    /\ shutdown = "cleaning"
    /\ shutdown' = "done"
    /\ DoneShutdown
    /\ UNCHANGED <<serverVars, req, processing, stop, signalled, inFlight, metrics, published>>

-----------------------------------------------------------------------------
RunStep == Connect \/ RegisterShutdownHandler \/ SetServer \/ ListenAndServe \/ ServerClosed
           \/ AddShutdown \/ Return

HandlerStep(q) == Receive(q) \/ Answer(q) \/ ReadBody(q) \/ Count(q)

ProcessingStep(q) == Handle(q) \/ DropBatch(q) \/ PublishAll(q)

ShutdownStep == WaitProcessing \/ Woken \/ ShutdownPublish \/ CleanResource

Next ==
    \/ New \/ RunStep \/ Signal \/ Stop \/ Drained \/ ShutdownStep
    \/ \E q \in Requests : HandlerStep(q) \/ ProcessingStep(q)

Spec == Init /\ [][Next]_vars

-----------------------------------------------------------------------------
(* Properties. *)

(* Every goroutine is in the wait group, from before it starts until it has  *)
(* ended on whichever path (beater.go:94-104).                               *)
CountersExact == processing = Cardinality(Running)

(* Run returns, and the process ends, only after shutdownHandler has         *)
(* published the metrics and cleaned up (beater.go:72-74).                   *)
ReturnsAfterShutdown == run = "returned" => shutdown = "done"

(* A batch in processing when the shutdown began is finished and its metrics *)
(* are sent before the agent exits (beater.go:111-116).                      *)
InFlightIsAccounted ==
    run = "returned" =>
        \A q \in inFlight : req[q] = "done" /\ (q \in metrics => q \in published)

(* The counter of shutdownDone tells which of its two users has come by.     *)
ShutdownCounted ==
    shutdownDone = (IF run \in {"waiting", "returned"} THEN 1 ELSE 0)
                    - (IF shutdown = "done" THEN 1 ELSE 0)

(* shutdownHandler goes on when the batches it found are done, and sends     *)
(* their metrics.                                                            *)
WaitedFor ==
    /\ signalled = "no" => shutdown = "idle"
    /\ shutdown = "idle" => inFlight = {}
    /\ \A q \in inFlight : req[q] \in {"counted", "handled", "done"}
    /\ shutdown \in {"woken", "publishing", "cleaning", "done"} =>
            \A q \in inFlight : req[q] = "done"
    /\ shutdown \in {"cleaning", "done"} => inFlight \cap metrics \subseteq published

(* The inductive invariant: what the wait groups count, and what is finished *)
(* at each stage of the shutdown (beater.go:73-116).                         *)
BeaterInv ==
    TypeOK /\ CountersExact /\ ShutdownCounted /\ WaitedFor /\ ReturnsAfterShutdown
=============================================================================
