-------------------------- MODULE EventProcessing --------------------------
(***************************************************************************)
(* How the traceability agent turns a batch of Kong's log entries into     *)
(* metrics and transaction events: pkg/traceability/processor.             *)
(*                                                                         *)
(* The processing goroutine of a request (HttpLogBeater) runs the steps    *)
(* below entry by entry.  Sampling, the event builders and the event       *)
(* generator belong to the agent SDK; each of them may report an error.    *)
(***************************************************************************)
EXTENDS Integers, Sequences

CONSTANTS
    None,      \* a field that the log entry does not have
    Entries,   \* the log entries that Kong may send
    MaxBatch   \* bound on the entries of a batch

(* What Kong logs of a request: of the fields that the agent only copies,    *)
(* TrafficLogEntry says whether they are there.                              *)
TrafficLogEntry(Codes) ==
    [request : {"logged", None}, response : Codes \cup {None}, service : {"logged", None},
     route : {"logged", None}, latencies : {"logged", None}]

ASSUME EntriesAssumption == Entries \subseteq TrafficLogEntry(Nat)
ASSUME MaxBatchAssumption == MaxBatch \in Nat
ASSUME NoneAssumption == None \notin Nat \cup {"logged", "ErrorService", "ErrorRoute", "zero"}

VARIABLES
    batch,    \* EventsHandler.logEntries
    i,        \* the entry in hand
    pc,       \* the step that comes next
    entry,    \* the entry with its defaults filled in
    sampled,  \* entry.ShouldSample
    legs,     \* the detail events of the transaction
    events,   \* the events to publish
    metrics,  \* the entries that count in the metrics
    fate      \* fate[k]: the step that dropped entry k, or "reported"

vars == <<batch, i, pc, entry, sampled, legs, events, metrics, fate>>

-----------------------------------------------------------------------------
(* The status of a transaction. *)

(* Mutant: 400 passes. *)
M_getTransactionEventStatus(code) == IF code > 400 THEN "Fail" ELSE "Pass"

getTransactionEventStatus(code) == IF code >= 400 THEN "Fail" ELSE "Pass"

getTransactionSummaryStatus(code) ==
    CASE code \in 200..399 -> "Success"
      [] code \in 400..499 -> "Failure"
      [] code \in 500..510 -> "Exception"
      [] OTHER             -> "Unknown"

(* Mutant: an entry without latencies stays without. *)
M_validateTransaction(e) ==
    [e EXCEPT !.service = IF @ = None THEN "ErrorService" ELSE @,
              !.route   = IF @ = None THEN "ErrorRoute" ELSE @]

(* An entry of a request that reached no route or service gets error ones.   *)
validateTransaction(e) ==
    [e EXCEPT !.service   = IF @ = None THEN "ErrorService" ELSE @,
              !.route     = IF @ = None THEN "ErrorRoute" ELSE @,
              !.latencies = IF @ = None THEN "zero" ELSE @]

-----------------------------------------------------------------------------
Init ==
    /\ batch \in UNION {[1..n -> Entries] : n \in 0..MaxBatch}
    /\ i = 1
    /\ pc = "check"
    /\ entry = None
    /\ sampled = FALSE
    /\ legs = <<>>
    /\ events = <<>>
    /\ metrics = {}
    /\ fate = [k \in DOMAIN batch |-> "none"]

(* The loop goes on with the next entry.                                     *)
NextEntry(how) ==
    /\ fate' = [fate EXCEPT ![i] = how]
    /\ i' = i + 1
    /\ pc' = "check"

(* An entry without request or response is skipped. *)
Check ==
    /\ pc = "check"
    /\ i \in DOMAIN batch
    /\ IF batch[i].request = None \/ batch[i].response = None
          THEN NextEntry("incomplete") /\ UNCHANGED entry
          ELSE /\ entry' = validateTransaction(batch[i])
               /\ pc' = "sample"
               /\ UNCHANGED <<i, fate>>
    /\ UNCHANGED <<batch, sampled, legs, events, metrics>>

EndOfBatch ==
    /\ pc = "check"
    /\ i \notin DOMAIN batch
    /\ pc' = "done"
    /\ UNCHANGED <<batch, i, entry, sampled, legs, events, metrics, fate>>

(* Mutant: an error of the sampling ends the batch. *)
M_ShouldSample ==
    /\ pc = "sample"
    /\ \/ /\ sampled' \in BOOLEAN
          /\ pc' = "leg"
          /\ UNCHANGED <<i, fate>>
       \/ pc' = "done" /\ UNCHANGED <<i, sampled, fate>>
    /\ UNCHANGED <<batch, entry, legs, events, metrics>>

(* MetricsProcessor.process asks the SDK whether to sample the transaction.  *)
ShouldSample ==
    /\ pc = "sample"
    /\ \/ /\ sampled' \in BOOLEAN
          /\ pc' = "leg"
          /\ UNCHANGED <<i, fate>>
       \/ NextEntry("sample") /\ UNCHANGED sampled
    /\ UNCHANGED <<batch, entry, legs, events, metrics>>

(* The leg of a sampled transaction; its builders may refuse the data.       *)
CreateTransactionEvent ==
    /\ pc = "leg"
    /\ \/ /\ ~sampled
          /\ legs' = <<>>
          /\ pc' = "summary"
          /\ UNCHANGED <<i, fate>>
       \/ /\ sampled
          /\ None \in {entry.service, entry.latencies}
          /\ pc' = "panicked"
          /\ UNCHANGED <<i, legs, fate>>
       \/ /\ sampled
          /\ None \notin {entry.service, entry.latencies}
          /\ \/ /\ legs' = <<[entry |-> i, kind |-> "leg",
                              status |-> getTransactionEventStatus(entry.response)]>>
                /\ pc' = "summary"
                /\ UNCHANGED <<i, fate>>
             \/ NextEntry("leg") /\ UNCHANGED legs
    /\ UNCHANGED <<batch, entry, sampled, events, metrics>>

Summary ==
    [entry |-> i, kind |-> "summary", status |-> getTransactionSummaryStatus(entry.response)]

CreateSummaryEvent ==
    /\ pc = "summary"
    /\ IF None \in {entry.service, entry.latencies, entry.route}
          THEN pc' = "panicked" /\ UNCHANGED <<i, fate>>
          ELSE \/ pc' = "generate" /\ UNCHANGED <<i, fate>>
               \/ NextEntry("summary")
    /\ UNCHANGED <<batch, entry, sampled, legs, events, metrics>>

(* Mutant: the events of an entry come in front. *)
M_CreateFromEventReport ==
    /\ pc = "generate"
    /\ \/ /\ metrics' = metrics \cup {i}
          /\ events' = IF sampled THEN <<Summary>> \o legs \o events ELSE events
          /\ NextEntry("reported")
       \/ NextEntry("generate") /\ UNCHANGED <<metrics, events>>
    /\ UNCHANGED <<batch, entry, sampled, legs>>

(* The generator counts the transaction, and makes events of a sampled one.  *)
CreateFromEventReport ==
    /\ pc = "generate"
    /\ \/ /\ metrics' = metrics \cup {i}
          /\ events' = IF sampled THEN events \o <<Summary>> \o legs ELSE events
          /\ NextEntry("reported")
       \/ NextEntry("generate") /\ UNCHANGED <<metrics, events>>
    /\ UNCHANGED <<batch, entry, sampled, legs>>

Next ==
    \/ Check \/ EndOfBatch \/ ShouldSample
    \/ CreateTransactionEvent \/ CreateSummaryEvent \/ CreateFromEventReport

Spec == Init /\ [][Next]_vars

-----------------------------------------------------------------------------
(* Properties. *)

(* No entry makes the agent dereference a nil pointer, which would end it    *)
(* with every batch in hand (handler.go:82-110).                             *)
NeverPanics == pc # "panicked"

(* Every entry of the batch has its turn: an entry that is incomplete or     *)
(* that some step refuses costs no other entry its metrics                   *)
(* (handler.go:60-77).                                                       *)
EveryEntryHasItsTurn ==
    pc = "done" =>
        /\ \A k \in DOMAIN batch : fate[k] # "none"
        /\ metrics = {k \in DOMAIN batch : fate[k] = "reported"}

(* The published events are whole transactions in the order of the log: a    *)
(* summary, then its leg, of an entry that counts in the metrics             *)
(* (transaction.go:53-94).                                                   *)
WholeTransactions ==
    /\ Len(events) % 2 = 0
    /\ \A n \in 1..(Len(events) \div 2) :
        /\ events[2 * n - 1].kind = "summary"
        /\ events[2 * n].kind = "leg"
        /\ events[2 * n - 1].entry = events[2 * n].entry
        /\ events[2 * n].entry \in metrics
        /\ \A m \in 1..(n - 1) : events[2 * m].entry < events[2 * n].entry

(* The two statuses of a transaction, computed from separate tables, do not  *)
(* contradict each other (util.go:13-30).                                    *)
StatusesAgree ==
    \A n \in DOMAIN events : events[n].kind = "summary" /\ n < Len(events) =>
        LET leg == events[n + 1].status
        IN  /\ events[n].status = "Success" => leg = "Pass"
            /\ events[n].status \in {"Failure", "Exception"} => leg = "Fail"
=============================================================================
