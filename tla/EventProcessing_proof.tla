----------------------- MODULE EventProcessing_proof -----------------------
(***************************************************************************)
(* Proofs about the processing of log entries, for batches of any size     *)
(* and any status codes: it never panics, every entry has its turn, and    *)
(* the events are whole transactions whose statuses agree.                 *)
(***************************************************************************)
EXTENDS EventProcessing, SequenceTheorems, TLAPS

Status == {"Pass", "Fail", "Success", "Failure", "Exception", "Unknown"}

Event == [entry : Nat, kind : {"summary", "leg"}, status : Status]

Fates == {"none", "incomplete", "sample", "leg", "summary", "generate", "reported"}

(* The steps that have an entry in hand. *)
InHand == {"sample", "leg", "summary", "generate"}

Leg == [entry |-> i, kind |-> "leg", status |-> getTransactionEventStatus(entry.response)]

(* What two events are that make a transaction. *)
Transaction(summary, leg) ==
    /\ summary.kind = "summary" /\ leg.kind = "leg"
    /\ summary.entry = leg.entry
    /\ summary.status = "Success" => leg.status = "Pass"
    /\ summary.status \in {"Failure", "Exception"} => leg.status = "Fail"

TypeInv ==
    /\ batch \in Seq(Entries)
    /\ i \in 1..(Len(batch) + 1)
    /\ pc \in InHand \cup {"check", "done"}
    /\ sampled \in BOOLEAN
    /\ events \in Seq(Event)
    /\ fate \in [1..Len(batch) -> Fates]

(* The entries before the one in hand have had their turn, and no other. *)
TurnsInv ==
    /\ \A k \in 1..Len(batch) : fate[k] = "none" <=> k >= i
    /\ metrics = {k \in 1..Len(batch) : fate[k] = "reported"}
    /\ pc = "done" => i = Len(batch) + 1

(* What the steps of an entry have prepared for those that follow. *)
EntryInv ==
    /\ pc \in InHand => /\ i <= Len(batch)
                        /\ batch[i].response # None
                        /\ entry = validateTransaction(batch[i])
    /\ pc \in {"summary", "generate"} => legs = IF sampled THEN <<Leg>> ELSE <<>>

(* The events so far are transactions of entries that are done. *)
EventsInv ==
    \E m \in Nat :
        /\ Len(events) = 2 * m
        /\ \A n \in 1..m :
            /\ Transaction(events[2 * n - 1], events[2 * n])
            /\ events[2 * n].entry \in metrics
            /\ \A l \in 1..(n - 1) : events[2 * l].entry < events[2 * n].entry

EventInv == TypeInv /\ TurnsInv /\ EntryInv /\ EventsInv

-----------------------------------------------------------------------------
(* An entry in hand has everything the builders of events dereference, and a *)
(* status code.                                                              *)
LEMMA EntryComplete ==
    ASSUME TypeInv, EntryInv, pc \in InHand
    PROVE  /\ i \in 1..Len(batch)
           /\ None \notin {entry.service, entry.route, entry.latencies}
           /\ entry.response \in Nat
<1>1. i \in 1..Len(batch)
    BY DEF TypeInv, EntryInv
<1>2. batch[i] \in Entries
    BY <1>1, ElementOfSeq DEF TypeInv
<1>3. PICK e \in TrafficLogEntry(Nat) : e = batch[i]
    BY <1>2, EntriesAssumption
<1>4. e.response # None /\ entry = validateTransaction(e)
    BY <1>3 DEF EntryInv
<1>5. e.response \in Nat
    BY <1>4 DEF TrafficLogEntry
<1>6. entry.response = e.response
    BY <1>4 DEF validateTransaction, TrafficLogEntry
<1>7. entry.service \in {"logged", "ErrorService"}
    BY <1>4, NoneAssumption DEF validateTransaction, TrafficLogEntry
<1>8. entry.route \in {"logged", "ErrorRoute"}
    BY <1>4, NoneAssumption DEF validateTransaction, TrafficLogEntry
<1>9. entry.latencies \in {"logged", "zero"}
    BY <1>4, NoneAssumption DEF validateTransaction, TrafficLogEntry
<1>. QED
    BY <1>1, <1>5, <1>6, <1>7, <1>8, <1>9, NoneAssumption

(* The two tables of statuses agree on every code. *)
LEMMA TablesAgree ==
    ASSUME NEW code \in Nat
    PROVE  /\ getTransactionEventStatus(code) \in Status
           /\ getTransactionSummaryStatus(code) \in Status
           /\ getTransactionSummaryStatus(code) = "Success"
                => getTransactionEventStatus(code) = "Pass"
           /\ getTransactionSummaryStatus(code) \in {"Failure", "Exception"}
                => getTransactionEventStatus(code) = "Fail"
<1>1. CASE code \in 200..399
    BY <1>1 DEF getTransactionEventStatus, getTransactionSummaryStatus, Status
<1>2. CASE code \in 400..499
    BY <1>2 DEF getTransactionEventStatus, getTransactionSummaryStatus, Status
<1>3. CASE code \in 500..510
    BY <1>3 DEF getTransactionEventStatus, getTransactionSummaryStatus, Status
<1>4. CASE code \notin 200..399 /\ code \notin 400..499 /\ code \notin 500..510
    BY <1>4 DEF getTransactionEventStatus, getTransactionSummaryStatus, Status
<1>. QED
    BY <1>1, <1>2, <1>3, <1>4

(* The loop goes on: the entry in hand, and no other, has had its turn.      *)
LEMMA TurnTaken ==
    ASSUME TypeInv, TurnsInv, i <= Len(batch), NEW how \in Fates \ {"none"}, NextEntry(how),
           batch' = batch, metrics' = metrics \cup (IF how = "reported" THEN {i} ELSE {})
    PROVE  /\ i' \in 1..(Len(batch') + 1)
           /\ fate' \in [1..Len(batch') -> Fates]
           /\ pc' = "check"
           /\ TurnsInv'
<1>1. /\ fate' = [fate EXCEPT ![i] = how] /\ i' = i + 1 /\ pc' = "check"
      /\ Len(batch) \in Nat
    BY LenProperties DEF NextEntry, TypeInv
<1>2. \A k \in 1..Len(batch) : fate'[k] = IF k = i THEN how ELSE fate[k]
    BY <1>1 DEF TypeInv
<1>3. fate' \in [1..Len(batch) -> Fates]
    BY <1>1 DEF TypeInv
<1>4. \A k \in 1..Len(batch) : fate'[k] = "none" <=> k >= i'
    BY <1>1, <1>2 DEF TypeInv, TurnsInv
<1>5. metrics' = {k \in 1..Len(batch) : fate'[k] = "reported"}
    <2>1. fate[i] = "none"
        BY <1>1 DEF TypeInv, TurnsInv
    <2>. QED
        BY <1>1, <1>2, <2>1 DEF TypeInv, TurnsInv
<1>. QED
    BY <1>1, <1>3, <1>4, <1>5 DEF TypeInv, TurnsInv

(* An entry that some step refuses publishes and counts nothing.             *)
LEMMA EntryRefused ==
    ASSUME EventInv, i <= Len(batch), NEW how \in Fates \ {"none", "reported"},
           NextEntry(how), UNCHANGED <<batch, sampled, events, metrics>>
    PROVE  EventInv'
<1>1. /\ i' \in 1..(Len(batch') + 1) /\ fate' \in [1..Len(batch') -> Fates]
      /\ pc' = "check" /\ TurnsInv'
    BY TurnTaken DEF EventInv
<1>2. TypeInv'
    BY <1>1 DEF EventInv, TypeInv
<1>3. EntryInv'
    BY <1>1 DEF EntryInv, InHand
<1>4. EventsInv'
    BY DEF EventInv, EventsInv
<1>. QED
    BY <1>1, <1>2, <1>3, <1>4 DEF EventInv

(* One element put behind a sequence.                                        *)
LEMMA OneAppended ==
    ASSUME NEW S, NEW s \in Seq(S), NEW e \in S
    PROVE  /\ s \o <<e>> \in Seq(S)
           /\ Len(s \o <<e>>) = Len(s) + 1
           /\ \A n \in 1..Len(s) : (s \o <<e>>)[n] = s[n]
           /\ (s \o <<e>>)[Len(s) + 1] = e
<1>1. PICK t \in Seq(S) : t = <<e>> /\ Len(t) = 1 /\ t[1] = e
    <2>1. <<e>> \in Seq(S) /\ Len(<<e>>) = 1 /\ <<e>>[1] = e
        OBVIOUS
    <2>. QED
        BY <2>1
<1>2. Len(s) \in Nat
    BY LenProperties
<1>3. /\ s \o t \in Seq(S)
      /\ Len(s \o t) = Len(s) + Len(t)
      /\ \A n \in 1 .. Len(s) + Len(t) :
            (s \o t)[n] = IF n <= Len(s) THEN s[n] ELSE t[n - Len(s)]
    BY ConcatProperties
<1>4. s \o t \in Seq(S) /\ Len(s \o t) = Len(s) + 1
    BY <1>1, <1>2, <1>3
<1>5. \A n \in 1..Len(s) : (s \o t)[n] = s[n]
    BY <1>1, <1>2, <1>3
<1>6. (s \o t)[Len(s) + 1] = e
    BY <1>1, <1>2, <1>3
<1>. QED
    BY <1>1, <1>4, <1>5, <1>6

(* A transaction put behind the events of earlier entries.                   *)
LEMMA TransactionAppended ==
    ASSUME TypeInv, TurnsInv, EventsInv, i <= Len(batch),
           NEW summary \in Event, NEW leg \in Event,
           Transaction(summary, leg), leg.entry = i,
           metrics' = metrics \cup {i}, events' = events \o <<summary>> \o <<leg>>
    PROVE  events' \in Seq(Event) /\ EventsInv'
<1>1. PICK m \in Nat :
        /\ Len(events) = 2 * m
        /\ \A n \in 1..m :
            /\ Transaction(events[2 * n - 1], events[2 * n])
            /\ events[2 * n].entry \in metrics
            /\ \A l \in 1..(n - 1) : events[2 * l].entry < events[2 * n].entry
    BY DEF EventsInv
<1>2. events \in Seq(Event)
    BY DEF TypeInv
<1>3. /\ events' \in Seq(Event)
      /\ Len(events') = 2 * m + 2
      /\ \A n \in 1..(2 * m) : events'[n] = events[n]
      /\ events'[2 * m + 1] = summary
      /\ events'[2 * m + 2] = leg
    <2>1. PICK e \in Seq(Event) :
            /\ e = events \o <<summary>>
            /\ Len(e) = Len(events) + 1
            /\ \A n \in 1..Len(events) : e[n] = events[n]
            /\ e[Len(events) + 1] = summary
        BY <1>2, OneAppended
    <2>2. /\ e \o <<leg>> \in Seq(Event)
          /\ Len(e \o <<leg>>) = Len(e) + 1
          /\ \A n \in 1..Len(e) : (e \o <<leg>>)[n] = e[n]
          /\ (e \o <<leg>>)[Len(e) + 1] = leg
        BY OneAppended
    <2>3. events' = e \o <<leg>>
        BY <2>1
    <2>. QED
        BY <1>1, <2>1, <2>2, <2>3
<1>4. \A k \in metrics : k < i
    BY DEF TypeInv, TurnsInv
<1>5. ASSUME NEW n \in 1..(m + 1)
      PROVE  /\ Transaction(events'[2 * n - 1], events'[2 * n])
             /\ events'[2 * n].entry \in metrics'
             /\ \A l \in 1..(n - 1) : events'[2 * l].entry < events'[2 * n].entry
    <2>1. CASE n <= m
        <3>1. n \in 1..m /\ 2 * n - 1 \in 1..(2 * m) /\ 2 * n \in 1..(2 * m)
            BY <2>1
        <3>2. events'[2 * n - 1] = events[2 * n - 1] /\ events'[2 * n] = events[2 * n]
            BY <1>3, <3>1
        <3>3. \A l \in 1..(n - 1) : 2 * l \in 1..(2 * m) /\ events'[2 * l] = events[2 * l]
            BY <1>3, <3>1
        <3>. QED
            BY <1>1, <3>1, <3>2, <3>3
    <2>2. CASE n = m + 1
        <3>1. 2 * n - 1 = 2 * m + 1 /\ 2 * n = 2 * m + 2
            BY <2>2
        <3>2. events'[2 * n - 1] = summary /\ events'[2 * n] = leg
            BY <1>3, <3>1
        <3>3. \A l \in 1..(n - 1) : events'[2 * l].entry < i
            <4>. SUFFICES ASSUME NEW l \in 1..(n - 1)
                          PROVE  events'[2 * l].entry < i
                OBVIOUS
            <4>1. l \in 1..m /\ 2 * l \in 1..(2 * m)
                BY <2>2
            <4>. QED
                BY <1>1, <1>3, <1>4, <4>1
        <3>. QED
            BY <3>2, <3>3
    <2>3. n <= m \/ n = m + 1
        BY <1>1
    <2>. QED
        BY <2>1, <2>2, <2>3
<1>. QED
    <2>1. m + 1 \in Nat /\ Len(events') = 2 * (m + 1)
        BY <1>3
    <2>. QED
        BY <1>3, <1>5, <2>1 DEF EventsInv

-----------------------------------------------------------------------------
(* The inductive invariant: the entries take their turns one by one, and     *)
(* what a step prepares is there for the next (handler.go:60-110).           *)
THEOREM EventInvariant == Spec => []EventInv
<1>1. Init => EventInv
    <2>. SUFFICES ASSUME Init PROVE EventInv
        OBVIOUS
    <2>1. batch \in Seq(Entries)
        BY SeqDef, MaxBatchAssumption DEF Init
    <2>2. DOMAIN batch = 1..Len(batch) /\ Len(batch) \in Nat
        BY <2>1, LenProperties
    <2>3. TypeInv
        <3>1. events \in Seq(Event)
            BY DEF Init
        <3>2. fate \in [1..Len(batch) -> Fates]
            BY <2>2 DEF Init, Fates
        <3>3. i \in 1..(Len(batch) + 1) /\ pc = "check" /\ sampled = FALSE
            BY <2>2 DEF Init
        <3>. QED
            BY <2>1, <3>1, <3>2, <3>3 DEF TypeInv
    <2>4. TurnsInv
        BY <2>2 DEF Init, TurnsInv
    <2>5. EntryInv
        BY DEF Init, EntryInv, InHand
    <2>6. EventsInv
        <3>1. Len(events) = 2 * 0 /\ 1..0 = {}
            BY DEF Init
        <3>. QED
            BY <3>1 DEF EventsInv
    <2>. QED
        BY <2>3, <2>4, <2>5, <2>6 DEF EventInv
<1>2. EventInv /\ [Next]_vars => EventInv'
    <2>. SUFFICES ASSUME EventInv, [Next]_vars PROVE EventInv'
        OBVIOUS
    <2>1. CASE Check
        <3>1. i \in 1..Len(batch)
            BY <2>1, LenProperties DEF Check, EventInv, TypeInv
        <3>2. CASE NextEntry("incomplete")
            BY <2>1, <3>1, <3>2, EntryRefused DEF Check, Fates
        <3>3. CASE /\ batch[i].response # None
                   /\ entry' = validateTransaction(batch[i])
                   /\ pc' = "sample"
                   /\ UNCHANGED <<i, fate>>
            <4>1. TypeInv'
                BY <2>1, <3>3 DEF Check, EventInv, TypeInv, InHand
            <4>2. TurnsInv'
                BY <2>1, <3>3 DEF Check, EventInv, TurnsInv
            <4>3. EntryInv'
                BY <2>1, <3>1, <3>3 DEF Check, EntryInv
            <4>4. EventsInv'
                BY <2>1 DEF Check, EventInv, EventsInv
            <4>. QED
                BY <4>1, <4>2, <4>3, <4>4 DEF EventInv
        <3>. QED
            BY <2>1, <3>2, <3>3 DEF Check
    <2>2. CASE EndOfBatch
        <3>1. i = Len(batch) + 1
            BY <2>2, LenProperties DEF EndOfBatch, EventInv, TypeInv
        <3>2. TypeInv'
            BY <2>2 DEF EndOfBatch, EventInv, TypeInv
        <3>3. TurnsInv'
            BY <2>2, <3>1 DEF EndOfBatch, EventInv, TurnsInv
        <3>4. EntryInv'
            BY <2>2 DEF EndOfBatch, EntryInv, InHand
        <3>5. EventsInv'
            BY <2>2 DEF EndOfBatch, EventInv, EventsInv
        <3>. QED
            BY <3>2, <3>3, <3>4, <3>5 DEF EventInv
    <2>3. CASE ShouldSample
        <3>1. i <= Len(batch)
            BY <2>3 DEF ShouldSample, EventInv, EntryInv, InHand
        <3>2. CASE NextEntry("sample") /\ UNCHANGED sampled
            BY <2>3, <3>1, <3>2, EntryRefused DEF ShouldSample, Fates
        <3>3. CASE sampled' \in BOOLEAN /\ pc' = "leg" /\ UNCHANGED <<i, fate>>
            <4>1. TypeInv'
                BY <2>3, <3>3 DEF ShouldSample, EventInv, TypeInv, InHand
            <4>2. TurnsInv'
                BY <2>3, <3>3 DEF ShouldSample, EventInv, TurnsInv
            <4>3. EntryInv'
                BY <2>3, <3>3 DEF ShouldSample, EventInv, EntryInv, InHand
            <4>4. EventsInv'
                BY <2>3 DEF ShouldSample, EventInv, EventsInv
            <4>. QED
                BY <4>1, <4>2, <4>3, <4>4 DEF EventInv
        <3>. QED
            BY <2>3, <3>2, <3>3 DEF ShouldSample
    <2>4. CASE CreateTransactionEvent
        <3>1. /\ i \in 1..Len(batch)
              /\ None \notin {entry.service, entry.route, entry.latencies}
            BY <2>4, EntryComplete DEF CreateTransactionEvent, EventInv, InHand
        <3>2. CASE NextEntry("leg")
            BY <2>4, <3>1, <3>2, EntryRefused DEF CreateTransactionEvent, Fates
        <3>3. CASE /\ legs' = IF sampled THEN <<Leg>> ELSE <<>>
                   /\ pc' = "summary"
                   /\ UNCHANGED <<i, fate>>
            <4>1. TypeInv'
                BY <2>4, <3>3 DEF CreateTransactionEvent, EventInv, TypeInv, InHand
            <4>2. TurnsInv'
                BY <2>4, <3>3 DEF CreateTransactionEvent, EventInv, TurnsInv
            <4>3. EntryInv'
                BY <2>4, <3>3 DEF CreateTransactionEvent, EventInv, EntryInv, InHand, Leg
            <4>4. EventsInv'
                BY <2>4 DEF CreateTransactionEvent, EventInv, EventsInv
            <4>. QED
                BY <4>1, <4>2, <4>3, <4>4 DEF EventInv
        <3>. QED
            BY <2>4, <3>1, <3>2, <3>3 DEF CreateTransactionEvent, Leg
    <2>5. CASE CreateSummaryEvent
        <3>1. /\ i \in 1..Len(batch)
              /\ None \notin {entry.service, entry.route, entry.latencies}
            BY <2>5, EntryComplete DEF CreateSummaryEvent, EventInv, InHand
        <3>2. CASE NextEntry("summary")
            BY <2>5, <3>1, <3>2, EntryRefused DEF CreateSummaryEvent, Fates
        <3>3. CASE pc' = "generate" /\ UNCHANGED <<i, fate>>
            <4>1. TypeInv'
                BY <2>5, <3>3 DEF CreateSummaryEvent, EventInv, TypeInv, InHand
            <4>2. TurnsInv'
                BY <2>5, <3>3 DEF CreateSummaryEvent, EventInv, TurnsInv
            <4>3. EntryInv'
                BY <2>5, <3>3 DEF CreateSummaryEvent, EventInv, EntryInv, InHand, Leg
            <4>4. EventsInv'
                BY <2>5 DEF CreateSummaryEvent, EventInv, EventsInv
            <4>. QED
                BY <4>1, <4>2, <4>3, <4>4 DEF EventInv
        <3>. QED
            BY <2>5, <3>1, <3>2, <3>3 DEF CreateSummaryEvent
    <2>6. CASE CreateFromEventReport
        <3>1. i \in 1..Len(batch) /\ entry.response \in Nat
            BY <2>6, EntryComplete DEF CreateFromEventReport, EventInv, InHand
        <3>2. CASE NextEntry("generate") /\ UNCHANGED <<metrics, events>>
            BY <2>6, <3>1, <3>2, EntryRefused DEF CreateFromEventReport, Fates
        <3>3. CASE /\ metrics' = metrics \cup {i}
                   /\ events' = IF sampled THEN events \o <<Summary>> \o legs ELSE events
                   /\ NextEntry("reported")
            <4>1. /\ i' \in 1..(Len(batch') + 1) /\ fate' \in [1..Len(batch') -> Fates]
                  /\ pc' = "check" /\ TurnsInv'
                BY <2>6, <3>1, <3>3, TurnTaken DEF CreateFromEventReport, EventInv, Fates
            <4>2. EntryInv'
                BY <4>1 DEF EntryInv, InHand
            <4>3. events' \in Seq(Event) /\ EventsInv'
                <5>1. CASE sampled
                    <6>1. events' = events \o <<Summary>> \o <<Leg>>
                        BY <2>6, <3>3, <5>1 DEF CreateFromEventReport, EventInv, EntryInv
                    <6>2. /\ Summary \in Event /\ Leg \in Event
                          /\ Transaction(Summary, Leg) /\ Leg.entry = i
                        BY <3>1, TablesAgree DEF Summary, Leg, Event, Transaction
                    <6>3. PICK summary \in Event, leg \in Event :
                            /\ Transaction(summary, leg) /\ leg.entry = i
                            /\ events' = events \o <<summary>> \o <<leg>>
                        BY <6>1, <6>2
                    <6>4. metrics' = metrics \cup {i} /\ i <= Len(batch)
                        BY <3>1, <3>3
                    <6>. QED
                        BY <6>3, <6>4, TransactionAppended DEF EventInv
                <5>2. CASE ~sampled
                    <6>1. events' = events /\ metrics \subseteq metrics'
                        BY <3>3, <5>2
                    <6>. QED
                        BY <6>1 DEF EventInv, TypeInv, EventsInv
                <5>. QED
                    BY <5>1, <5>2 DEF EventInv, TypeInv
            <4>4. TypeInv'
                BY <2>6, <4>1, <4>3 DEF CreateFromEventReport, EventInv, TypeInv
            <4>. QED
                BY <4>1, <4>2, <4>3, <4>4 DEF EventInv
        <3>. QED
            BY <2>6, <3>2, <3>3 DEF CreateFromEventReport
    <2>7. CASE UNCHANGED vars
        BY <2>7 DEF vars, EventInv, TypeInv, TurnsInv, EntryInv, EventsInv, Leg
    <2>. QED
        BY <2>1, <2>2, <2>3, <2>4, <2>5, <2>6, <2>7 DEF Next
<1>. QED
    BY <1>1, <1>2, PTL DEF Spec

(* Whatever Kong leaves out of an entry, no step dereferences a nil pointer  *)
(* (handler.go:82-110).                                                      *)
THEOREM NoPanic == Spec => []NeverPanics
<1>1. EventInv => NeverPanics
    BY DEF EventInv, TypeInv, InHand, NeverPanics
<1>. QED
    BY <1>1, EventInvariant, PTL

(* When the batch ends every entry has had its turn, and the metrics count   *)
(* just those that no step refused (handler.go:60-77).                       *)
THEOREM EveryTurn == Spec => []EveryEntryHasItsTurn
<1>1. EventInv => EveryEntryHasItsTurn
    <2>. SUFFICES ASSUME EventInv, pc = "done"
                  PROVE  /\ \A k \in DOMAIN batch : fate[k] # "none"
                         /\ metrics = {k \in DOMAIN batch : fate[k] = "reported"}
        BY DEF EveryEntryHasItsTurn
    <2>1. DOMAIN batch = 1..Len(batch) /\ Len(batch) \in Nat
        BY LenProperties DEF EventInv, TypeInv
    <2>. QED
        BY <2>1 DEF EventInv, TurnsInv
<1>. QED
    BY <1>1, EventInvariant, PTL

(* The events are whole transactions of counted entries, in the order of the *)
(* log (transaction.go:53-94).                                               *)
THEOREM TransactionsWhole == Spec => []WholeTransactions
<1>1. EventInv => WholeTransactions
    <2>. SUFFICES ASSUME EventInv PROVE WholeTransactions
        OBVIOUS
    <2>1. PICK m \in Nat :
            /\ Len(events) = 2 * m
            /\ \A n \in 1..m :
                /\ Transaction(events[2 * n - 1], events[2 * n])
                /\ events[2 * n].entry \in metrics
                /\ \A l \in 1..(n - 1) : events[2 * l].entry < events[2 * n].entry
        BY DEF EventInv, EventsInv
    <2>2. Len(events) % 2 = 0 /\ Len(events) \div 2 = m
        BY <2>1
    <2>. QED
        BY <2>1, <2>2 DEF WholeTransactions, Transaction
<1>. QED
    BY <1>1, EventInvariant, PTL

(* The summary of a transaction does not contradict its leg (util.go:13-30). *)
THEOREM StatusesDoAgree == Spec => []StatusesAgree
<1>1. EventInv => StatusesAgree
    <2>. SUFFICES ASSUME EventInv, NEW n \in DOMAIN events,
                         events[n].kind = "summary", n < Len(events)
                  PROVE  /\ events[n].status = "Success" => events[n + 1].status = "Pass"
                         /\ events[n].status \in {"Failure", "Exception"}
                                => events[n + 1].status = "Fail"
        BY DEF StatusesAgree
    <2>1. PICK m \in Nat :
            /\ Len(events) = 2 * m
            /\ \A l \in 1..m : Transaction(events[2 * l - 1], events[2 * l])
        BY DEF EventInv, EventsInv
    <2>2. n \in 1..(2 * m)
        BY <2>1, LenProperties DEF EventInv, TypeInv
    <2>3. PICK l \in 1..m : n = 2 * l - 1 \/ n = 2 * l
        <3>. DEFINE l == (n + 1) \div 2
        <3>1. l \in 1..m
            BY <2>2
        <3>2. n + 1 = (2 * l) + ((n + 1) % 2) /\ (n + 1) % 2 \in 0..1
            BY <2>2
        <3>3. PICK r \in 0..1 : n + 1 = (2 * l) + r
            BY <3>2
        <3>. HIDE DEF l
        <3>4. n = 2 * l - 1 \/ n = 2 * l
            BY <2>2, <3>1, <3>3
        <3>. QED
            BY <3>1, <3>4
    <2>4. Transaction(events[2 * l - 1], events[2 * l])
        BY <2>1
    <2>5. n = 2 * l - 1 /\ n + 1 = 2 * l
        BY <2>3, <2>4 DEF Transaction
    <2>. QED
        BY <2>4, <2>5 DEF Transaction
<1>. QED
    BY <1>1, EventInvariant, PTL
=============================================================================
