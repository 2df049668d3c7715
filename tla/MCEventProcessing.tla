------------------------- MODULE MCEventProcessing -------------------------
(* A small instance of EventProcessing. *)
EXTENDS EventProcessing

Logged(code) ==
    [request |-> "logged", response |-> code, service |-> "logged", route |-> "logged",
     latencies |-> "logged"]

(* Status codes on either side of every boundary; one part or all missing.   *)
AnyEntry ==
    LET ok == Logged(200)
    IN  {Logged(code) : code \in {199, 399, 400, 499, 500, 510, 511}}
            \cup {[ok EXCEPT ![part] = None] : part \in DOMAIN ok}
            \cup {[part \in DOMAIN ok |-> IF part \in {"request", "response"}
                                          THEN ok[part] ELSE None]}
=============================================================================
