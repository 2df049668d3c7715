\* Batches of up to three entries: any status, or any of the parts missing.
SPECIFICATION Spec
CONSTANTS
    None = None
    Entries <- AnyEntry
    MaxBatch = 3
INVARIANTS
    NeverPanics
    EveryEntryHasItsTurn
    WholeTransactions
    StatusesAgree
\* The batch ends.
CHECK_DEADLOCK FALSE
