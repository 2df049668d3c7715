\* Two requests and another pod while the agent is told to stop; the agent ends.
SPECIFICATION FairAgentSpec
CONSTANTS
    Requests = {q1, q2}
    Pods = {p1, p2}
    Named = {p1, p2}
    Self = p1
    MaxFaults = 1
INVARIANTS
    BeaterInv
    InFlightIsAccounted
    OneLeftBehind
PROPERTIES
    StopEnds
    RemovedAfterMetrics
    LastResourceStays
\* The process ends.
CHECK_DEADLOCK FALSE
