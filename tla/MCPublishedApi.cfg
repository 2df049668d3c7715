\* Every configuration with every small route, two routes of a service with any plugins; every
\* source of a specification with any content, up to three paths.
SPECIFICATION EitherSpec
CONSTANTS
    None = None
    Workspace <- MCWorkspace
    Inputs <- AnyInput
    MaxPaths = 3
    MaxFaults = 2
INVARIANTS
    EndpointsExact
    AcceptedPublishes
    SecurityIsOwn
    TokensOverTls
    FirstSpecWins
    NoAnswerIsAnError
\* The routes of a service are processed once, and the search ends.
CHECK_DEADLOCK FALSE
