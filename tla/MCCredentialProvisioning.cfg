\* Credentials in two workspaces, the default one configured or not; any failure.
SPECIFICATION FairSpec
CONSTANTS
    a1 = a1  c1 = c1  c2 = c2  c3 = c3  default = default  team = team
    None = None
    Apps = {a1}
    Credentials = {c1, c2, c3}
    AppOf <- MCAppOf
    WsOf <- MCWsOf
    KindOf <- MCKindOf
    Default = default
    Configurations = {{default, team}, {team}}
    MaxRequests = 5
    MaxFaults = 2
INVARIANTS
    ProvisionedWorks
    FewOrphans
    RemovedAppIsGone
PROPERTIES
    ImplementsContract
    RotationReplaces
    EveryRequestAnswered
\* Central stops asking at the bound.
CHECK_DEADLOCK FALSE
