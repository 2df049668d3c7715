\* Two services with a route to publish, one of them with an unnamed route besides, and a
\* service without a specification, in two workspaces; any failure.
SPECIFICATION FairSpec
CONSTANTS
    w1 = w1  w2 = w2  s1 = s1  s2 = s2  s3 = s3  r1 = r1  r2 = r2  r3 = r3
    None = None
    Workspaces <- MCWorkspaces
    ServicesOf <- MCServicesOf
    RoutesOf <- MCRoutesOf
    Unnamed = {r2}
    Unreachable = {}
    AclDisable = FALSE
    SpecLess = {s3}
    Orders = {1}
    Period = 2
    MaxChanges = 2
    FaultKinds = {"list", "read", "publish", "crash"}
    MaxFaults = 1
INVARIANTS
    TypeOK
    PublishesNews
PROPERTIES
    NeverOlder
    CatchesUp
