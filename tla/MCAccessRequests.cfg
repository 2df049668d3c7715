\* One application on a route of each of two workspaces, with a quota; every request is answered.
SPECIFICATION FairSpec
CONSTANTS
    a1 = a1  a2 = a2  r1 = r1  r2 = r2  w1 = w1  w2 = w2
    idOf1 = idOf1  idOf2 = idOf2
    None = None
    Weekly = Weekly
    MetadataId <- MCMetadataId
    Workspaces = {w1, w2}
    Services = {}
    Routes = {r1, r2}
    ConsumerIds = {c1, c2}
    Groups = {}
    Limits = {l1}
    Apps = {a1}
    Quotas = {l1, Weekly}
    Deletable = {"granted", "failed"}
    AclDisable = FALSE
    OperatorActions = {}
    MaxPlugin = 4
    MaxFaults = 1
    InitialPlugins <- NoPlugins
    WorkspaceOf <- TwoWorkspaces
INVARIANTS
    DetailsNameItsConsumer
PROPERTIES
    EveryRequestIsAnswered
