\* Two applications with quotas on two routes.
SPECIFICATION Spec
CONSTANTS
    a1 = a1  a2 = a2  r1 = r1  r2 = r2  w1 = w1  w2 = w2
    idOf1 = idOf1  idOf2 = idOf2
    None = None
    Weekly = Weekly
    MetadataId <- MCMetadataId
    Workspaces = {w1}
    Services = {}
    Routes = {r1, r2}
    ConsumerIds = {c1, c2}
    Groups = {}
    Limits = {l1}
    Apps = {a1, a2}
    Quotas = {l1}
    Deletable = {"granted", "failed"}
    AclDisable = FALSE
    OperatorActions = {}
    MaxPlugin = 5
    MaxFaults = 0
    InitialPlugins <- GlobalAcl
    WorkspaceOf <- OneWorkspace
SYMMETRY InterchangeableWithRoutes
INVARIANTS
    QuotaInForce
