\* Two applications and an operator at work on the ACL of one route.
SPECIFICATION Spec
CONSTANTS
    a1 = a1  a2 = a2  r1 = r1  r2 = r2  w1 = w1  w2 = w2
    idOf1 = idOf1  idOf2 = idOf2
    None = None
    Weekly = Weekly
    MetadataId <- MCMetadataId
    Workspaces = {w1}
    Services = {}
    Routes = {r1}
    ConsumerIds = {c1, c2}
    Groups = {g1}
    Limits = {}
    Apps = {a1, a2}
    Quotas = {None}
    Deletable = {"granted", "failed"}
    AclDisable = FALSE
    OperatorActions = {"allow", "protect", "disable"}
    MaxPlugin = 3
    MaxFaults = 2
    InitialPlugins <- GlobalAcl
    WorkspaceOf <- OneWorkspace
SYMMETRY Interchangeable
INVARIANTS
    AccessInv
    NoAccessWithoutRequest
PROPERTIES
    ImplementsContract
