\* One route; a publication fails, or a content comes back.
SPECIFICATION Spec
CONSTANTS
    w1 = w1  w2 = w2  s1 = s1  s2 = s2  s3 = s3  r1 = r1  r2 = r2  r3 = r3
    None = None
    Workspaces <- OneWorkspace
    ServicesOf <- OneServiceOf
    RoutesOf <- OneRouteOf
    Unnamed = {}
    Unreachable = {}
    AclDisable = FALSE
    SpecLess = {}
    Orders = {1}
    Period = 2
    MaxChanges = 2
    FaultKinds = {"publish"}
    MaxFaults = 1
PROPERTIES
    TrueMeansPublished
