\* Every table of three plugins; every name of up to three words.
SPECIFICATION Spec
CONSTANTS
    Workspaces = {w1}
    Services = {s1}
    Routes = {r1, r2}
    ConsumerIds = {c1, c2}
    Groups = {}
    Limits = {}
    None = None
    MaxPlugin = 3
    Words = {"team", "api", "key", "http", "basic"}
    MaxWords = 3
INVARIANTS
    AclLookupExact
    RateLookupComplete
    RateLookupExact
    EffectiveIsMostSpecific
    ParsesBack
    NeverAnotherWorkspace
