SPECIFICATION Spec
CONSTANTS
    Stores = {s1, s2}
    Maint = m
    Keys <- MCKeys
    Dirs <- MCDirs
    MaxVersion = 3
    RetainedAt <- MCRetainedAt
    Policies <- MCPolicies
    MayFail <- MCMayFail
    MaxFailures = 1
    Window = FALSE
SYMMETRY StoresAlike
VIEW UpToDirs
INVARIANTS
    
    
    BackedUpBeforeMigrated
