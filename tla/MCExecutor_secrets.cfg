CONSTANTS
    n1 = n1
    n2 = n2
    n3 = n3
    x = x
    NoName = NoName
    Unset = Unset
    Names <- MCNames
    Vars <- MCVars
    MaxCmds = 2
    Vals = {"p", "q", "s"}
    VaultSecret = "s"
    Tokens = {"good", "bad"}
    LaunchToken = "good"
    MaxFetchRetries = 0
    CommandLists <- EnvCommandLists
    ResponseEnvs <- EnvEnvs
    Masks <- EnvMasks
    FileContents <- EnvFiles
    LaunchFlags <- NoFlags

SPECIFICATION Spec

INVARIANT UnboxedBeforeSteps
