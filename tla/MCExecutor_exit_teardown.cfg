CONSTANTS
    n1 = n1
    n2 = n2
    n3 = n3
    x = x
    NoName = NoName
    Unset = Unset
    Names <- MCNames
    Vars <- MCVars
    MaxCmds = 3
    Vals = {"p", "q", "s"}
    VaultSecret = "s"
    Tokens = {"good", "bad"}
    LaunchToken = "good"
    MaxFetchRetries = 0
    CommandLists <- LoopCommandLists
    ResponseEnvs <- LoopEnvs
    Masks <- LoopMasks
    FileContents <- LoopFiles
    LaunchFlags <- NoFlags

SPECIFICATION Spec

INVARIANT BackgroundTeardownOnReturn
