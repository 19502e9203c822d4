CONSTANTS
    Depths = {0, 1, 2}
    MaxPushes = 2
    MaxSubmodules = 1

SPECIFICATION Spec

INVARIANT NoSelfInflictedFailure
