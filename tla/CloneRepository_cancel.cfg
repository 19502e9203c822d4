CONSTANTS
    Depths = {0, 1}
    MaxPushes = 0
    MaxSubmodules = 1

SPECIFICATION Spec

PROPERTY CancelStopsGitIO
