CONSTANTS
    Agents = {a1, a2}
    Concurrent = TRUE
    MaxRuns = 1

SPECIFICATION Spec

INVARIANT OwnDefaultDir
