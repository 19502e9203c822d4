CONSTANTS
    Agents = {a1, a2, a3}
    Concurrent = FALSE
    MaxRuns = 1

SPECIFICATION Spec

INVARIANT OwnDefaultDir
