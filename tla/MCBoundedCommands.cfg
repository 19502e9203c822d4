CONSTANTS
    Names = {a, b, c}
    NoName = NoName
    MaxCmds = 4

SPECIFICATION Spec

INVARIANT BoundsAgreeWithSpec
