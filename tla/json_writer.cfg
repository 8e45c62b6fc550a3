SPECIFICATION Spec
CONSTANTS
    MaxNodes = 5
    Values <- MCValues
    initLen = 3
INVARIANTS
    AllReleased
    TextIsTree
    StringsReadBack
PROPERTIES
    OnlyLiveTouched
CHECK_DEADLOCK FALSE
