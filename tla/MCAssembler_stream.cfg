SPECIFICATION Spec
CONSTANTS
    NULL = NULL
    Fragments <- MCFragments
    UINT = 16
    MaxHeld = 7
    MaxBlocks = 4
    Sizes = {0, 1, 2, 3, 4, 5, 6, 7, 8}
    Offsets = {0, 1, 2, 3, 4}
INVARIANTS SizeIsTotal
PROPERTIES ImplementsStream
