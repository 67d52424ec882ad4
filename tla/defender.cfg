SPECIFICATION Spec
SYMMETRY Symmetry
CONSTANTS
    s1 = s1  s2 = s2  s3 = s3
    Slots <- MCSlots
    LRU_WINDOW = 2
    EQUIVOCATION_LIMIT = 2
    MaxBlocks = 8
INVARIANT TypeOK
INVARIANT LimitPerWindow
INVARIANT RejectionsAreEarned
