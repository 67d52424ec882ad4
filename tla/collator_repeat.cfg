SPECIFICATION Spec
CHECK_DEADLOCK FALSE
CONSTANTS
    RelaySlotDuration = 6
    SlotDuration = 12
    ka = ka  kb = kb
    Keys <- MyKeys
    AuthoritySets <- Alone
    StartSlot = 11
    MaxBlocks = 4
    MaxGap = 2
    MaxFailures = 0
    MaxRestarts = 0
INVARIANT OneBlockPerSlotPerFork
