SPECIFICATION Spec
CHECK_DEADLOCK FALSE
CONSTANTS
    RelaySlotDuration = 6
    SlotDuration = 12
    ka = ka  kb = kb
    Keys <- MyKeys
    AuthoritySets <- Rotating
    StartSlot = 11
    MaxBlocks = 4
    MaxGap = 2
    MaxFailures = 1
    MaxRestarts = 1
INVARIANT TypeOK
INVARIANT RepeatsHaveCause
PROPERTY CollatorLatch
