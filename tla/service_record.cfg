SPECIFICATION Spec
CONSTANTS
    BITS = 4
    n1 = n1  n2 = n2  ka = ka  kb = kb
    Nodes <- TwoNodes
    Keystore <- TwoKeystore
    Views <- MovingViews
    StartHeight = 2
    StartView <- Duo
    ONE = 4
    OnDemandBaseFee = 1
    MaxSkipped = 0
    MaxBlocks = 3
    MaxFaults = 1
INVARIANT TypeOK
INVARIANT DuplicatesAreRetries
INVARIANT FreshSlotOrderable
INVARIANT EventSurvives
INVARIANT OnePlacerPerSlot
PROPERTY OrderLatch
