SPECIFICATION Spec
CONSTANTS
    BITS = 4
    n1 = n1  n2 = n2  ka = ka  kb = kb
    Nodes <- OneNode
    Keystore <- OneKeystore
    Views <- CoreViews
    StartHeight = 6
    StartView <- NoPool
    ONE = 4
    OnDemandBaseFee = 1
    MaxSkipped = 0
    MaxBlocks = 3
    MaxFaults = 0
INVARIANT OrdersNeedCores
