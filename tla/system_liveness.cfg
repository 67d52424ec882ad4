SPECIFICATION FairSpec
CHECK_DEADLOCK FALSE
CONSTANTS
    BITS = 4
    n1 = n1  alice = alice  bob = bob  ka = ka  kb = kb
    NoAccount = NoAccount
    Nodes <- MCNodes
    Keystore <- MCKeystore
    SigningKey <- MCSigningKey
    AccountOf <- MCAccountOf
    RelaySides <- MCRelaySides
    StartSide <- OnDemandSide
    PoolFees = {0}
    StartWidth = 2
    StartThreshold = 0
    MaxAdminCalls = 0
    PruningDepth = 2
    StartHeight = 6
    ONE = 4
    OnDemandBaseFee = 1
    MaxSkipped = 1
    MaxBlocks = 3
    MaxFaults = 1
    Accounts <- MCAccounts
    Keys <- MCKeys
    GenesisAuthorities <- MCGenesis
    AuthoritySets = {}
    GenesisKeyOwner <- MCKeyOwner
    Widths = {0, 2}
    Thresholds = {0}
    OpeningFees = {0}
    TxFees = {}
    MaxFees = 4
    BaseFee = 0
    MaxHeight = 11
 
PROPERTY EventsAreRecorded
