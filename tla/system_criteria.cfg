SPECIFICATION Spec
CONSTANTS
    BITS = 4
    n1 = n1  alice = alice  bob = bob  ka = ka  kb = kb
    NoAccount = NoAccount
    Nodes <- MCNodes
    Keystore <- MCKeystore
    SigningKey <- MCSigningKey
    AccountOf <- MCAccountOf
    RelaySides <- MCRelaySides
    StartSide <- OnDemandSide
    PoolFees = {3}
    StartWidth = 2
    StartThreshold = 3
    MaxAdminCalls = 0
    PruningDepth = 2
    StartHeight = 6
    ONE = 4
    OnDemandBaseFee = 1
    MaxSkipped = 0
    MaxBlocks = 3
    MaxFaults = 0
    Accounts <- MCAccounts
    Keys <- MCKeys
    GenesisAuthorities <- MCGenesis
    AuthoritySets = {}
    GenesisKeyOwner <- MCKeyOwner
    Widths = {0, 2}
    Thresholds = {3}
    OpeningFees = {1}
    TxFees = {}
    MaxFees = 4
    BaseFee = 1
    MaxHeight = 11
INVARIANT CriteriaAgree
