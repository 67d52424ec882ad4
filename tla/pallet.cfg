SPECIFICATION Spec
CONSTANTS
    BITS = 2
    alice = alice  bob = bob  ka = ka  kb = kb  kc = kc
    NoAccount = NoAccount
    Accounts <- MCAccounts
    Keys <- MCKeys
    GenesisAuthorities <- MCGenesis
    AuthoritySets <- MCAuthoritySets
    GenesisKeyOwner <- MCKeyOwner
    Widths = {0, 1, 2}
    Thresholds = {2}
    OpeningFees = {0, 2}
    TxFees = {2}
    MaxFees = 2
    BaseFee = 1
    MaxHeight = 3
INVARIANT TypeOK
INVARIANT RewardsInChainOrder
INVARIANT FreshSlotPayable
PROPERTY RewardLatch
PROPERTY PaysScheduledCollator
