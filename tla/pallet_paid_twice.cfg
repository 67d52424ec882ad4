SPECIFICATION Spec
CONSTANTS
    BITS = 3
    alice = alice  bob = bob  ka = ka  kb = kb  kc = kc
    NoAccount = NoAccount
    Accounts <- SoloAccounts
    Keys <- SoloKeys
    GenesisAuthorities <- SoloGenesis
    AuthoritySets = {}
    GenesisKeyOwner <- SoloKeyOwner
    Widths = {0, 1, 2}
    Thresholds = {1}
    OpeningFees = {2}
    TxFees = {}
    MaxFees = 4
    BaseFee = 0
    MaxHeight = 4
INVARIANT OrderRewardedOnce
