SPECIFICATION FairSpec
CONSTANTS
    Good = Good
    Typo = Typo
    RetryMax = 10
INVARIANTS
    TypeOK
    ProvisionInv
PROPERTIES
    FlashKept
    OnlineInTheEnd
