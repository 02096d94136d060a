SPECIFICATION FairSpec
CONSTANTS
    Numbers = {0, 1}
    Malformed = Malformed
    Releases <- MCReleases
    Custom = Custom
    Newest <- MCNewest
INVARIANTS
    TypeOK
    TakesCommands
PROPERTIES
    UpdatesKept
    OutcomeHeard
    UpgradeLands
