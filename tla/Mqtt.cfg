\* Both brokers come and go; the retry limits are the ones of the code.
SPECIFICATION FairSpec
CONSTANTS
    Reachable = {"aliot", "emqx"}
    AliotRetryMax = 3
    EmqxRetryMax = 5
INVARIANTS
    TypeOK
    HubSessionListens
PROPERTIES
    SessionKept
    OwnServer
    ListensForGood
